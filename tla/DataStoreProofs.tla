--------------------------- MODULE DataStoreProofs ---------------------------
(* Proofs about DataStore, for any users, orders, related rows, bodies,      *)
(* number of requests, connections and failures.                             *)
(*                                                                           *)
(* The inductive invariant says what every row that somebody has read has to *)
(* do with the row that is committed, and what a transaction may have made   *)
(* of the rows it has locked.                                                *)
EXTENDS DataStore, SequenceTheorems, TLAPS

-----------------------------------------------------------------------------
(* Types.                                                                    *)

AnyStep ==
  [op : {"create", "update", "delete"}, scan : SUBSET Orders, id : Orders, owner : Users,
   rel : SUBSET Related, basis : OrderRow \cup {NoVersion}, seen : SUBSET Files]
    \cup [op : {"fields"}, scan : {{}}, id : Orders, rel : SUBSET Related, seen : SUBSET Files]
    \cup [op : {"insert"}, scan : SUBSET (Keys \ Orders), id : Orders]
    \cup [op : {"remove"}, scan : SUBSET (Keys \ Orders), must : BOOLEAN]
    \cup [op : {"keep"}, scan : SUBSET Children]
    \cup [op : {"write", "unlink"}, scan : {{}}, id : Orders, file : Files, name : Names]
    \cup [op : {"drop"}, class : {"tags", "children", "files"}, ids : SUBSET Orders]
    \cup [op : {"sweep"}, ids : SUBSET Orders, scan : {{}}]
    \cup [op : {"query", "childQuery", "fail", "badRow", "badField", "badFilter"}, scan : {{}}]
    \cup [op : {"select"}, scan : {{}}, ids : SUBSET Orders]
    \cup [op : {"deleteIds"}, scan : SUBSET Orders,
          basis : [Orders -> OrderRow \cup {NoVersion}]]
    \cup [op : {"updateWhere"}, scan : SUBSET Orders, owner : Users]
    \cup [op : {"deleteWhere"}, scan : SUBSET Orders]

\* A save of one row names that row.
NamesItself(s) == s.op \in {"create", "update", "delete"} => s.scan = {s.id}

MaybeRow == OrderRow \cup {Absent}

Types ==
  /\ DOMAIN table = Keys /\ \A o \in Orders : table[o] \in MaybeRow
  /\ DOMAIN undo = Requests
  /\ \A r \in Requests :
       /\ DOMAIN undo[r] \subseteq Keys
       /\ \A o \in Orders : o \in DOMAIN undo[r] => undo[r][o] \in MaybeRow
  /\ pc \in [Requests -> {"idle", "begin", "tx", "panicked"}]
  /\ user \in [Requests -> Users] /\ num \in [Requests -> Nat] /\ sent \in Nat
  /\ todo \in [Requests -> Seq(AnyStep)]
  /\ \A r \in Requests : \A i \in 1 .. Len(todo[r]) : NamesItself(todo[r][i])
  /\ DOMAIN view = Users /\ \A u \in Users, o \in Orders : view[u][o] \in MaybeRow
  /\ used \subseteq Files

-----------------------------------------------------------------------------
(* The invariant.                                                            *)

\* Each row is locked by one transaction at most.
LocksApart ==
  \A r, q \in Requests : \A k \in Keys :
    k \in DOMAIN undo[r] /\ k \in DOMAIN undo[q] => r = q
LocksHeld == \A r \in Requests : pc[r] \in {"idle", "begin"} => DOMAIN undo[r] = {}

\* Requests at work have numbers of their own.
Numbered ==
  \A r \in Requests : pc[r] # "idle" =>
    /\ num[r] \in 1 .. sent
    /\ \A q \in Requests : pc[q] # "idle" /\ num[q] = num[r] => q = r

\* No request at work has written the row x.
Old(p, n, m, x) ==
  /\ x.born <= m /\ x.stamp <= m
  /\ \A r \in Requests : p[r] # "idle" => x.born # n[r] /\ x.stamp # n[r]

\* Somebody has read x; c is what is committed in its place.
Fits(p, n, m, x, c) ==
  x \in OrderRow =>
    /\ Old(p, n, m, x)
    /\ c \in OrderRow =>
         /\ x.born = c.born => x.version <= c.version /\ (x.version = c.version => x.stamp = c.stamp)
         /\ x.stamp = c.stamp => x.owner = c.owner

\* What request number n may have made of a row that was c.
Draft(n, c, t) ==
  \/ t = Absent \/ t = c
  \/ /\ t \in OrderRow /\ t.stamp = n
     /\ \/ t.born = n
        \/ c \in OrderRow /\ t.born = c.born /\ t.version > c.version

CommittedOld ==
  \A o \in Orders :
    Committed(o) \in MaybeRow /\ (Committed(o) \in OrderRow => Old(pc, num, sent, Committed(o)))
DraftsFit ==
  \A r \in Requests, o \in Orders :
    o \in DOMAIN undo[r] => Draft(num[r], undo[r][o], table[o])
ViewsFit ==
  \A u \in Users, o \in Orders : Fits(pc, num, sent, view[u][o], Committed(o))

\* What a step knows of order o.
Basis(s, o) ==
  CASE s.op = "update" /\ s.id = o -> s.basis
    [] s.op = "deleteIds" /\ o \in s.scan -> s.basis[o]
    [] OTHER -> NoVersion

\* The rows of a filtered user's delete were the user's own when selected.
Own(u, s) ==
  s.op = "deleteIds" /\ u \in Filtered =>
    \A o \in s.scan : s.basis[o] \in OrderRow /\ s.basis[o].owner = u

StepsFit ==
  \A r \in Requests : \A i \in 1 .. Len(todo[r]) :
    /\ Own(user[r], todo[r][i])
    /\ \A o \in Orders : Fits(pc, num, sent, Basis(todo[r][i], o), Committed(o))

IInv ==
  /\ Types /\ LocksApart /\ LocksHeld /\ Numbered
  /\ CommittedOld /\ DraftsFit /\ ViewsFit /\ StepsFit

-----------------------------------------------------------------------------
(* Lemmas about rows that were read and rows that are committed.             *)

CommittedIn(t, u, k) ==
  IF \E q \in Requests : k \in DOMAIN u[q]
  THEN u[CHOOSE q \in Requests : k \in DOMAIN u[q]][k]
  ELSE t[k]

\* What is committed of a row: the value its transaction has found, or, if it
\* is not locked, the value in the table.
LEMMA CommittedIs ==
  ASSUME NEW t, NEW u, NEW k,
         \A r, q \in Requests : k \in DOMAIN u[r] /\ k \in DOMAIN u[q] => r = q
  PROVE  /\ \A r \in Requests : k \in DOMAIN u[r] => CommittedIn(t, u, k) = u[r][k]
         /\ (\A r \in Requests : k \notin DOMAIN u[r]) => CommittedIn(t, u, k) = t[k]
<1>1. ASSUME NEW r \in Requests, k \in DOMAIN u[r]
      PROVE  CommittedIn(t, u, k) = u[r][k]
  <2>. DEFINE q == CHOOSE q \in Requests : k \in DOMAIN u[q]
  <2>1. q \in Requests /\ k \in DOMAIN u[q]
    BY <1>1
  <2>2. q = r
    BY <1>1, <2>1
  <2>. QED  BY <1>1, <2>2 DEF CommittedIn
<1>. QED  BY <1>1 DEF CommittedIn

LEMMA CommittedSame == \A k : Committed(k) = CommittedIn(table, undo, k)
BY DEF Committed, CommittedIn

LEMMA CommittedSameNext == \A k : Committed(k)' = CommittedIn(table', undo', k)
BY DEF Committed, CommittedIn

\* A row that no request at work has written stays so when requests end and
\* others begin with numbers of their own.
LEMMA OldKept ==
  ASSUME NEW p, NEW n, NEW m \in Nat, NEW p2, NEW n2, NEW m2 \in Nat, m <= m2,
         \A r \in Requests : n2[r] \in Nat,
         \A r \in Requests : p2[r] # "idle" => (p[r] # "idle" /\ n2[r] = n[r]) \/ n2[r] > m,
         NEW x \in OrderRow, Old(p, n, m, x)
  PROVE  Old(p2, n2, m2, x)
BY DEF Old, OrderRow

LEMMA FitsKept ==
  ASSUME NEW p, NEW n, NEW m \in Nat, NEW p2, NEW n2, NEW m2 \in Nat, m <= m2,
         \A r \in Requests : n2[r] \in Nat,
         \A r \in Requests : p2[r] # "idle" => (p[r] # "idle" /\ n2[r] = n[r]) \/ n2[r] > m,
         NEW x, NEW c, Fits(p, n, m, x, c)
  PROVE  Fits(p2, n2, m2, x, c)
BY OldKept DEF Fits

\* Writing a draft once more makes a draft of the same row.
LEMMA DraftAgain ==
  ASSUME NEW n, NEW c \in MaybeRow, NEW t \in MaybeRow, NEW t2 \in MaybeRow,
         Draft(n, c, t), Draft(n, t, t2)
  PROVE  Draft(n, c, t2)
<1>. Absent \notin OrderRow
  BY DataStoreAssumption
<1>. QED  BY DEF Draft, MaybeRow, OrderRow

\* Who has read a row has read nothing of the draft that is committed now.
LEMMA DraftFits ==
  ASSUME NEW p, NEW n, NEW m, NEW r \in Requests, p[r] # "idle",
         NEW c \in MaybeRow, NEW t \in MaybeRow, Draft(n[r], c, t),
         NEW x, Fits(p, n, m, x, c)
  PROVE  Fits(p, n, m, x, t)
<1>. Absent \notin OrderRow
  BY DataStoreAssumption
<1>1. CASE t = Absent
  BY <1>1 DEF Fits
<1>2. CASE t = c
  BY <1>2
<1>3. CASE t \in OrderRow /\ t.stamp = n[r] /\ x \in OrderRow
  <2>1. x.born # n[r] /\ x.stamp # n[r] /\ Old(p, n, m, x)
    BY <1>3 DEF Fits, Old
  <2>2. CASE t.born = n[r]
    BY <1>3, <2>1, <2>2 DEF Fits
  <2>3. CASE c \in OrderRow /\ t.born = c.born /\ t.version > c.version
    <3>1. x.born = t.born => x.version <= c.version
      BY <1>3, <2>3 DEF Fits
    <3>2. x.version \in Nat /\ c.version \in Nat /\ t.version \in Nat
      BY <1>3, <2>3 DEF OrderRow
    <3>. QED  BY <1>3, <2>1, <2>3, <3>1, <3>2 DEF Fits
  <2>4. t = Absent \/ t = c \/ t.born = n[r] \/ (c \in OrderRow /\ t.born = c.born /\ t.version > c.version)
    BY DEF Draft
  <2>. QED  BY <1>1, <1>2, <2>2, <2>3, <2>4
<1>4. CASE x \notin OrderRow
  BY <1>4 DEF Fits
<1>. QED  BY <1>1, <1>2, <1>3, <1>4 DEF Draft

\* A committed row may be read.
LEMMA CommittedFits ==
  ASSUME NEW p, NEW n, NEW m, NEW c, c \in OrderRow => Old(p, n, m, c)
  PROVE  Fits(p, n, m, c, c)
BY DEF Fits, OrderRow

-----------------------------------------------------------------------------
(* Lemmas about sequences of steps.                                          *)

\* The steps of a request after one of them are new ones or were there before.
LEMMA ContinueOf ==
  ASSUME todo \in [Requests -> Seq(AnyStep)], NEW r \in Requests, todo[r] # <<>>,
         NEW steps \in Seq(AnyStep), Continue(r, steps)
  PROVE  /\ todo' \in [Requests -> Seq(AnyStep)]
         /\ \A q \in Requests \ {r} : todo'[q] = todo[q]
         /\ \A i \in 1 .. Len(todo'[r]) :
              \/ \E j \in 1 .. Len(steps) : todo'[r][i] = steps[j]
              \/ \E j \in 1 .. Len(todo[r]) : todo'[r][i] = todo[r][j]
<1>. DEFINE old == todo[r]  rest == Tail(old)
<1>1. old \in Seq(AnyStep) /\ old # <<>>
  OBVIOUS
<1>2. rest \in Seq(AnyStep) /\ Len(rest) = Len(old) - 1 /\ Len(old) \in Nat
  BY <1>1
<1>3. \A i \in 1 .. Len(rest) : rest[i] = old[i + 1]
  BY <1>1
<1>4. todo' = [todo EXCEPT ![r] = steps \o rest]
  BY DEF Continue
<1>. HIDE DEF rest
<1>5. steps \o rest \in Seq(AnyStep)
  BY <1>2
<1>6. todo'[r] = steps \o rest /\ todo' \in [Requests -> Seq(AnyStep)]
  BY <1>4, <1>5
<1>7. \A q \in Requests \ {r} : todo'[q] = todo[q]
  BY <1>4
<1>8. Len(steps \o rest) = Len(steps) + Len(rest) /\ Len(steps) \in Nat /\ Len(rest) \in Nat
  BY <1>2, ConcatProperties, LenProperties
<1>9. \A i \in 1 .. Len(steps \o rest) :
        (steps \o rest)[i] = IF i <= Len(steps) THEN steps[i] ELSE rest[i - Len(steps)]
  BY <1>2, ConcatProperties
<1>10. ASSUME NEW i \in 1 .. Len(todo'[r])
       PROVE  \/ \E j \in 1 .. Len(steps) : todo'[r][i] = steps[j]
              \/ \E j \in 1 .. Len(old) : todo'[r][i] = old[j]
  <2>1. CASE i <= Len(steps)
    <3>1. i \in 1 .. Len(steps) /\ todo'[r][i] = steps[i]
      BY <1>6, <1>8, <1>9, <2>1
    <3>. QED  BY <3>1
  <2>2. CASE i > Len(steps)
    <3>. DEFINE j == i - Len(steps)
    <3>1. j \in 1 .. Len(rest) /\ todo'[r][i] = rest[j]
      BY <1>6, <1>8, <1>9, <2>2
    <3>. HIDE DEF j
    <3>2. rest[j] = old[j + 1]
      BY <1>3, <3>1
    <3>3. j + 1 \in 1 .. Len(old)
      <4>. DEFINE m == Len(old)  n == Len(rest)
      <4>1. m \in Nat /\ n = m - 1 /\ j \in 1 .. n
        BY <1>2, <3>1
      <4>. HIDE DEF m, n
      <4>2. j + 1 \in 1 .. m
        BY <4>1
      <4>. QED  BY <4>2 DEF m
    <3>. QED  BY <3>1, <3>2, <3>3
  <2>. QED  BY <1>6, <1>8, <2>1, <2>2
<1>. QED  BY <1>6, <1>7, <1>10

\* What a list of steps may know: nothing, or a row somebody knows already.
Informed(steps) ==
  \A i \in 1 .. Len(steps), o \in Orders :
    \/ Basis(steps[i], o) = NoVersion
    \/ Basis(steps[i], o) = Committed(o)
    \/ \E u \in Users : Basis(steps[i], o) = view[u][o]

\* Steps user u may give a request, and new steps that may join the old ones.
StepsOf(u, steps) ==
  /\ steps \in Seq(AnyStep) /\ Informed(steps)
  /\ \A i \in 1 .. Len(steps) : NamesItself(steps[i]) /\ Own(u, steps[i])
NewSteps(r, steps) == StepsOf(user[r], steps)

\* Everything that was read fits what is committed in the next state.
LEMMA FitsStep ==
  ASSUME IInv,
         \A o \in Orders : /\ Committed(o)' \in MaybeRow
                           /\ Committed(o)' \in OrderRow => Old(pc', num', sent', Committed(o)'),
         \A o \in Orders : \A x : Fits(pc, num, sent, x, Committed(o))
                                    => Fits(pc', num', sent', x, Committed(o)'),
         \A u \in Users, o \in Orders :
           view'[u][o] = view[u][o] \/ view'[u][o] = Committed(o),
         \A r \in Requests : \A i \in 1 .. Len(todo'[r]) :
           \/ \E j \in 1 .. Len(todo[r]) : todo'[r][i] = todo[r][j]
           \/ \A o \in Orders : \/ Basis(todo'[r][i], o) = NoVersion
                                \/ Basis(todo'[r][i], o) = Committed(o)
                                \/ \E u \in Users : Basis(todo'[r][i], o) = view[u][o]
  PROVE  /\ CommittedOld' /\ ViewsFit'
         /\ \A r \in Requests : \A i \in 1 .. Len(todo'[r]) : \A o \in Orders :
              Fits(pc', num', sent', Basis(todo'[r][i], o), Committed(o)')
<1>1. CommittedOld'
  BY DEF CommittedOld
<1>2. \A o \in Orders : Fits(pc, num, sent, Committed(o), Committed(o))
  BY CommittedFits DEF IInv, CommittedOld
<1>3. ViewsFit'
  BY <1>2 DEF IInv, ViewsFit
<1>4. \A o \in Orders : Fits(pc, num, sent, NoVersion, Committed(o))
  BY DataStoreAssumption DEF Fits
<1>5. ASSUME NEW r \in Requests, NEW i \in 1 .. Len(todo'[r]), NEW o \in Orders
      PROVE  Fits(pc', num', sent', Basis(todo'[r][i], o), Committed(o)')
  <2>1. CASE \E j \in 1 .. Len(todo[r]) : todo'[r][i] = todo[r][j]
    BY <2>1 DEF IInv, StepsFit
  <2>2. CASE \/ Basis(todo'[r][i], o) = NoVersion
             \/ Basis(todo'[r][i], o) = Committed(o)
             \/ \E u \in Users : Basis(todo'[r][i], o) = view[u][o]
    BY <1>2, <1>4, <2>2 DEF IInv, ViewsFit
  <2>. QED  BY <2>1, <2>2
<1>. QED  BY <1>1, <1>3, <1>5

\* The same when nothing is committed.
LEMMA FitsUncommitted ==
  ASSUME IInv, Types', sent <= sent',
         \A o \in Orders : Committed(o)' = Committed(o),
         \A r \in Requests : pc'[r] # "idle" =>
           (pc[r] # "idle" /\ num'[r] = num[r]) \/ num'[r] > sent
  PROVE  \A o \in Orders :
           /\ Committed(o)' \in MaybeRow
           /\ Committed(o)' \in OrderRow => Old(pc', num', sent', Committed(o)')
           /\ \A x : Fits(pc, num, sent, x, Committed(o))
                       => Fits(pc', num', sent', x, Committed(o)')
<1>1. sent \in Nat /\ sent' \in Nat /\ \A r \in Requests : num'[r] \in Nat
  BY DEF IInv, Types
<1>2. \A o \in Orders : \A x : Fits(pc, num, sent, x, Committed(o))
                                 => Fits(pc', num', sent', x, Committed(o))
  BY <1>1, FitsKept
<1>3. \A o \in Orders : Committed(o) \in OrderRow => Old(pc', num', sent', Committed(o))
  BY <1>1, OldKept DEF IInv, CommittedOld
<1>. QED  BY <1>2, <1>3 DEF IInv, CommittedOld

\* A step of a transaction that leaves open what is committed.
LEMMA StepKeeps ==
  ASSUME IInv, NEW r \in Requests, todo[r] # <<>>, NEW steps, NewSteps(r, steps),
         Continue(r, steps), UNCHANGED <<pc, user, num, view, sent>>, used' \subseteq Files,
         DOMAIN table' = Keys, \A o \in Orders : table'[o] \in MaybeRow,
         DOMAIN undo' = Requests,
         \A q \in Requests :
           /\ DOMAIN undo'[q] \subseteq Keys
           /\ \A o \in Orders : o \in DOMAIN undo'[q] => undo'[q][o] \in MaybeRow,
         LocksApart', LocksHeld', DraftsFit',
         \A o \in Orders : Committed(o)' = Committed(o)
  PROVE  IInv'
<1>1. /\ todo' \in [Requests -> Seq(AnyStep)]
      /\ \A q \in Requests \ {r} : todo'[q] = todo[q]
      /\ \A i \in 1 .. Len(todo'[r]) :
           \/ \E j \in 1 .. Len(steps) : todo'[r][i] = steps[j]
           \/ \E j \in 1 .. Len(todo[r]) : todo'[r][i] = todo[r][j]
  BY ContinueOf DEF IInv, Types, NewSteps, StepsOf
<1>2. \A q \in Requests : \A i \in 1 .. Len(todo'[q]) :
        \/ \E j \in 1 .. Len(todo[q]) : todo'[q][i] = todo[q][j]
        \/ q = r /\ \E j \in 1 .. Len(steps) : todo'[q][i] = steps[j]
  <2>. SUFFICES ASSUME NEW q \in Requests, NEW i \in 1 .. Len(todo'[q])
                PROVE  \/ \E j \in 1 .. Len(todo[q]) : todo'[q][i] = todo[q][j]
                       \/ q = r /\ \E j \in 1 .. Len(steps) : todo'[q][i] = steps[j]
    OBVIOUS
  <2>1. CASE q = r
    BY <1>1, <2>1, Zenon
  <2>2. CASE q # r
    BY <1>1, <2>2
  <2>. QED  BY <2>1, <2>2
<1>3. Types'
  <2>1. \A q \in Requests : \A i \in 1 .. Len(todo'[q]) : NamesItself(todo'[q][i])
    <3>1. \A q \in Requests : \A j \in 1 .. Len(todo[q]) : NamesItself(todo[q][j])
      BY DEF IInv, Types
    <3>2. \A j \in 1 .. Len(steps) : NamesItself(steps[j])
      BY DEF NewSteps, StepsOf
    <3>. QED  BY <1>2, <3>1, <3>2
  <2>2. /\ pc' \in [Requests -> {"idle", "begin", "tx", "panicked"}]
        /\ user' \in [Requests -> Users] /\ num' \in [Requests -> Nat] /\ sent' \in Nat
        /\ DOMAIN view' = Users /\ \A u \in Users, o \in Orders : view'[u][o] \in MaybeRow
    BY DEF IInv, Types
  <2>. QED  BY <1>1, <2>1, <2>2 DEF Types
<1>4. CommittedOld' /\ ViewsFit' /\
        \A q \in Requests : \A i \in 1 .. Len(todo'[q]) : \A o \in Orders :
          Fits(pc', num', sent', Basis(todo'[q][i], o), Committed(o)')
  <2>1. sent <= sent'
    BY DEF IInv, Types
  <2>2. \A q \in Requests : \A i \in 1 .. Len(todo'[q]) :
          \/ \E j \in 1 .. Len(todo[q]) : todo'[q][i] = todo[q][j]
          \/ \A o \in Orders : \/ Basis(todo'[q][i], o) = NoVersion
                               \/ Basis(todo'[q][i], o) = Committed(o)
                               \/ \E u \in Users : Basis(todo'[q][i], o) = view[u][o]
    BY <1>2 DEF NewSteps, StepsOf, Informed
  <2>3. \A o \in Orders :
           /\ Committed(o)' \in MaybeRow
           /\ Committed(o)' \in OrderRow => Old(pc', num', sent', Committed(o)')
           /\ \A x : Fits(pc, num, sent, x, Committed(o))
                       => Fits(pc', num', sent', x, Committed(o)')
    BY <1>3, <2>1, FitsUncommitted
  <2>. QED  BY <2>2, <2>3, FitsStep
<1>5. \A q \in Requests : \A i \in 1 .. Len(todo'[q]) : Own(user'[q], todo'[q][i])
  <2>1. \A q \in Requests : \A j \in 1 .. Len(todo[q]) : Own(user[q], todo[q][j])
    BY DEF IInv, StepsFit
  <2>2. \A j \in 1 .. Len(steps) : Own(user[r], steps[j])
    BY DEF NewSteps, StepsOf
  <2>3. \A q \in Requests : \A i \in 1 .. Len(todo'[q]) : Own(user[q], todo'[q][i])
    <3> SUFFICES ASSUME NEW q \in Requests, NEW i \in 1 .. Len(todo'[q])
                 PROVE  Own(user[q], todo'[q][i])
      OBVIOUS
    <3>1. \/ \E j \in 1 .. Len(todo[q]) : todo'[q][i] = todo[q][j]
          \/ q = r /\ \E j \in 1 .. Len(steps) : todo'[q][i] = steps[j]
      BY <1>2
    <3>. QED  BY <2>1, <2>2, <3>1
  <2>. QED  BY <2>3
<1>6. Numbered'
  BY DEF IInv, Numbered
<1>7. StepsFit'
  BY <1>4, <1>5 DEF StepsFit
<1>. QED  BY <1>3, <1>4, <1>6, <1>7, Zenon DEF IInv

-----------------------------------------------------------------------------
(* The parts actions are made of.                                            *)

LEMMA NoSteps == \A r : NewSteps(r, <<>>)
BY DEF NewSteps, StepsOf, Informed

\* A statement that waits for no lock writes drafts of the rows it locks.
LEMMA ExecuteKeeps ==
  ASSUME IInv, NEW r \in Requests, pc[r] = "tx", todo[r] # <<>>,
         Scan(r) \subseteq Keys, ~Blocked(r), NEW rows, Execute(r, rows),
         NEW steps, NewSteps(r, steps), Continue(r, steps), used' \subseteq Files,
         \A o \in Orders \cap Scan(r) :
           rows[o] \in MaybeRow /\ Draft(num[r], table[o], rows[o])
  PROVE  IInv'
<1>. DEFINE scan == Scan(r)
<1>. HIDE DEF scan
<1>1. /\ scan \subseteq Keys
      /\ \A o \in Orders : o \in scan => rows[o] \in MaybeRow /\ Draft(num[r], table[o], rows[o])
      /\ \A q \in Requests : \A k \in scan : k \in DOMAIN undo[q] => q = r
  BY DEF Blocked, Locked, scan
<1>2. /\ table' = [k \in Keys |-> IF k \in scan THEN rows[k] ELSE table[k]]
      /\ undo' = [undo EXCEPT ![r] = [k \in DOMAIN undo[r] \cup scan |->
                                        IF k \in DOMAIN undo[r] THEN undo[r][k] ELSE table[k]]]
      /\ UNCHANGED <<pc, user, num, view, sent>>
  BY DEF Execute, clients, scan
<1>3. DOMAIN undo = Requests /\ Orders \subseteq Keys
  BY DEF IInv, Types, Keys
<1>4. /\ DOMAIN undo' = Requests
      /\ DOMAIN undo'[r] = DOMAIN undo[r] \cup scan
      /\ \A k \in DOMAIN undo[r] : undo'[r][k] = undo[r][k]
      /\ \A k \in scan : k \notin DOMAIN undo[r] => undo'[r][k] = table[k]
      /\ \A q \in Requests : q # r => undo'[q] = undo[q]
  BY <1>2, <1>3
<1>5. /\ DOMAIN table' = Keys
      /\ \A k \in Keys : k \in scan => table'[k] = rows[k]
      /\ \A k \in Keys : k \notin scan => table'[k] = table[k]
  BY <1>2
<1>6. \A o \in Orders : table'[o] \in MaybeRow
  BY <1>1, <1>3, <1>5 DEF IInv, Types
<1>7. \A q \in Requests :
        /\ DOMAIN undo'[q] \subseteq Keys
        /\ \A o \in Orders : o \in DOMAIN undo'[q] => undo'[q][o] \in MaybeRow
  <2>1. \A q \in Requests : DOMAIN undo'[q] \subseteq Keys
    BY <1>1, <1>4 DEF IInv, Types
  <2>2. ASSUME NEW q \in Requests, NEW o \in Orders, o \in DOMAIN undo'[q]
        PROVE  undo'[q][o] \in MaybeRow
    BY <1>4, <2>2 DEF IInv, Types
  <2>. QED  BY <2>1, <2>2
<1>8. LocksApart'
  BY <1>1, <1>4 DEF IInv, LocksApart
<1>9. LocksHeld'
  BY <1>2, <1>4 DEF IInv, LocksHeld
<1>10. DraftsFit'
  <2>1. ASSUME NEW q \in Requests, NEW o \in Orders, o \in DOMAIN undo'[q]
        PROVE  Draft(num'[q], undo'[q][o], table'[o])
    <3>1. CASE q # r
      <4>1. o \in DOMAIN undo[q] /\ undo'[q][o] = undo[q][o]
        BY <1>4, <2>1, <3>1
      <4>2. table'[o] = table[o]
        BY <1>1, <1>3, <1>5, <3>1, <4>1
      <4>. QED  BY <1>2, <4>1, <4>2 DEF IInv, DraftsFit
    <3>2. CASE q = r /\ o \in DOMAIN undo[r] /\ o \in scan
      <4>1. Draft(num[r], undo[r][o], table[o]) /\ Draft(num[r], table[o], rows[o])
        BY <1>1, <3>2 DEF IInv, DraftsFit
      <4>2. undo[r][o] \in MaybeRow /\ table[o] \in MaybeRow /\ rows[o] \in MaybeRow
        BY <1>1, <3>2 DEF IInv, Types
      <4>. QED  BY <1>2, <1>3, <1>4, <1>5, <3>2, <4>1, <4>2, DraftAgain
    <3>3. CASE q = r /\ o \in DOMAIN undo[r] /\ o \notin scan
      BY <1>2, <1>3, <1>4, <1>5, <3>3 DEF IInv, DraftsFit
    <3>4. CASE q = r /\ o \notin DOMAIN undo[r]
      <4>1. o \in scan /\ undo'[r][o] = table[o] /\ table'[o] = rows[o]
        BY <1>3, <1>4, <1>5, <2>1, <3>4
      <4>. QED  BY <1>1, <1>2, <3>4, <4>1
    <3>. QED  BY <3>1, <3>2, <3>3, <3>4
  <2>. QED  BY <2>1 DEF DraftsFit
<1>11. ASSUME NEW o \in Orders
       PROVE  Committed(o)' = Committed(o)
  <2>1. /\ \A q \in Requests : o \in DOMAIN undo[q] => Committed(o) = undo[q][o]
        /\ (\A q \in Requests : o \notin DOMAIN undo[q]) => Committed(o) = table[o]
    BY <1>3, CommittedIs, CommittedSame DEF IInv, LocksApart
  <2>2. /\ \A q \in Requests : o \in DOMAIN undo'[q] => Committed(o)' = undo'[q][o]
        /\ (\A q \in Requests : o \notin DOMAIN undo'[q]) => Committed(o)' = table'[o]
    BY <1>3, <1>8, CommittedIs, CommittedSameNext DEF LocksApart
  <2>3. CASE \E q \in Requests : o \in DOMAIN undo[q]
    BY <1>4, <2>1, <2>2, <2>3
  <2>4. CASE (\A q \in Requests : o \notin DOMAIN undo[q]) /\ o \in scan
    BY <1>4, <2>1, <2>2, <2>4
  <2>5. CASE (\A q \in Requests : o \notin DOMAIN undo[q]) /\ o \notin scan
    <3>1. \A q \in Requests : o \notin DOMAIN undo'[q]
      BY <1>4, <2>5
    <3>. QED  BY <1>3, <1>5, <2>1, <2>2, <2>5, <3>1
  <2>. QED  BY <2>3, <2>4, <2>5
<1>. QED  BY <1>2, <1>4, <1>5, <1>6, <1>7, <1>8, <1>9, <1>10, <1>11, StepKeeps

\* A step of a transaction that is no statement of its own.
LEMMA ContinueKeeps ==
  ASSUME IInv, NEW r \in Requests, todo[r] # <<>>, NEW steps, NewSteps(r, steps),
         Continue(r, steps), UNCHANGED <<table, undo, pc>>, UNCHANGED clients,
         used' \subseteq Files
  PROVE  IInv'
<1>1. UNCHANGED <<pc, user, num, view, sent>>
  BY DEF clients
<1>2. \A o \in Orders : Committed(o)' = Committed(o)
  BY DEF Committed
<1>3. LocksApart' /\ LocksHeld' /\ DraftsFit'
  BY <1>1 DEF IInv, LocksApart, LocksHeld, DraftsFit
<1>4. /\ DOMAIN table' = Keys /\ \A o \in Orders : table'[o] \in MaybeRow
      /\ DOMAIN undo' = Requests
      /\ \A q \in Requests :
           /\ DOMAIN undo'[q] \subseteq Keys
           /\ \A o \in Orders : o \in DOMAIN undo'[q] => undo'[q][o] \in MaybeRow
  BY DEF IInv, Types
<1>. QED  BY <1>1, <1>2, <1>3, <1>4, StepKeeps

\* The end of a transaction, which commits its drafts or takes them back.
LEMMA ReleaseKeeps ==
  ASSUME IInv, NEW r \in Requests, pc[r] = "tx", Release(r), used' \subseteq Files,
         table' \in {table, RolledBack(r)}
  PROVE  IInv'
<1>1. /\ pc' = [pc EXCEPT ![r] = "idle"] /\ undo' = [undo EXCEPT ![r] = <<>>]
      /\ todo' = [todo EXCEPT ![r] = <<>>] /\ UNCHANGED <<user, num, view, sent>>
  BY DEF Release, clients
<1>2. DOMAIN undo = Requests /\ Orders \subseteq Keys /\ DOMAIN table = Keys
  BY DEF IInv, Types, Keys
<1>3. /\ pc'[r] = "idle" /\ \A q \in Requests : q # r => pc'[q] = pc[q]
      /\ DOMAIN undo'[r] = {} /\ \A q \in Requests : q # r => undo'[q] = undo[q]
      /\ Len(todo'[r]) = 0 /\ \A q \in Requests : q # r => todo'[q] = todo[q]
      /\ pc' \in [Requests -> {"idle", "begin", "tx", "panicked"}] /\ todo' \in [Requests -> Seq(AnyStep)]
      /\ DOMAIN undo' = Requests
  BY <1>1, <1>2 DEF IInv, Types
<1>4. /\ DOMAIN table' = Keys
      /\ \A k \in Keys : \/ table'[k] = table[k]
                         \/ k \in DOMAIN undo[r] /\ table'[k] = undo[r][k]
  BY <1>2 DEF RolledBack
<1>5. \A o \in Orders : table'[o] \in MaybeRow
  BY <1>2, <1>4 DEF IInv, Types
<1>6. Types'
  <2>1. \A q \in Requests :
          /\ DOMAIN undo'[q] \subseteq Keys
          /\ \A o \in Orders : o \in DOMAIN undo'[q] => undo'[q][o] \in MaybeRow
    BY <1>3 DEF IInv, Types
  <2>2. \A q \in Requests : \A j \in 1 .. Len(todo'[q]) : NamesItself(todo'[q][j])
    <3>1. \A j \in 1 .. Len(todo'[r]) : NamesItself(todo'[r][j])
      BY <1>3
    <3>2. ASSUME NEW q \in Requests, q # r
          PROVE  \A j \in 1 .. Len(todo'[q]) : NamesItself(todo'[q][j])
      BY <1>3, <3>2 DEF IInv, Types
    <3>. QED  BY <3>1, <3>2
  <2>. QED  BY <1>1, <1>3, <1>4, <1>5, <2>1, <2>2 DEF IInv, Types
<1>7. LocksApart' /\ LocksHeld' /\ Numbered'
  BY <1>1, <1>3 DEF IInv, LocksApart, LocksHeld, Numbered
<1>8. DraftsFit'
  <2>1. ASSUME NEW q \in Requests, NEW o \in Orders, o \in DOMAIN undo'[q]
        PROVE  Draft(num'[q], undo'[q][o], table'[o])
    <3>1. q # r /\ o \in DOMAIN undo[q] /\ undo'[q][o] = undo[q][o]
      BY <1>3, <2>1
    <3>2. o \notin DOMAIN undo[r]
      BY <1>2, <3>1 DEF IInv, LocksApart
    <3>3. table'[o] = table[o]
      BY <1>2, <1>4, <3>2
    <3>. QED  BY <1>1, <3>1, <3>3 DEF IInv, DraftsFit
  <2>. QED  BY <2>1 DEF DraftsFit
<1>9. \A o \in Orders : Committed(o) \in MaybeRow /\ Draft(num[r], Committed(o), Committed(o)')
                          /\ Committed(o)' \in MaybeRow
  <2>. SUFFICES ASSUME NEW o \in Orders
                PROVE  Committed(o) \in MaybeRow /\ Draft(num[r], Committed(o), Committed(o)')
                         /\ Committed(o)' \in MaybeRow
    OBVIOUS
  <2>0. Committed(o) \in MaybeRow /\ \A c : Draft(num[r], c, c)
    BY DEF IInv, CommittedOld, Draft
  <2>1. /\ \A q \in Requests : o \in DOMAIN undo[q] => Committed(o) = undo[q][o]
        /\ (\A q \in Requests : o \notin DOMAIN undo[q]) => Committed(o) = table[o]
    BY <1>2, CommittedIs, CommittedSame DEF IInv, LocksApart
  <2>2. /\ \A q \in Requests : o \in DOMAIN undo'[q] => Committed(o)' = undo'[q][o]
        /\ (\A q \in Requests : o \notin DOMAIN undo'[q]) => Committed(o)' = table'[o]
    BY <1>2, <1>7, CommittedIs, CommittedSameNext DEF LocksApart
  <2>3. CASE o \in DOMAIN undo[r]
    <3>1. \A q \in Requests : o \notin DOMAIN undo'[q]
      BY <1>2, <1>3, <2>3 DEF IInv, LocksApart
    <3>2. Committed(o)' = table'[o] /\ Committed(o) = undo[r][o]
      BY <2>1, <2>2, <2>3, <3>1
    <3>3. Draft(num[r], undo[r][o], table[o])
      BY <2>3 DEF IInv, DraftsFit
    <3>4. table'[o] = table[o] \/ table'[o] = undo[r][o]
      BY <1>2, <1>4
    <3>. QED  BY <1>5, <2>0, <3>2, <3>3, <3>4
  <2>4. CASE o \notin DOMAIN undo[r]
    <3>1. table'[o] = table[o]
      BY <1>2, <1>4, <2>4
    <3>2. CASE \E q \in Requests : o \in DOMAIN undo[q]
      <4>1. PICK q \in Requests : o \in DOMAIN undo[q]
        BY <3>2
      <4>2. undo'[q] = undo[q]
        BY <1>3, <2>4, <4>1
      <4>3. Committed(o) = undo[q][o] /\ Committed(o)' = undo[q][o]
        BY <2>1, <2>2, <4>1, <4>2
      <4>. QED  BY <2>0, <4>3
    <3>3. CASE \A q \in Requests : o \notin DOMAIN undo[q]
      <4>1. \A q \in Requests : o \notin DOMAIN undo'[q]
        BY <1>3, <3>3
      <4>2. Committed(o) = table[o] /\ Committed(o)' = table'[o]
        BY <2>1, <2>2, <3>3, <4>1
      <4>. QED  BY <2>0, <3>1, <4>2
    <3>. QED  BY <3>2, <3>3
  <2>. QED  BY <2>3, <2>4
<1>10. sent \in Nat /\ \A q \in Requests : num[q] \in Nat
  BY DEF IInv, Types
<1>11. \A o \in Orders : \A x : Fits(pc, num, sent, x, Committed(o))
                                  => Fits(pc', num', sent', x, Committed(o)')
  <2>. SUFFICES ASSUME NEW o \in Orders, NEW x, Fits(pc, num, sent, x, Committed(o))
                PROVE  Fits(pc', num', sent', x, Committed(o)')
    OBVIOUS
  <2>1. Fits(pc, num, sent, x, Committed(o)')
    BY <1>9, DraftFits
  <2>2. \A q \in Requests : pc'[q] # "idle" => pc[q] # "idle" /\ num'[q] = num[q]
    BY <1>1, <1>3
  <2>3. sent \in Nat /\ sent' \in Nat /\ sent <= sent' /\ \A q \in Requests : num'[q] \in Nat
    BY <1>1, <1>10
  <2>. DEFINE c == Committed(o)'
  <2>4. Fits(pc, num, sent, x, c)
    BY <2>1
  <2>. HIDE DEF c
  <2>5. Fits(pc', num', sent', x, c)
    BY <2>2, <2>3, <2>4, FitsKept
  <2>. QED  BY <2>5 DEF c
<1>12. \A o \in Orders : Committed(o)' \in OrderRow => Old(pc', num', sent', Committed(o)')
  <2>. SUFFICES ASSUME NEW o \in Orders, Committed(o)' \in OrderRow
                PROVE  Old(pc', num', sent', Committed(o)')
    OBVIOUS
  <2>. DEFINE t == Committed(o)'  c == Committed(o)
  <2>1. Draft(num[r], c, t) /\ t \in OrderRow /\ c \in MaybeRow
    BY <1>9
  <2>2. c \in OrderRow => Old(pc, num, sent, c)
    BY DEF IInv, CommittedOld
  <2>. HIDE DEF t, c
  <2>3. \A q \in Requests : pc'[q] # "idle" => pc[q] # "idle" /\ num[q] # num[r] /\ q # r
    BY <1>3 DEF IInv, Numbered
  <2>4. num[r] <= sent
    BY <1>10 DEF IInv, Numbered
  <2>5. Absent \notin OrderRow
    BY DataStoreAssumption
  <2>6. t.born <= sent /\ t.stamp <= sent
    BY <2>1, <2>2, <2>4, <2>5 DEF Draft, Old
  <2>7. \A q \in Requests : pc'[q] # "idle" => t.born # num[q] /\ t.stamp # num[q]
    BY <2>1, <2>2, <2>3, <2>5 DEF Draft, Old
  <2>8. Old(pc', num', sent', t)
    BY <1>1, <2>6, <2>7 DEF Old
  <2>. QED  BY <2>8 DEF t
<1>13. \A q \in Requests : \A j \in 1 .. Len(todo'[q]) :
         j \in 1 .. Len(todo[q]) /\ todo'[q][j] = todo[q][j]
  <2>1. 1 .. Len(todo'[r]) = {}
    BY <1>3
  <2>2. ASSUME NEW q \in Requests, q # r PROVE todo'[q] = todo[q]
    BY <1>3, <2>2
  <2>. QED  BY <2>1, <2>2
<1>14. CommittedOld' /\ ViewsFit' /\
         \A q \in Requests : \A j \in 1 .. Len(todo'[q]) : \A o \in Orders :
           Fits(pc', num', sent', Basis(todo'[q][j], o), Committed(o)')
  BY <1>1, <1>9, <1>11, <1>12, <1>13, FitsStep
<1>15. \A q \in Requests : \A j \in 1 .. Len(todo'[q]) : Own(user'[q], todo'[q][j])
  BY <1>1, <1>13 DEF IInv, StepsFit
<1>. QED  BY <1>6, <1>7, <1>8, <1>14, <1>15 DEF IInv, StepsFit

LEMMA AbortKeeps ==
  ASSUME IInv, NEW r \in Requests, pc[r] = "tx", Abort(r)
  PROVE  IInv'
<1>1. Release(r) /\ table' = RolledBack(r) /\ used' = used
  BY DEF Abort, Release
<1>. QED  BY <1>1, ReleaseKeeps DEF IInv, Types

-----------------------------------------------------------------------------
(* The steps requests are made of.                                           *)

LEMMA ConcatElements ==
  ASSUME NEW a \in Seq(AnyStep), NEW b \in Seq(AnyStep)
  PROVE  /\ a \o b \in Seq(AnyStep)
         /\ \A i \in 1 .. Len(a \o b) : \/ \E j \in 1 .. Len(a) : (a \o b)[i] = a[j]
                                      \/ \E j \in 1 .. Len(b) : (a \o b)[i] = b[j]
<1>1. a \o b \in Seq(AnyStep) /\ Len(a \o b) = Len(a) + Len(b)
      /\ Len(a) \in Nat /\ Len(b) \in Nat
  BY ConcatProperties, LenProperties
<1>2. \A i \in 1 .. Len(a \o b) :
        (a \o b)[i] = IF i <= Len(a) THEN a[i] ELSE b[i - Len(a)]
  BY <1>1, ConcatProperties
<1>. DEFINE m == Len(a)  n == Len(b)  ab == a \o b
<1>. HIDE DEF m, n, ab
<1>3. m \in Nat /\ n \in Nat /\ \A i \in 1 .. m + n :
        IF i <= m THEN i \in 1 .. m /\ ab[i] = a[i] ELSE i - m \in 1 .. n /\ ab[i] = b[i - m]
  BY <1>1, <1>2 DEF m, n, ab
<1>4. \A i \in 1 .. m + n : (\E j \in 1 .. m : ab[i] = a[j]) \/ (\E j \in 1 .. n : ab[i] = b[j])
  BY <1>3
<1>. QED  BY <1>1, <1>4 DEF m, n, ab

LEMMA ConcatSteps ==
  ASSUME NEW u, NEW a, NEW b, StepsOf(u, a), StepsOf(u, b)
  PROVE  StepsOf(u, a \o b)
<1>1. a \in Seq(AnyStep) /\ b \in Seq(AnyStep)
  BY DEF StepsOf
<1>2. /\ a \o b \in Seq(AnyStep)
      /\ \A i \in 1 .. Len(a \o b) : \/ \E j \in 1 .. Len(a) : (a \o b)[i] = a[j]
                                   \/ \E j \in 1 .. Len(b) : (a \o b)[i] = b[j]
  BY <1>1, ConcatElements
<1>3. Informed(a \o b)
  BY <1>2 DEF StepsOf, Informed
<1>. QED  BY <1>2, <1>3 DEF StepsOf

\* Most steps know no rows.
LEMMA PlainSteps ==
  ASSUME NEW u, NEW steps \in Seq(AnyStep),
         \A i \in 1 .. Len(steps) :
           steps[i].op \notin {"create", "update", "delete", "deleteIds"}
  PROVE  StepsOf(u, steps)
BY DEF StepsOf, Informed, Basis, NamesItself, Own

LEMMA OneStep ==
  ASSUME NEW u, NEW s \in AnyStep, NamesItself(s), Own(u, s), Informed(<<s>>)
  PROVE  StepsOf(u, <<s>>)
<1>1. <<s>> \in Seq(AnyStep) /\ Len(<<s>>) = 1 /\ <<s>>[1] = s
  OBVIOUS
<1>. QED  BY <1>1 DEF StepsOf

LEMMA PlainIs ==
  ASSUME NEW op \in {"query", "childQuery", "fail"} \cup Bad, NEW v
  PROVE  Plain(op) \in AnyStep /\ Plain(op).op = op /\ StepsOf(v, <<Plain(op)>>)
<1>. DEFINE s == Plain(op)
<1>1. s \in AnyStep /\ s.op = op
  BY DEF AnyStep, Plain, Bad
<1>. HIDE DEF s
<1>2. <<s>> \in Seq(AnyStep) /\ \A i \in 1 .. Len(<<s>>) : <<s>>[i] = s
  BY <1>1
<1>3. s.op \notin {"create", "update", "delete", "deleteIds"}
  BY <1>1 DEF Bad
<1>4. StepsOf(v, <<s>>)
  BY <1>1, <1>2, <1>3, PlainSteps
<1>. QED  BY <1>1, <1>4 DEF s

LEMMA FailStepIs == \A steps \in {<<>>, <<Plain("fail")>>} : steps \in Seq(AnyStep)
<1>. DEFINE s == Plain("fail")
<1>1. s \in AnyStep
  BY PlainIs
<1>. HIDE DEF s
<1>2. <<>> \in Seq(AnyStep) /\ <<s>> \in Seq(AnyStep)
  BY <1>1
<1>. QED  BY <1>2 DEF s

LEMMA FilterStepsAre == \A u, v : StepsOf(v, FilterSteps(u))
<1>1. \A v : StepsOf(v, <<Plain("query")>>)
  BY PlainIs
<1>2. \A v : StepsOf(v, <<>>)
  BY DEF StepsOf, Informed
<1>. QED  BY <1>1, <1>2 DEF FilterSteps

LEMMA ReleatedSteps ==
  ASSUME NEW ids \in SUBSET Orders, NEW u
  PROVE  StepsOf(u, DeleteReleated(ids))
<1>. DEFINE d(c) == [op |-> "drop", class |-> c, ids |-> ids]
            w == [op |-> "sweep", ids |-> ids, scan |-> {}]
<1>1. /\ \A c \in {"tags", "children", "files"} : d(c) \in AnyStep /\ d(c).op = "drop"
      /\ w \in AnyStep /\ w.op = "sweep"
  BY DEF AnyStep
<1>2. DeleteReleated(ids) = <<d("tags"), d("children"), d("files"), w>>
  BY DEF DeleteReleated
<1>. HIDE DEF d, w
<1>3. DeleteReleated(ids) \in Seq(AnyStep)
  BY <1>1, <1>2
<1>4. \A i \in 1 .. Len(DeleteReleated(ids)) :
        DeleteReleated(ids)[i] \in {d("tags"), d("children"), d("files"), w}
  BY <1>2
<1>5. \A i \in 1 .. Len(DeleteReleated(ids)) :
        DeleteReleated(ids)[i].op \notin {"create", "update", "delete", "deleteIds"}
  BY <1>1, <1>4
<1>. QED  BY <1>3, <1>5, PlainSteps

\* What a body is, and a row of a save.
LEMMA BodyIs ==
  ASSUME NEW b \in Bodies
  PROVE  \/ b.op = "save" /\ b.rows \in Seq(RowBody)
         \/ b.op = "update" /\ b.ids \in SUBSET Orders /\ b.owner \in Users
         \/ b.op = "batchDelete" /\ b.ids \in SUBSET Orders
         \/ /\ b.op = "delete" /\ b.ids \in SUBSET Orders
            /\ b.all \in BOOLEAN /\ b.filter \in BOOLEAN
<1>1. b \in [op : {"save"}, rows : Seq(RowBody)]
       \cup [op : {"delete"}, ids : SUBSET Orders, all : BOOLEAN, filter : BOOLEAN]
       \cup [op : {"update"}, ids : SUBSET Orders, owner : Users]
       \cup [op : {"batchDelete"}, ids : SUBSET Orders]
  BY BodiesAssumption
<1>. QED  BY <1>1

LEMMA RowStepIs ==
  ASSUME IInv, NEW u \in Users, NEW b \in Bodies, CanSend(u, b),
         b.op = "save", b.rows \in Seq(RowBody), NEW i \in 1 .. Len(b.rows)
  PROVE  /\ RowStep(u, b.rows[i]) \in AnyStep
         /\ NamesItself(RowStep(u, b.rows[i])) /\ Own(u, RowStep(u, b.rows[i]))
         /\ \A o \in Orders : \/ Basis(RowStep(u, b.rows[i]), o) = NoVersion
                              \/ Basis(RowStep(u, b.rows[i]), o) = view[u][o]
<1>. DEFINE row == b.rows[i]  s == RowStep(u, row)
<1>1. row \in RowBody
  OBVIOUS
<1>2. row.checked => view[u][row.id] # Absent
  BY DEF CanSend
<1>. HIDE DEF row
<1>3. CASE row.type = "badRow"
  <2>1. s = Plain("badRow")
    BY <1>3 DEF RowStep
  <2>. HIDE DEF s
  <2>2. s \in AnyStep /\ s.op = "badRow"
    BY <2>1, PlainIs DEF Bad
  <2>3. NamesItself(s) /\ Own(u, s) /\ \A o \in Orders : Basis(s, o) = NoVersion
    BY <2>2 DEF NamesItself, Own, Basis
  <2>. QED  BY <2>2, <2>3 DEF s, row
<1>4. CASE row.type # "badRow"
  <2>1. view[u][row.id] \in MaybeRow
    BY <1>1 DEF RowBody, IInv, Types
  <2>2. s.basis \in OrderRow \cup {NoVersion}
    BY <1>2, <1>4, <2>1 DEF RowStep, MaybeRow
  <2>3. /\ s.op \in {"create", "update", "delete"} /\ s.scan = {s.id} /\ s.id \in Orders
        /\ s.owner \in Users /\ s.rel \in SUBSET Related /\ s.seen \in SUBSET Files
        /\ s.basis \in {NoVersion, view[u][s.id]}
        /\ s = [op |-> s.op, scan |-> s.scan, id |-> s.id, owner |-> s.owner,
                rel |-> s.rel, basis |-> s.basis, seen |-> s.seen]
    BY <1>1, <1>4 DEF RowStep, RowBody
  <2>. HIDE DEF s
  <2>4. s \in AnyStep
    BY <2>2, <2>3 DEF AnyStep
  <2>5. NamesItself(s) /\ Own(u, s)
    BY <2>3 DEF NamesItself, Own
  <2>6. \A o \in Orders : Basis(s, o) = NoVersion \/ Basis(s, o) = view[u][o]
    BY <2>3 DEF Basis
  <2>. QED  BY <2>4, <2>5, <2>6 DEF s, row
<1>. QED  BY <1>3, <1>4

\* What a request is made of when it is sent.
LEMMA SentSteps ==
  ASSUME IInv, NEW u \in Users, NEW b \in Bodies, CanSend(u, b)
  PROVE  StepsOf(u, Steps(u, b))
<1>1. CASE b.op = "save" /\ b.rows \in Seq(RowBody)
  <2>. DEFINE rows == [i \in 1 .. Len(b.rows) |-> RowStep(u, b.rows[i])]
  <2>1. ASSUME NEW i \in 1 .. Len(b.rows)
        PROVE  /\ RowStep(u, b.rows[i]) \in AnyStep
               /\ NamesItself(RowStep(u, b.rows[i])) /\ Own(u, RowStep(u, b.rows[i]))
               /\ \A o \in Orders : \/ Basis(RowStep(u, b.rows[i]), o) = NoVersion
                                    \/ Basis(RowStep(u, b.rows[i]), o) = view[u][o]
    BY <1>1, <2>1, RowStepIs
  <2>2. rows \in Seq(AnyStep) /\ Len(rows) = Len(b.rows)
        /\ \A i \in 1 .. Len(b.rows) : rows[i] = RowStep(u, b.rows[i])
    <3>1. Len(b.rows) \in Nat
      BY <1>1
    <3>. QED  BY <2>1, <3>1
  <2>. HIDE DEF rows
  <2>3. StepsOf(u, rows)
    BY <2>1, <2>2 DEF StepsOf, Informed
  <2>4. Steps(u, b) = FilterSteps(u) \o rows
    BY <1>1 DEF Steps, rows
  <2>. QED  BY <2>3, <2>4, FilterStepsAre, ConcatSteps
<1>2. CASE b.op = "update" /\ b.ids \in SUBSET Orders /\ b.owner \in Users
  <2>. DEFINE s == [op |-> "updateWhere", scan |-> b.ids, owner |-> b.owner]
  <2>1. s \in AnyStep /\ s.op = "updateWhere"
    BY <1>2 DEF AnyStep
  <2>2. Steps(u, b) = FilterSteps(u) \o <<s>>
    BY <1>2 DEF Steps
  <2>. HIDE DEF s
  <2>3. <<s>> \in Seq(AnyStep) /\ \A i \in 1 .. Len(<<s>>) : <<s>>[i] = s
    BY <2>1
  <2>. QED  BY <2>1, <2>2, <2>3, FilterStepsAre, PlainSteps, ConcatSteps
<1>3. CASE b.op = "batchDelete" /\ b.ids \in SUBSET Orders
  <2>. DEFINE s == [op |-> "deleteWhere", scan |-> b.ids]
  <2>1. s \in AnyStep /\ s.op = "deleteWhere"
    BY <1>3 DEF AnyStep
  <2>2. Steps(u, b) = FilterSteps(u) \o <<s>>
    BY <1>3 DEF Steps
  <2>. HIDE DEF s
  <2>3. <<s>> \in Seq(AnyStep) /\ \A i \in 1 .. Len(<<s>>) : <<s>>[i] = s
    BY <2>1
  <2>. QED  BY <2>1, <2>2, <2>3, FilterStepsAre, PlainSteps, ConcatSteps
<1>4. CASE /\ b.op = "delete" /\ b.ids \in SUBSET Orders /\ (u \in Filtered \/ b.all)
           /\ ~(u \in Filtered /\ b.all /\ ~b.filter)
  <2>. DEFINE s == [op |-> "select", scan |-> {}, ids |-> Asked(b)]
  <2>1. s \in AnyStep /\ s.op = "select"
    BY <1>4 DEF AnyStep, Asked
  <2>2. Steps(u, b) = FilterSteps(u) \o <<s>>
    BY <1>4 DEF Steps
  <2>. HIDE DEF s
  <2>3. <<s>> \in Seq(AnyStep) /\ \A i \in 1 .. Len(<<s>>) : <<s>>[i] = s
    BY <2>1
  <2>. QED  BY <2>1, <2>2, <2>3, FilterStepsAre, PlainSteps, ConcatSteps
<1>6. CASE b.op = "delete" /\ u \in Filtered /\ b.all /\ ~b.filter
  <2>1. Steps(u, b) = FilterSteps(u) \o <<Plain("badFilter")>>
    BY <1>6 DEF Steps
  <2>2. StepsOf(u, <<Plain("badFilter")>>)
    BY PlainIs DEF Bad
  <2>. QED  BY <2>1, <2>2, FilterStepsAre, ConcatSteps
<1>5. CASE b.op = "delete" /\ b.ids \in SUBSET Orders /\ ~(u \in Filtered \/ b.all)
  <2>. DEFINE s == DeleteStep(b.ids, [o \in Orders |-> NoVersion])
  <2>1. s \in AnyStep /\ s.op = "deleteIds" /\ s.basis = [o \in Orders |-> NoVersion]
    BY <1>5 DEF AnyStep, DeleteStep
  <2>2. Steps(u, b) = <<s>>
    BY <1>5 DEF Steps
  <2>. HIDE DEF s
  <2>3. <<s>> \in Seq(AnyStep) /\ \A i \in 1 .. Len(<<s>>) : <<s>>[i] = s
    BY <2>1
  <2>4. \A o \in Orders : Basis(s, o) = NoVersion
    BY <2>1 DEF Basis
  <2>5. NamesItself(s) /\ Own(u, s) /\ Informed(<<s>>)
    BY <1>5, <2>1, <2>3, <2>4 DEF NamesItself, Own, Informed
  <2>. QED  BY <2>1, <2>2, <2>5, OneStep
<1>. QED  BY <1>1, <1>2, <1>3, <1>4, <1>5, <1>6, BodyIs

-----------------------------------------------------------------------------
(* The actions.                                                              *)

LEMMA InitIInv == Init => IInv
<1>. SUFFICES ASSUME Init PROVE IInv
  OBVIOUS
<1>. USE DataStoreAssumption
<1>1. /\ table = Start /\ sent = 0 /\ Orders \subseteq Keys
      /\ DOMAIN undo = Requests /\ \A r \in Requests : DOMAIN undo[r] = {}
      /\ todo \in [Requests -> Seq(AnyStep)] /\ \A r \in Requests : Len(todo[r]) = 0
      /\ pc \in [Requests -> {"idle"}] /\ num \in [Requests -> {0}]
      /\ user \in [Requests -> Users] /\ used \subseteq Files
      /\ DOMAIN view = Users /\ \A u \in Users, o \in Orders : view[u][o] = Absent
  BY DEF Init, Keys
<1>2. DOMAIN table = Keys /\ \A o \in Orders : table[o] \in MaybeRow
  BY <1>1 DEF IsTable, MaybeRow
<1>3. Types
  BY <1>1, <1>2 DEF Types, MaybeRow
<1>4. \A o \in Orders : Committed(o) = table[o]
  BY <1>1 DEF Committed
<1>5. CommittedOld
  BY <1>1, <1>2, <1>4 DEF CommittedOld, Old, MaybeRow
<1>6. LocksApart /\ LocksHeld /\ Numbered /\ DraftsFit
  BY <1>1 DEF LocksApart, LocksHeld, Numbered, DraftsFit
<1>7. ViewsFit
  BY <1>1 DEF ViewsFit, Fits
<1>8. StepsFit
  BY <1>1 DEF StepsFit
<1>. QED  BY <1>3, <1>5, <1>6, <1>7, <1>8 DEF IInv

LEMMA QueryStep ==
  ASSUME IInv, NEW u \in Users, Query(u)
  PROVE  IInv'
<1>1. UNCHANGED <<table, undo, pc, user, num, todo, used, sent>>
  BY DEF Query
<1>2. /\ DOMAIN view' = Users
      /\ \A o \in Orders : view'[u][o] = Committed(o)
      /\ \A v \in Users \ {u} : view'[v] = view[v]
  BY DEF Query, IInv, Types
<1>3. Types'
  BY <1>1, <1>2 DEF IInv, Types, CommittedOld
<1>4. \A o \in Orders : Committed(o)' = Committed(o)
  BY <1>1 DEF Committed
<1>5. sent <= sent'
  BY <1>1 DEF IInv, Types
<1>6. \A r \in Requests : pc'[r] # "idle" => pc[r] # "idle" /\ num'[r] = num[r]
  BY <1>1
<1>7. \A v \in Users, o \in Orders : view'[v][o] = view[v][o] \/ view'[v][o] = Committed(o)
  BY <1>2
<1>8. CommittedOld' /\ ViewsFit' /\
        \A q \in Requests : \A i \in 1 .. Len(todo'[q]) : \A o \in Orders :
          Fits(pc', num', sent', Basis(todo'[q][i], o), Committed(o)')
  <2>1. \A o \in Orders :
           /\ Committed(o)' \in MaybeRow
           /\ Committed(o)' \in OrderRow => Old(pc', num', sent', Committed(o)')
           /\ \A x : Fits(pc, num, sent, x, Committed(o))
                       => Fits(pc', num', sent', x, Committed(o)')
    BY <1>3, <1>4, <1>5, <1>6, FitsUncommitted
  <2>2. \A r \in Requests : \A i \in 1 .. Len(todo'[r]) :
          \E j \in 1 .. Len(todo[r]) : todo'[r][i] = todo[r][j]
    BY <1>1
  <2>. QED  BY <1>7, <2>1, <2>2, FitsStep
<1>9. LocksApart' /\ LocksHeld' /\ Numbered' /\ DraftsFit'
  BY <1>1 DEF IInv, LocksApart, LocksHeld, Numbered, DraftsFit
<1>10. \A q \in Requests : \A i \in 1 .. Len(todo'[q]) : Own(user'[q], todo'[q][i])
  BY <1>1 DEF IInv, StepsFit
<1>. QED  BY <1>3, <1>8, <1>9, <1>10 DEF IInv, StepsFit

LEMMA SendStep ==
  ASSUME IInv, NEW r \in Requests, NEW u \in Users, NEW b \in Bodies, Send(r, u, b)
  PROVE  IInv'
<1>. DEFINE steps == Steps(u, b)
<1>1. StepsOf(u, steps)
  BY SentSteps DEF Send
<1>2. UNCHANGED <<table, undo, used, view>> /\ sent' = sent + 1 /\ pc[r] = "idle"
  BY DEF Send
<1>3. /\ todo' = [todo EXCEPT ![r] = steps] /\ user' = [user EXCEPT ![r] = u]
      /\ num' = [num EXCEPT ![r] = sent + 1] /\ pc' = [pc EXCEPT ![r] = "begin"]
  BY DEF Send
<1>. HIDE DEF steps
<1>4. /\ todo'[r] = steps /\ \A q \in Requests : q # r => todo'[q] = todo[q]
      /\ user'[r] = u /\ \A q \in Requests : q # r => user'[q] = user[q]
      /\ num'[r] = sent + 1 /\ \A q \in Requests : q # r => num'[q] = num[q]
      /\ pc'[r] = "begin" /\ \A q \in Requests : q # r => pc'[q] = pc[q]
  BY <1>3 DEF IInv, Types
<1>5. sent \in Nat /\ \A q \in Requests : num[q] \in Nat
  BY DEF IInv, Types
<1>6. Types'
  <2>1. \A q \in Requests : \A j \in 1 .. Len(todo'[q]) : NamesItself(todo'[q][j])
    <3>1. \A j \in 1 .. Len(todo'[r]) : NamesItself(todo'[r][j])
      BY <1>1, <1>4 DEF StepsOf
    <3>2. ASSUME NEW q \in Requests, q # r
          PROVE  \A j \in 1 .. Len(todo'[q]) : NamesItself(todo'[q][j])
      BY <1>4, <3>2 DEF IInv, Types
    <3>. QED  BY <3>1, <3>2
  <2>2. todo' \in [Requests -> Seq(AnyStep)]
    BY <1>1, <1>3 DEF IInv, Types, StepsOf
  <2>3. /\ user' \in [Requests -> Users] /\ num' \in [Requests -> Nat] /\ sent' \in Nat
        /\ pc' \in [Requests -> {"idle", "begin", "tx", "panicked"}]
    BY <1>2, <1>3, <1>5 DEF IInv, Types
  <2>. QED  BY <1>2, <2>1, <2>2, <2>3 DEF IInv, Types
<1>7. Numbered'
  <2>1. ASSUME NEW q \in Requests, pc'[q] # "idle"
        PROVE  num'[q] \in 1 .. sent' /\ (q # r => num'[q] <= sent)
    BY <1>2, <1>4, <1>5, <2>1 DEF IInv, Numbered
  <2>2. ASSUME NEW q \in Requests, NEW p \in Requests, pc'[q] # "idle", pc'[p] # "idle",
               num'[p] = num'[q]
        PROVE  p = q
    BY <1>2, <1>4, <1>5, <2>1, <2>2 DEF IInv, Numbered
  <2>. QED  BY <2>1, <2>2 DEF Numbered
<1>8. LocksApart' /\ LocksHeld'
  BY <1>2, <1>4 DEF IInv, LocksApart, LocksHeld
<1>9. DraftsFit'
  <2>1. DOMAIN undo[r] = {}
    BY <1>2 DEF IInv, LocksHeld
  <2>. QED  BY <1>2, <1>4, <2>1 DEF IInv, DraftsFit
<1>10. \A o \in Orders : Committed(o)' = Committed(o)
  BY <1>2 DEF Committed
<1>11. \A q \in Requests : \A i \in 1 .. Len(todo'[q]) :
         \/ \E j \in 1 .. Len(todo[q]) : todo'[q][i] = todo[q][j]
         \/ \A o \in Orders : \/ Basis(todo'[q][i], o) = NoVersion
                              \/ Basis(todo'[q][i], o) = Committed(o)
                              \/ \E v \in Users : Basis(todo'[q][i], o) = view[v][o]
  <2>1. \A i \in 1 .. Len(todo'[r]) : \A o \in Orders :
          \/ Basis(todo'[r][i], o) = NoVersion
          \/ Basis(todo'[r][i], o) = Committed(o)
          \/ \E v \in Users : Basis(todo'[r][i], o) = view[v][o]
    BY <1>1, <1>4 DEF StepsOf, Informed
  <2>2. ASSUME NEW q \in Requests, q # r, NEW i \in 1 .. Len(todo'[q])
        PROVE  \E j \in 1 .. Len(todo[q]) : todo'[q][i] = todo[q][j]
    BY <1>4, <2>2
  <2>. QED  BY <2>1, <2>2
<1>12. CommittedOld' /\ ViewsFit' /\
        \A q \in Requests : \A i \in 1 .. Len(todo'[q]) : \A o \in Orders :
          Fits(pc', num', sent', Basis(todo'[q][i], o), Committed(o)')
  <2>1. \A q \in Requests : pc'[q] # "idle" =>
          (pc[q] # "idle" /\ num'[q] = num[q]) \/ num'[q] > sent
    BY <1>4, <1>5
  <2>2. sent <= sent'
    BY <1>2, <1>5
  <2>3. \A o \in Orders :
           /\ Committed(o)' \in MaybeRow
           /\ Committed(o)' \in OrderRow => Old(pc', num', sent', Committed(o)')
           /\ \A x : Fits(pc, num, sent, x, Committed(o))
                       => Fits(pc', num', sent', x, Committed(o)')
    BY <1>6, <1>10, <2>1, <2>2, FitsUncommitted
  <2>. QED  BY <1>2, <1>11, <2>3, FitsStep
<1>13. \A q \in Requests : \A i \in 1 .. Len(todo'[q]) : Own(user'[q], todo'[q][i])
  <2>1. \A i \in 1 .. Len(todo'[r]) : Own(user'[r], todo'[r][i])
    BY <1>1, <1>4 DEF StepsOf
  <2>2. ASSUME NEW q \in Requests, q # r
        PROVE  \A i \in 1 .. Len(todo'[q]) : Own(user'[q], todo'[q][i])
    BY <1>4, <2>2 DEF IInv, StepsFit
  <2>. QED  BY <2>1, <2>2
<1>. QED  BY <1>6, <1>7, <1>8, <1>9, <1>12, <1>13 DEF IInv, StepsFit

LEMMA BeginStep ==
  ASSUME IInv, NEW r \in Requests, Begin(r)
  PROVE  IInv'
<1>1. UNCHANGED <<table, undo, todo, used, user, num, view, sent>> /\ pc[r] = "begin"
      /\ pc' = [pc EXCEPT ![r] = "tx"]
  BY DEF Begin, clients
<1>2. pc'[r] = "tx" /\ \A q \in Requests : q # r => pc'[q] = pc[q]
  BY <1>1 DEF IInv, Types
<1>3. \A q \in Requests : pc'[q] # "idle" => pc[q] # "idle" /\ num'[q] = num[q]
  BY <1>1, <1>2
<1>4. Types'
  BY <1>1 DEF IInv, Types
<1>5. LocksApart' /\ LocksHeld' /\ DraftsFit'
  BY <1>1, <1>2 DEF IInv, LocksApart, LocksHeld, DraftsFit
<1>6. Numbered'
  BY <1>1, <1>2 DEF IInv, Numbered
<1>7. \A o \in Orders : Committed(o)' = Committed(o)
  BY <1>1 DEF Committed
<1>8. sent <= sent'
  BY <1>1 DEF IInv, Types
<1>9. CommittedOld' /\ ViewsFit' /\
        \A q \in Requests : \A i \in 1 .. Len(todo'[q]) : \A o \in Orders :
          Fits(pc', num', sent', Basis(todo'[q][i], o), Committed(o)')
  <2>1. \A o \in Orders :
           /\ Committed(o)' \in MaybeRow
           /\ Committed(o)' \in OrderRow => Old(pc', num', sent', Committed(o)')
           /\ \A x : Fits(pc, num, sent, x, Committed(o))
                       => Fits(pc', num', sent', x, Committed(o)')
    BY <1>3, <1>4, <1>7, <1>8, FitsUncommitted
  <2>2. \A q \in Requests : \A i \in 1 .. Len(todo'[q]) :
          \E j \in 1 .. Len(todo[q]) : todo'[q][i] = todo[q][j]
    BY <1>1
  <2>. QED  BY <1>1, <2>1, <2>2, FitsStep
<1>10. \A q \in Requests : \A i \in 1 .. Len(todo'[q]) : Own(user'[q], todo'[q][i])
  BY <1>1 DEF IInv, StepsFit
<1>. QED  BY <1>4, <1>5, <1>6, <1>9, <1>10 DEF IInv, StepsFit

\* A handler that panics keeps its number, its locks and its steps.
LEMMA PanicStep ==
  ASSUME IInv, NEW r \in Requests, Panic(r)
  PROVE  IInv'
<1>1. UNCHANGED <<table, undo, todo, used, user, num, view, sent>> /\ pc[r] = "tx"
      /\ pc' = [pc EXCEPT ![r] = "panicked"]
  BY DEF Panic, Running, clients
<1>2. pc'[r] = "panicked" /\ \A q \in Requests : q # r => pc'[q] = pc[q]
  BY <1>1 DEF IInv, Types
<1>3. \A q \in Requests : pc'[q] # "idle" => pc[q] # "idle" /\ num'[q] = num[q]
  BY <1>1, <1>2
<1>4. Types'
  BY <1>1 DEF IInv, Types
<1>5. LocksApart' /\ LocksHeld' /\ DraftsFit'
  BY <1>1, <1>2 DEF IInv, LocksApart, LocksHeld, DraftsFit
<1>6. Numbered'
  BY <1>1, <1>2 DEF IInv, Numbered
<1>7. \A o \in Orders : Committed(o)' = Committed(o)
  BY <1>1 DEF Committed
<1>8. sent <= sent'
  BY <1>1 DEF IInv, Types
<1>9. CommittedOld' /\ ViewsFit' /\
        \A q \in Requests : \A i \in 1 .. Len(todo'[q]) : \A o \in Orders :
          Fits(pc', num', sent', Basis(todo'[q][i], o), Committed(o)')
  <2>1. \A o \in Orders :
           /\ Committed(o)' \in MaybeRow
           /\ Committed(o)' \in OrderRow => Old(pc', num', sent', Committed(o)')
           /\ \A x : Fits(pc, num, sent, x, Committed(o))
                       => Fits(pc', num', sent', x, Committed(o)')
    BY <1>3, <1>4, <1>7, <1>8, FitsUncommitted
  <2>2. \A q \in Requests : \A i \in 1 .. Len(todo'[q]) :
          \E j \in 1 .. Len(todo[q]) : todo'[q][i] = todo[q][j]
    BY <1>1
  <2>. QED  BY <1>1, <2>1, <2>2, FitsStep
<1>10. \A q \in Requests : \A i \in 1 .. Len(todo'[q]) : Own(user'[q], todo'[q][i])
  BY <1>1 DEF IInv, StepsFit
<1>. QED  BY <1>4, <1>5, <1>6, <1>9, <1>10 DEF IInv, StepsFit

LEMMA CrashStep ==
  ASSUME IInv, Crash
  PROVE  IInv'
<1>1. /\ table' = [k \in Keys |-> Committed(k)] /\ UNCHANGED <<used, user, num, view, sent>>
      /\ undo' = [r \in Requests |-> <<>>] /\ todo' = [r \in Requests |-> <<>>]
      /\ pc' = [r \in Requests |-> "idle"]
  BY DEF Crash, clients
<1>2. /\ DOMAIN table' = Keys /\ Orders \subseteq Keys /\ \A o \in Orders : table'[o] = Committed(o)
      /\ DOMAIN undo' = Requests /\ \A r \in Requests : DOMAIN undo'[r] = {}
      /\ todo' \in [Requests -> Seq(AnyStep)] /\ \A r \in Requests : Len(todo'[r]) = 0
      /\ pc' \in [Requests -> {"idle"}]
  BY <1>1 DEF Keys
<1>3. \A o \in Orders : Committed(o)' = Committed(o)
  BY <1>2 DEF Committed
<1>4. Types'
  <2>1. \A o \in Orders : table'[o] \in MaybeRow
    BY <1>2 DEF IInv, CommittedOld
  <2>2. \A r \in Requests : \A i \in 1 .. Len(todo'[r]) : NamesItself(todo'[r][i])
    BY <1>2
  <2>3. \A r \in Requests :
          /\ DOMAIN undo'[r] \subseteq Keys
          /\ \A o \in Orders : o \in DOMAIN undo'[r] => undo'[r][o] \in MaybeRow
    BY <1>2
  <2>4. pc' \in [Requests -> {"idle", "begin", "tx", "panicked"}]
    BY <1>2
  <2>. QED  BY <1>1, <1>2, <2>1, <2>2, <2>3, <2>4 DEF IInv, Types
<1>5. LocksApart' /\ LocksHeld' /\ DraftsFit' /\ Numbered'
  BY <1>2 DEF LocksApart, LocksHeld, DraftsFit, Numbered
<1>6. sent <= sent' /\ \A q \in Requests : pc'[q] = "idle"
  BY <1>1, <1>2 DEF IInv, Types
<1>7. CommittedOld' /\ ViewsFit'
  <2>1. \A o \in Orders :
           /\ Committed(o)' \in MaybeRow
           /\ Committed(o)' \in OrderRow => Old(pc', num', sent', Committed(o)')
           /\ \A x : Fits(pc, num, sent, x, Committed(o))
                       => Fits(pc', num', sent', x, Committed(o)')
    BY <1>3, <1>4, <1>6, FitsUncommitted
  <2>2. \A q \in Requests : \A i \in 1 .. Len(todo'[q]) : FALSE
    BY <1>2
  <2>. QED  BY <1>1, <2>1, <2>2, FitsStep
<1>8. StepsFit'
  BY <1>2 DEF StepsFit
<1>. QED  BY <1>4, <1>5, <1>7, <1>8 DEF IInv

-----------------------------------------------------------------------------
(* The steps of a transaction.                                               *)

\* The step at work.
LEMMA StepIs ==
  ASSUME IInv, NEW r \in Requests, todo[r] # <<>>
  PROVE  /\ Step(r) \in AnyStep /\ NamesItself(Step(r)) /\ Own(user[r], Step(r))
         /\ \A o \in Orders : Fits(pc, num, sent, Basis(Step(r), o), Committed(o))
<1>1. todo[r] \in Seq(AnyStep) /\ 1 \in 1 .. Len(todo[r]) /\ Step(r) = todo[r][1]
  BY DEF IInv, Types, Step
<1>2. Step(r) \in AnyStep
  BY <1>1
<1>. QED  BY <1>1, <1>2 DEF IInv, Types, StepsFit

\* What the statements name and what they lock.
LEMMA ScanIs ==
  ASSUME NEW r \in Requests, Step(r) \in AnyStep
  PROVE  /\ Scan(r) \subseteq Keys
         /\ Step(r).op \in {"create", "update", "delete"} =>
              /\ Scan(r) = Step(r).scan /\ Step(r).id \in Orders /\ Step(r).owner \in Users
              /\ Step(r).rel \in SUBSET Related /\ Step(r).seen \in SUBSET Files
         /\ Step(r).op = "update" => Step(r).basis \in OrderRow \cup {NoVersion}
         /\ Step(r).op \in {"insert", "remove", "keep", "drop"} => Scan(r) \cap Orders = {}
         /\ Step(r).op \in {"deleteIds", "updateWhere", "deleteWhere"} =>
              Scan(r) = Step(r).scan /\ Scan(r) \subseteq Orders
         /\ Step(r).op = "updateWhere" => Step(r).owner \in Users
<1>. DEFINE s == Step(r)
<1>1. Scan(r) = IF s.op # "drop" THEN s.scan
                ELSE {k \in Class(s.class) :
                        \/ Belongs(table[k], s.ids)
                        \/ \E q \in Requests \ {r} :
                             k \in DOMAIN undo[q] /\ Belongs(undo[q][k], s.ids)}
  BY DEF Scan
<1>. HIDE DEF s
<1>2. s \in AnyStep
  BY DEF s
<1>3. CASE s.op = "drop"
  <2>1. s.class \in {"tags", "children", "files"}
    BY <1>2, <1>3 DEF AnyStep
  <2>2. Class(s.class) \subseteq Keys /\ Class(s.class) \cap Orders = {}
    BY <2>1, DataStoreAssumption DEF Class, Keys
  <2>. QED  BY <1>1, <1>3, <2>2 DEF s
<1>4. CASE s.op # "drop"
  <2>1. Scan(r) = s.scan
    BY <1>1, <1>4
  <2>2. Orders \subseteq Keys /\ Children \subseteq Keys
    BY DEF Keys
  <2>3. s.scan \subseteq Keys
    BY <1>2, <1>4, <2>2 DEF AnyStep
  <2>4. s.op \in {"create", "update", "delete"} =>
          s.id \in Orders /\ s.owner \in Users /\ s.rel \in SUBSET Related /\ s.seen \in SUBSET Files
    BY <1>2 DEF AnyStep
  <2>5. s.op = "update" => s.basis \in OrderRow \cup {NoVersion}
    BY <1>2 DEF AnyStep
  <2>6. s.op \in {"insert", "remove", "keep"} => s.scan \cap Orders = {}
    BY <1>2, DataStoreAssumption DEF AnyStep
  <2>7. s.op \in {"deleteIds", "updateWhere", "deleteWhere"} => s.scan \subseteq Orders
    BY <1>2 DEF AnyStep
  <2>8. s.op = "updateWhere" => s.owner \in Users
    BY <1>2 DEF AnyStep
  <2>. QED  BY <1>4, <2>1, <2>3, <2>4, <2>5, <2>6, <2>7, <2>8 DEF s
<1>. QED  BY <1>3, <1>4

\* An updated row is a draft of the row it was.
LEMMA UpdatedIs ==
  ASSUME IInv, NEW r \in Requests, NEW row \in OrderRow, NEW owner \in Users
  PROVE  /\ Updated(r, row, owner) \in OrderRow
         /\ Draft(num[r], row, Updated(r, row, owner))
<1>1. num[r] \in Nat
  BY DEF IInv, Types
<1>2. row.version \in Nat /\ row.born \in Nat
  BY DEF OrderRow
<1>3. Updated(r, row, owner) =
        [owner |-> owner, version |-> row.version + 1, born |-> row.born, stamp |-> num[r]]
  BY DEF Updated
<1>4. /\ Updated(r, row, owner) \in OrderRow /\ Updated(r, row, owner).stamp = num[r]
      /\ Updated(r, row, owner).born = row.born
      /\ Updated(r, row, owner).version = row.version + 1
  BY <1>1, <1>2, <1>3 DEF OrderRow
<1>. QED  BY <1>2, <1>4 DEF Draft

LEMMA FieldsIs ==
  ASSUME NEW s, s.id \in Orders, NEW rel \in SUBSET Related, s.seen \in SUBSET Files, NEW u
  PROVE  StepsOf(u, <<Fields(s, rel)>>)
<1>. DEFINE f == Fields(s, rel)
<1>1. f \in AnyStep /\ f.op = "fields"
  BY DEF Fields, AnyStep
<1>. HIDE DEF f
<1>2. <<f>> \in Seq(AnyStep) /\ \A i \in 1 .. Len(<<f>>) : <<f>>[i] = f
  BY <1>1
<1>3. StepsOf(u, <<f>>)
  BY <1>1, <1>2, PlainSteps
<1>. QED  BY <1>3 DEF f

LEMMA CreateRowStep ==
  ASSUME IInv, NEW r \in Requests, CreateRow(r)
  PROVE  IInv'
<1>. DEFINE s == Step(r)
            new == [owner |-> s.owner, version |-> 0, born |-> num[r], stamp |-> num[r]]
            rows == [k \in {s.id} |-> new]
<1>1. pc[r] = "tx" /\ todo[r] # <<>> /\ s.op = "create" /\ ~Blocked(r)
  BY DEF CreateRow, Running
<1>2. s \in AnyStep /\ s.scan = {s.id}
  BY <1>1, StepIs DEF NamesItself
<1>3. CASE table[s.id] # Absent /\ Abort(r)
  BY <1>1, <1>3, AbortKeeps
<1>4. CASE /\ Execute(r, rows) /\ Continue(r, <<Fields(s, s.rel)>>) /\ UNCHANGED used
  <2>1. Scan(r) \subseteq Keys /\ Scan(r) = {s.id} /\ s.owner \in Users
    BY <1>1, <1>2, ScanIs
  <2>2. new \in OrderRow /\ Draft(num[r], table[s.id], new)
    BY <2>1 DEF IInv, Types, OrderRow, Draft
  <2>3. NewSteps(r, <<Fields(s, s.rel)>>)
    BY <1>1, <1>2, ScanIs, FieldsIs DEF NewSteps
  <2>4. \A o \in Orders \cap Scan(r) : rows[o] \in MaybeRow /\ Draft(num[r], table[o], rows[o])
    BY <2>1, <2>2 DEF MaybeRow
  <2>5. used' \subseteq Files
    BY <1>4 DEF IInv, Types
  <2>. HIDE DEF rows
  <2>. QED  BY <1>1, <1>4, <2>1, <2>3, <2>4, <2>5, ExecuteKeeps
<1>. QED  BY <1>3, <1>4 DEF CreateRow

LEMMA UpdateRowStep ==
  ASSUME IInv, NEW r \in Requests, UpdateRow(r)
  PROVE  IInv'
<1>. DEFINE s == Step(r)
            rows == [k \in {s.id} |-> Updated(r, table[k], s.owner)]
<1>1. pc[r] = "tx" /\ todo[r] # <<>> /\ s.op = "update" /\ ~Blocked(r)
  BY DEF UpdateRow, Running
<1>2. s \in AnyStep /\ s.scan = {s.id}
  BY <1>1, StepIs DEF NamesItself
<1>3. CASE Abort(r)
  BY <1>1, <1>3, AbortKeeps
<1>4. CASE /\ Matches(r, s) /\ Execute(r, rows) /\ Continue(r, <<Fields(s, s.rel)>>) /\ UNCHANGED used
  <2>1. Scan(r) \subseteq Keys /\ Scan(r) = {s.id} /\ s.owner \in Users /\ s.id \in Orders
    BY <1>1, <1>2, ScanIs
  <2>2. table[s.id] \in OrderRow
    BY <1>4, <2>1 DEF Matches, Permitted, IInv, Types, MaybeRow
  <2>3. NewSteps(r, <<Fields(s, s.rel)>>)
    BY <1>1, <1>2, ScanIs, FieldsIs DEF NewSteps
  <2>4. \A o \in Orders \cap Scan(r) : rows[o] \in MaybeRow /\ Draft(num[r], table[o], rows[o])
    BY <2>1, <2>2, UpdatedIs DEF MaybeRow
  <2>5. used' \subseteq Files
    BY <1>4 DEF IInv, Types
  <2>. HIDE DEF rows
  <2>. QED  BY <1>1, <1>4, <2>1, <2>3, <2>4, <2>5, ExecuteKeeps
<1>. QED  BY <1>3, <1>4 DEF UpdateRow

LEMMA DeleteRowStep ==
  ASSUME IInv, NEW r \in Requests, DeleteRow(r)
  PROVE  IInv'
<1>. DEFINE s == Step(r)
            rows == [k \in {s.id} |-> Absent]
<1>1. pc[r] = "tx" /\ todo[r] # <<>> /\ s.op = "delete" /\ ~Blocked(r)
  BY DEF DeleteRow, Running
<1>2. s \in AnyStep /\ s.scan = {s.id}
  BY <1>1, StepIs DEF NamesItself
<1>3. CASE Abort(r)
  BY <1>1, <1>3, AbortKeeps
<1>4. CASE /\ Execute(r, rows) /\ Continue(r, DeleteReleated({s.id})) /\ UNCHANGED used
  <2>1. Scan(r) \subseteq Keys /\ Scan(r) = {s.id} /\ s.id \in Orders
    BY <1>1, <1>2, ScanIs
  <2>2. NewSteps(r, DeleteReleated({s.id}))
    BY <2>1, ReleatedSteps DEF NewSteps
  <2>3. \A o \in Orders \cap Scan(r) : rows[o] \in MaybeRow /\ Draft(num[r], table[o], rows[o])
    BY <2>1 DEF MaybeRow, Draft
  <2>4. used' \subseteq Files
    BY <1>4 DEF IInv, Types
  <2>. HIDE DEF rows
  <2>. QED  BY <1>1, <1>4, <2>1, <2>2, <2>3, <2>4, ExecuteKeeps
<1>. QED  BY <1>3, <1>4 DEF DeleteRow

\* Statements on rows that are not orders change no order.
LEMMA RelatedStep ==
  ASSUME IInv, NEW r \in Requests,
         InsertRow(r) \/ RemoveRow(r) \/ KeepRow(r) \/ DropRelated(r)
  PROVE  IInv'
<1>1. /\ pc[r] = "tx" /\ todo[r] # <<>> /\ ~Blocked(r)
      /\ Step(r).op \in {"insert", "remove", "keep", "drop"}
  BY DEF InsertRow, RemoveRow, KeepRow, DropRelated, Running
<1>2. CASE Abort(r)
  BY <1>1, <1>2, AbortKeeps
<1>3. CASE \E rows : Execute(r, rows) /\ Continue(r, <<>>) /\ UNCHANGED used
  <2>1. PICK rows : Execute(r, rows) /\ Continue(r, <<>>) /\ UNCHANGED used
    BY <1>3
  <2>2. Scan(r) \subseteq Keys /\ Scan(r) \cap Orders = {}
    BY <1>1, StepIs, ScanIs
  <2>3. \A o \in Orders \cap Scan(r) : rows[o] \in MaybeRow /\ Draft(num[r], table[o], rows[o])
    BY <2>2
  <2>4. used' \subseteq Files
    BY <2>1 DEF IInv, Types
  <2>. QED  BY <1>1, <2>1, <2>2, <2>3, <2>4, NoSteps, ExecuteKeeps
<1>. QED  BY <1>2, <1>3 DEF InsertRow, RemoveRow, KeepRow, DropRelated

LEMMA DeleteIdsStep ==
  ASSUME IInv, NEW r \in Requests, DeleteIds(r)
  PROVE  IInv'
<1>. DEFINE ids == Step(r).scan
            rows == [k \in ids |-> Absent]
<1>1. /\ pc[r] = "tx" /\ todo[r] # <<>> /\ ~Blocked(r) /\ Step(r).op = "deleteIds"
      /\ Execute(r, rows) /\ Continue(r, DeleteReleated(ids)) /\ UNCHANGED used
  BY DEF DeleteIds, Running
<1>2. Scan(r) = ids /\ ids \subseteq Orders /\ Scan(r) \subseteq Keys
  BY <1>1, StepIs, ScanIs
<1>3. NewSteps(r, DeleteReleated(ids))
  BY <1>2, ReleatedSteps DEF NewSteps
<1>4. \A o \in Orders \cap Scan(r) : rows[o] \in MaybeRow /\ Draft(num[r], table[o], rows[o])
  BY <1>2 DEF MaybeRow, Draft
<1>5. used' \subseteq Files
  BY <1>1 DEF IInv, Types
<1>. HIDE DEF rows
<1>. QED  BY <1>1, <1>2, <1>3, <1>4, <1>5, ExecuteKeeps

LEMMA UpdateWhereStep ==
  ASSUME IInv, NEW r \in Requests, UpdateWhere(r)
  PROVE  IInv'
<1>. DEFINE s == Step(r)
            rows == [k \in s.scan |-> IF Permitted(r, table[k]) THEN Updated(r, table[k], s.owner)
                                      ELSE table[k]]
<1>1. /\ pc[r] = "tx" /\ todo[r] # <<>> /\ ~Blocked(r) /\ s.op = "updateWhere"
      /\ Execute(r, rows) /\ Continue(r, <<>>) /\ UNCHANGED used
  BY DEF UpdateWhere, Running
<1>2. Scan(r) = s.scan /\ s.scan \subseteq Orders /\ Scan(r) \subseteq Keys /\ s.owner \in Users
  BY <1>1, StepIs, ScanIs
<1>3. \A o \in Orders \cap Scan(r) : rows[o] \in MaybeRow /\ Draft(num[r], table[o], rows[o])
  <2>. SUFFICES ASSUME NEW o \in Orders \cap Scan(r)
                PROVE  rows[o] \in MaybeRow /\ Draft(num[r], table[o], rows[o])
    OBVIOUS
  <2>1. CASE Permitted(r, table[o])
    <3>1. table[o] \in OrderRow
      BY <2>1 DEF Permitted, IInv, Types, MaybeRow
    <3>2. rows[o] = Updated(r, table[o], s.owner)
      BY <1>2, <2>1
    <3>. HIDE DEF rows
    <3>. QED  BY <1>2, <3>1, <3>2, UpdatedIs DEF MaybeRow
  <2>2. CASE ~Permitted(r, table[o])
    <3>1. rows[o] = table[o]
      BY <1>2, <2>2
    <3>. HIDE DEF rows
    <3>. QED  BY <3>1 DEF IInv, Types, Draft
  <2>. QED  BY <2>1, <2>2
<1>4. used' \subseteq Files
  BY <1>1 DEF IInv, Types
<1>. HIDE DEF rows
<1>. QED  BY <1>1, <1>2, <1>3, <1>4, NoSteps, ExecuteKeeps

LEMMA DeleteWhereStep ==
  ASSUME IInv, NEW r \in Requests, DeleteWhere(r)
  PROVE  IInv'
<1>. DEFINE ids == {k \in Step(r).scan : Permitted(r, table[k])}
            rows == [k \in Step(r).scan |-> IF k \in ids THEN Absent ELSE table[k]]
<1>1. /\ pc[r] = "tx" /\ todo[r] # <<>> /\ ~Blocked(r) /\ Step(r).op = "deleteWhere"
      /\ Execute(r, rows) /\ Continue(r, <<>>) /\ UNCHANGED used
  BY DEF DeleteWhere, Running
<1>2. Scan(r) = Step(r).scan /\ Step(r).scan \subseteq Orders /\ Scan(r) \subseteq Keys
  BY <1>1, StepIs, ScanIs
<1>3. \A o \in Orders \cap Scan(r) : rows[o] \in MaybeRow /\ Draft(num[r], table[o], rows[o])
  BY <1>2 DEF MaybeRow, Draft, IInv, Types
<1>4. used' \subseteq Files
  BY <1>1 DEF IInv, Types
<1>. HIDE DEF rows
<1>. QED  BY <1>1, <1>2, <1>3, <1>4, NoSteps, ExecuteKeeps

\* The IDs a delete selects are those of committed rows of the user.
SelectedStep(r) ==
  DeleteStep(Selected(r), [o \in Orders |-> IF o \in Selected(r) THEN Committed(o) ELSE NoVersion])

LEMMA SelectedStepIs ==
  ASSUME IInv, NEW r \in Requests, todo[r] # <<>>, Step(r).op = "select"
  PROVE  NewSteps(r, <<SelectedStep(r)>>) /\ SelectedStep(r).op = "deleteIds"
<1>. DEFINE ids == Selected(r)
            basis == [o \in Orders |-> IF o \in ids THEN Committed(o) ELSE NoVersion]
            s == SelectedStep(r)
<1>1. Step(r) \in AnyStep
  BY StepIs
<1>2. Step(r).ids \subseteq Orders
  BY <1>1 DEF AnyStep
<1>3. ids \subseteq Orders /\ \A o \in ids : Committed(o) \in OrderRow
        /\ (user[r] \in Filtered => Committed(o).owner = user[r])
  BY <1>2 DEF Selected, Permitted, IInv, CommittedOld, MaybeRow
<1>4. s = DeleteStep(ids, basis)
  BY DEF SelectedStep
<1>. HIDE DEF ids, s
<1>5. basis \in [Orders -> OrderRow \cup {NoVersion}]
      /\ \A o \in Orders : basis[o] = IF o \in ids THEN Committed(o) ELSE NoVersion
  BY <1>3
<1>. HIDE DEF basis
<1>6. s \in AnyStep /\ s.op = "deleteIds" /\ s.scan = ids /\ s.basis = basis
  BY <1>3, <1>4, <1>5 DEF DeleteStep, AnyStep
<1>7. \A o \in Orders : Basis(s, o) = NoVersion \/ Basis(s, o) = Committed(o)
  BY <1>5, <1>6 DEF Basis
<1>8. NamesItself(s) /\ Own(user[r], s)
  BY <1>3, <1>5, <1>6 DEF NamesItself, Own
<1>9. Informed(<<s>>)
  BY <1>7 DEF Informed
<1>10. StepsOf(user[r], <<s>>)
  BY <1>6, <1>8, <1>9, OneStep
<1>. QED  BY <1>6, <1>10 DEF NewSteps, s

LEMMA GetPermissionIdsStep ==
  ASSUME IInv, NEW r \in Requests, GetPermissionIds(r)
  PROVE  IInv'
<1>1. pc[r] = "tx" /\ todo[r] # <<>> /\ Step(r).op = "select"
  BY DEF GetPermissionIds, Running
<1>2. CASE Abort(r)
  BY <1>1, <1>2, AbortKeeps
<1>3. CASE Continue(r, <<SelectedStep(r)>>) /\ UNCHANGED <<table, undo, pc, used>> /\ UNCHANGED clients
  <2>1. used' \subseteq Files
    BY <1>3 DEF IInv, Types
  <2>. QED  BY <1>1, <1>3, <2>1, SelectedStepIs, ContinueKeeps
<1>. QED  BY <1>2, <1>3 DEF GetPermissionIds, SelectedStep

LEMMA QueryFilterDataStep ==
  ASSUME IInv, NEW r \in Requests, QueryFilterData(r)
  PROVE  IInv'
<1>1. /\ todo[r] # <<>> /\ Continue(r, <<>>) /\ UNCHANGED <<table, undo, pc>>
      /\ UNCHANGED clients /\ UNCHANGED used
  BY DEF QueryFilterData, Running
<1>2. used' \subseteq Files
  BY <1>1 DEF IInv, Types
<1>. QED  BY <1>1, <1>2, NoSteps, ContinueKeeps

\* What the file operations have in common.
LEMMA FileStepIs ==
  ASSUME NEW r \in Requests,
         \/ SweepFiles(r) \/ UnlinkFile(r) \/ WriteFile(r) \/ WriteBreaks(r) \/ RemovalFails(r)
  PROVE  \E gone, new, lost : \E steps \in {<<>>, <<Plain("fail")>>} :
           OnDisk(r, gone, new, lost, steps)
<1>1. CASE SweepFiles(r) \/ UnlinkFile(r) \/ WriteFile(r)
  BY <1>1 DEF SweepFiles, UnlinkFile, WriteFile
<1>2. CASE WriteBreaks(r)
  BY <1>2 DEF WriteBreaks
<1>3. CASE RemovalFails(r)
  BY <1>3 DEF RemovalFails
<1>. QED  BY <1>1, <1>2, <1>3

LEMMA FileStep ==
  ASSUME IInv, NEW r \in Requests,
         \/ SweepFiles(r) \/ UnlinkFile(r) \/ WriteFile(r) \/ WriteBreaks(r) \/ RemovalFails(r)
  PROVE  IInv'
<1>1. todo[r] # <<>>
  BY DEF SweepFiles, UnlinkFile, WriteFile, WriteBreaks, RemovalFails, Running
<1>2. PICK steps \in {<<>>, <<Plain("fail")>>} :
        /\ Continue(r, steps) /\ UNCHANGED <<table, undo, pc, used>> /\ UNCHANGED clients
  BY FileStepIs DEF OnDisk
<1>3. used' \subseteq Files
  BY <1>2 DEF IInv, Types
<1>4. NewSteps(r, steps)
  BY <1>2, NoSteps, PlainIs DEF NewSteps
<1>. QED  BY <1>1, <1>2, <1>3, <1>4, ContinueKeeps

LEMMA OnlyStep ==
  ASSUME NEW u, NEW a, StepsOf(u, <<a>>)
  PROVE  /\ a \in AnyStep /\ NamesItself(a) /\ Own(u, a)
         /\ \A o \in Orders : \/ Basis(a, o) = NoVersion
                              \/ Basis(a, o) = Committed(o)
                              \/ \E w \in Users : Basis(a, o) = view[w][o]
<1>. DEFINE p == <<a>>
<1>1. StepsOf(u, p) /\ Len(p) = 1 /\ p[1] = a /\ 1 \in 1 .. 1
  OBVIOUS
<1>. HIDE DEF p
<1>2. p[1] \in AnyStep
  BY <1>1 DEF StepsOf
<1>. QED  BY <1>1, <1>2 DEF StepsOf, Informed

LEMMA TwoSteps ==
  ASSUME NEW u, NEW a, NEW b, StepsOf(u, <<a>>), StepsOf(u, <<b>>)
  PROVE  StepsOf(u, <<a, b>>)
<1>. DEFINE p == <<a, b>>
<1>1. a \in AnyStep /\ b \in AnyStep
  BY OnlyStep
<1>2. p \in Seq(AnyStep) /\ \A i \in 1 .. Len(p) : p[i] = a \/ p[i] = b
  BY <1>1
<1>. HIDE DEF p
<1>3. \A i \in 1 .. Len(p) : NamesItself(p[i]) /\ Own(u, p[i])
  BY <1>2, OnlyStep
<1>4. Informed(p)
  BY <1>2, OnlyStep DEF Informed
<1>5. StepsOf(u, p)
  BY <1>2, <1>3, <1>4 DEF StepsOf
<1>. QED  BY <1>5 DEF p

\* The statements and file operations of a related field, one by one.
LEMMA FieldStepIs ==
  ASSUME NEW o \in Orders, NEW u
  PROVE  /\ \A k \in Keys \ Orders : Insert(k, o) \in AnyStep /\ StepsOf(u, <<Insert(k, o)>>)
         /\ \A k \in Keys \ Orders, must \in BOOLEAN :
              Remove(k, must) \in AnyStep /\ StepsOf(u, <<Remove(k, must)>>)
         /\ \A k \in Children : Keep(k) \in AnyStep /\ StepsOf(u, <<Keep(k)>>)
         /\ \A f \in Files, n \in Names :
              /\ Write(o, f, n) \in AnyStep /\ StepsOf(u, <<Write(o, f, n)>>)
              /\ Unlink(o, f, n) \in AnyStep /\ StepsOf(u, <<Unlink(o, f, n)>>)
<1>1. \A k \in Keys \ Orders : Insert(k, o) \in AnyStep /\ Insert(k, o).op = "insert"
  BY DEF Insert, AnyStep
<1>2. \A k \in Keys \ Orders, must \in BOOLEAN :
        Remove(k, must) \in AnyStep /\ Remove(k, must).op = "remove"
  BY DEF Remove, AnyStep
<1>3. \A k \in Children : Keep(k) \in AnyStep /\ Keep(k).op = "keep"
  BY DEF Keep, AnyStep
<1>4. \A f \in Files, n \in Names : Write(o, f, n) \in AnyStep /\ Write(o, f, n).op = "write"
  BY DEF Write, AnyStep
<1>5. \A f \in Files, n \in Names : Unlink(o, f, n) \in AnyStep /\ Unlink(o, f, n).op = "unlink"
  BY DEF Unlink, AnyStep
<1>6. ASSUME NEW a \in AnyStep, a.op \in {"insert", "remove", "keep", "write", "unlink"}
      PROVE  StepsOf(u, <<a>>)
  <2>1. <<a>> \in Seq(AnyStep) /\ \A i \in 1 .. Len(<<a>>) : <<a>>[i] = a
    OBVIOUS
  <2>. QED  BY <1>6, <2>1, PlainSteps
<1>. QED  BY <1>1, <1>2, <1>3, <1>4, <1>5, <1>6

LEMMA ChildStepsAre ==
  ASSUME NEW u, NEW v, NEW a, StepsOf(v, <<a>>)
  PROVE  StepsOf(v, ChildSteps(u, a))
<1>1. StepsOf(v, <<Plain("childQuery")>>)
  BY PlainIs
<1>. QED  BY <1>1, TwoSteps DEF ChildSteps

\* What one related field needs, case by case.
FieldCase(u, s, x, steps) ==
  \/ \E t \in Tags : x.key = t /\ \/ steps = <<Insert(<<s.id, t>>, s.id)>>
                                  \/ steps = <<Remove(<<s.id, t>>, FALSE)>>
  \/ \E c \in Children : \E a \in {Insert(c, s.id), Keep(c), Remove(c, TRUE)} :
       steps = ChildSteps(u, a)
  \/ /\ x.op = "addFile" /\ NextFile \in Files \ used
     /\ steps = <<Insert(NextFile, s.id), Write(s.id, NextFile, "own")>>
  \/ /\ x.op # "addFile"
     /\ \E f \in s.seen, n \in Names : \/ steps = <<Unlink(s.id, f, n), Write(s.id, f, n)>>
                                       \/ steps = <<Unlink(s.id, f, n), Remove(f, FALSE)>>
  \/ steps = <<Plain("badField")>>

LEMMA FieldCases ==
  ASSUME NEW u, NEW s, NEW x \in Related,
         x.op = "addFile" => Files \ used # {},
         NEW steps \in FieldSteps(u, s, x)
  PROVE  FieldCase(u, s, x, steps)
<1>1. CASE x.op = "addTag" \/ x.op = "dropTag"
  BY <1>1 DEF FieldSteps, Related, FieldCase
<1>2. CASE x.op = "addChild" \/ x.op = "setChild" \/ x.op = "dropChild"
  <2>1. x.key \in Children
    BY <1>2 DEF Related
  <2>2. \E a \in {Insert(x.key, s.id), Keep(x.key), Remove(x.key, TRUE)} :
          steps = ChildSteps(u, a)
    BY <1>2 DEF FieldSteps
  <2>. QED  BY <2>1, <2>2 DEF FieldCase
<1>3. CASE x.op = "addFile"
  <2>1. NextFile \in Files \ used
    BY <1>3 DEF NextFile
  <2>. QED  BY <1>3, <2>1 DEF FieldSteps, FieldCase
<1>4. CASE x.op = "setFile" \/ x.op = "dropFile"
  <2>1. x.name \in Names
    BY <1>4 DEF Related
  <2>2. /\ x.op = "setFile" =>
             FieldSteps(u, s, x) = {<<Unlink(s.id, f, x.name), Write(s.id, f, x.name)>> : f \in s.seen}
        /\ x.op = "dropFile" =>
             FieldSteps(u, s, x) = {<<Unlink(s.id, f, x.name), Remove(f, FALSE)>> : f \in s.seen}
    BY DEF FieldSteps
  <2>3. CASE x.op = "setFile"
    <3>1. PICK f \in s.seen : steps = <<Unlink(s.id, f, x.name), Write(s.id, f, x.name)>>
      BY <2>2, <2>3
    <3>2. \E n \in Names : steps = <<Unlink(s.id, f, n), Write(s.id, f, n)>>
      BY <2>1, <3>1
    <3>. QED  BY <2>3, <3>2, Zenon DEF FieldCase
  <2>4. CASE x.op = "dropFile"
    <3>1. PICK f \in s.seen : steps = <<Unlink(s.id, f, x.name), Remove(f, FALSE)>>
      BY <2>2, <2>4
    <3>2. \E n \in Names : steps = <<Unlink(s.id, f, n), Remove(f, FALSE)>>
      BY <2>1, <3>1
    <3>. QED  BY <2>4, <3>2, Zenon DEF FieldCase
  <2>. QED  BY <1>4, <2>3, <2>4
<1>5. CASE x.op = "badField"
  BY <1>5 DEF FieldSteps, FieldCase
<1>. QED  BY <1>1, <1>2, <1>3, <1>4, <1>5 DEF Related

\* The statements and file operations one related field needs.
LEMMA FieldStepsAre ==
  ASSUME NEW u, NEW s, s.id \in Orders, s.seen \in SUBSET Files, NEW x \in Related,
         x.op = "addFile" => Files \ used # {},
         NEW steps \in FieldSteps(u, s, x), NEW v
  PROVE  StepsOf(v, steps)
<1>. PICK o \in Orders : o = s.id
  OBVIOUS
<1>0. Names = {"own", "other"}
  BY DEF Names
<1>1. Files \subseteq Keys \ Orders /\ Children \subseteq Keys \ Orders
      /\ \A k \in Tags : <<o, k>> \in Keys \ Orders
  BY DataStoreAssumption DEF Keys, Links
<1>2. /\ \A k \in Keys \ Orders : StepsOf(v, <<Insert(k, o)>>)
      /\ \A k \in Keys \ Orders, must \in BOOLEAN : StepsOf(v, <<Remove(k, must)>>)
      /\ \A k \in Children : StepsOf(v, <<Keep(k)>>)
      /\ \A f \in Files, n \in Names : StepsOf(v, <<Write(o, f, n)>>) /\ StepsOf(v, <<Unlink(o, f, n)>>)
  BY FieldStepIs
<1>3. CASE \E t \in Tags : steps = <<Insert(<<o, t>>, o)>> \/ steps = <<Remove(<<o, t>>, FALSE)>>
  BY <1>1, <1>2, <1>3
<1>4. CASE \E c \in Children : \E a \in {Insert(c, o), Keep(c), Remove(c, TRUE)} :
             steps = ChildSteps(u, a)
  <2>0. PICK c \in Children : \E a \in {Insert(c, o), Keep(c), Remove(c, TRUE)} :
          steps = ChildSteps(u, a)
    BY <1>4
  <2>1. PICK a \in {Insert(c, o), Keep(c), Remove(c, TRUE)} : steps = ChildSteps(u, a)
    BY <2>0
  <2>2. StepsOf(v, <<Insert(c, o)>>) /\ StepsOf(v, <<Keep(c)>>) /\ StepsOf(v, <<Remove(c, TRUE)>>)
    BY <1>1, <1>2
  <2>3. StepsOf(v, <<a>>)
    BY <2>2
  <2>. QED  BY <2>1, <2>3, ChildStepsAre
<1>5. CASE NextFile \in Files /\ steps = <<Insert(NextFile, o), Write(o, NextFile, "own")>>
  <2>1. StepsOf(v, <<Insert(NextFile, o)>>) /\ StepsOf(v, <<Write(o, NextFile, "own")>>)
    BY <1>0, <1>1, <1>2, <1>5
  <2>. QED  BY <1>5, <2>1, TwoSteps
<1>6. CASE \E f \in s.seen, n \in Names :
             \/ steps = <<Unlink(o, f, n), Write(o, f, n)>>
             \/ steps = <<Unlink(o, f, n), Remove(f, FALSE)>>
  <2>1. PICK f \in Files, n \in Names : \/ steps = <<Unlink(o, f, n), Write(o, f, n)>>
                                        \/ steps = <<Unlink(o, f, n), Remove(f, FALSE)>>
    BY <1>6
  <2>2. /\ StepsOf(v, <<Unlink(o, f, n)>>) /\ StepsOf(v, <<Write(o, f, n)>>)
        /\ StepsOf(v, <<Remove(f, FALSE)>>)
    BY <1>1, <1>2
  <2>. QED  BY <2>1, <2>2, TwoSteps
<1>7. CASE steps = <<Plain("badField")>>
  BY <1>7, PlainIs DEF Bad
<1>8. FieldCase(u, s, x, steps)
  BY FieldCases
<1>. QED  BY <1>3, <1>4, <1>5, <1>6, <1>7, <1>8 DEF FieldCase

LEMMA SaveRelatedFieldStep ==
  ASSUME IInv, NEW r \in Requests, SaveRelatedField(r)
  PROVE  IInv'
<1>. DEFINE s == Step(r)
<1>1. /\ todo[r] # <<>> /\ s.op = "fields" /\ UNCHANGED <<table, undo, pc>>
      /\ UNCHANGED clients
  BY DEF SaveRelatedField, Running
<1>2. s \in AnyStep
  BY <1>1, StepIs
<1>3. s.id \in Orders /\ s.rel \in SUBSET Related /\ s.seen \in SUBSET Files
  BY <1>1, <1>2 DEF AnyStep
<1>4. \/ Continue(r, <<>>) /\ UNCHANGED used
      \/ \E x \in s.rel : \E steps \in FieldSteps(user[r], s, x) :
           /\ x.op = "addFile" => Files \ used # {}
           /\ Continue(r, steps \o <<Fields(s, s.rel \ {x})>>)
           /\ used' = IF x.op = "addFile" THEN used \cup {NextFile} ELSE used
  BY DEF SaveRelatedField
<1>. HIDE DEF s
<1>5. CASE Continue(r, <<>>) /\ UNCHANGED used
  <2>1. used' \subseteq Files
    BY <1>5 DEF IInv, Types
  <2>. QED  BY <1>1, <1>5, <2>1, NoSteps, ContinueKeeps
<1>6. ASSUME NEW x \in s.rel, NEW steps \in FieldSteps(user[r], s, x),
             x.op = "addFile" => Files \ used # {},
             Continue(r, steps \o <<Fields(s, s.rel \ {x})>>),
             used' = IF x.op = "addFile" THEN used \cup {NextFile} ELSE used
      PROVE  IInv'
  <2>1. x \in Related /\ s.rel \ {x} \in SUBSET Related
    BY <1>3
  <2>2. StepsOf(user[r], steps)
    BY <1>3, <1>6, <2>1, FieldStepsAre
  <2>3. StepsOf(user[r], <<Fields(s, s.rel \ {x})>>)
    BY <1>3, <2>1, FieldsIs
  <2>4. NewSteps(r, steps \o <<Fields(s, s.rel \ {x})>>)
    BY <2>2, <2>3, ConcatSteps DEF NewSteps
  <2>5. used \subseteq Files
    BY DEF IInv, Types
  <2>6. used' \subseteq Files
    BY <1>6, <2>5 DEF NextFile
  <2>. QED  BY <1>1, <1>6, <2>4, <2>6, ContinueKeeps
<1>. QED  BY <1>4, <1>5, <1>6

\* The end of a request, by whatever cause.
LEMMA EndStep ==
  ASSUME IInv, NEW r \in Requests,
         Commit(r) \/ Fail(r) \/ LockTimeout(r) \/ StepFails(r) \/ CommitFails(r)
  PROVE  IInv'
<1>1. pc[r] = "tx"
  BY DEF Commit, Fail, LockTimeout, StepFails, CommitFails, Running
<1>2. CASE Abort(r)
  BY <1>1, <1>2, AbortKeeps
<1>3. CASE Release(r) /\ table' \in {table, RolledBack(r)}
  <2>1. used' \subseteq Files
    BY <1>3 DEF Release, IInv, Types
  <2>. QED  BY <1>1, <1>3, <2>1, ReleaseKeeps
<1>. QED  BY <1>2, <1>3 DEF Commit, Fail, LockTimeout, StepFails, CommitFails

-----------------------------------------------------------------------------
(* The theorems.                                                             *)

LEMMA NextIInv == IInv /\ [Next]_vars => IInv'
<1>. SUFFICES ASSUME IInv, [Next]_vars PROVE IInv'
  OBVIOUS
<1>1. ASSUME NEW u \in Users, Query(u) PROVE IInv'
  BY <1>1, QueryStep
<1>2. ASSUME NEW r \in Requests, NEW u \in Users, NEW b \in Bodies, Send(r, u, b) PROVE IInv'
  BY <1>2, SendStep
<1>3. ASSUME NEW r \in Requests, Begin(r) PROVE IInv'
  BY <1>3, BeginStep
<1>4. ASSUME NEW r \in Requests, Proceed(r) PROVE IInv'
  BY <1>4, QueryFilterDataStep, GetPermissionIdsStep, CreateRowStep, UpdateRowStep,
     DeleteRowStep, SaveRelatedFieldStep, RelatedStep, FileStep, DeleteIdsStep,
     UpdateWhereStep, DeleteWhereStep, EndStep, PanicStep DEF Proceed
<1>5. ASSUME NEW r \in Requests,
             LockTimeout(r) \/ StepFails(r) \/ WriteBreaks(r) \/ RemovalFails(r) \/ CommitFails(r)
      PROVE  IInv'
  BY <1>5, EndStep, FileStep
<1>6. ASSUME Crash PROVE IInv'
  BY <1>6, CrashStep
<1>7. CASE UNCHANGED vars
  <2>1. /\ UNCHANGED <<table, undo, pc, user, num, todo, view, sent, used>>
    BY <1>7 DEF vars
  <2>2. \A o : Committed(o)' = Committed(o)
    BY <2>1 DEF Committed
  <2>. QED  BY <2>1, <2>2 DEF IInv, Types, LocksApart, LocksHeld, Numbered, CommittedOld,
       DraftsFit, ViewsFit, StepsFit
<1>. QED  BY <1>1, <1>2, <1>3, <1>4, <1>5, <1>6, <1>7 DEF Next

LEMMA SpecIInv == Spec => []IInv
<1>1. Init => IInv
  BY InitIInv
<1>2. IInv /\ [Next]_vars => IInv'
  BY NextIInv
<1>. QED  BY <1>1, <1>2, PTL DEF Spec

\* What a request that waits for no lock finds in the table fits what was read
\* before: it is committed, or a draft of the request itself.
LEMMA TableFits ==
  ASSUME IInv, NEW r \in Requests, pc[r] = "tx", ~Blocked(r),
         NEW o \in Orders, o \in Scan(r), NEW x, Fits(pc, num, sent, x, Committed(o))
  PROVE  Fits(pc, num, sent, x, table[o])
<1>1. \A q \in Requests \ {r} : o \notin DOMAIN undo[q]
  BY DEF Blocked, Locked
<1>2. \A q, q2 \in Requests : o \in DOMAIN undo[q] /\ o \in DOMAIN undo[q2] => q = q2
  BY <1>1
<1>3. /\ \A q \in Requests : o \in DOMAIN undo[q] => Committed(o) = undo[q][o]
      /\ (\A q \in Requests : o \notin DOMAIN undo[q]) => Committed(o) = table[o]
  BY <1>2, CommittedIs, CommittedSame
<1>4. CASE o \in DOMAIN undo[r]
  <2>1. /\ Committed(o) = undo[r][o] /\ undo[r][o] \in MaybeRow /\ table[o] \in MaybeRow
        /\ Draft(num[r], undo[r][o], table[o])
    BY <1>3, <1>4 DEF IInv, Types, DraftsFit
  <2>. QED  BY <2>1, DraftFits
<1>5. CASE o \notin DOMAIN undo[r]
  BY <1>1, <1>3, <1>5
<1>. QED  BY <1>4, <1>5

\* A step that writes the row of an order is a statement of the request that
\* has the row locked.
Statement(r, o) ==
  /\ pc[r] = "tx" /\ todo[r] # <<>> /\ ~Blocked(r) /\ o \in Scan(r)
  /\ \/ Step(r).op = "create" /\ table[o] = Absent
     \/ Step(r).op = "update" /\ Matches(r, Step(r)) /\ Step(r).id = o
     \/ Step(r).op \in {"delete", "updateWhere", "deleteWhere"} /\ Permitted(r, table[o])
     \/ Step(r).op = "deleteIds"

LEMMA WroteIs ==
  ASSUME IInv, [Next]_vars, NEW r \in Requests, NEW o \in Orders, Wrote(r, o)
  PROVE  Statement(r, o)
<1>1. o \in DOMAIN undo'[r] /\ table'[o] # table[o] /\ todo'[r] # todo[r] /\ todo[r] # <<>>
  BY DEF Wrote
<1>2. DOMAIN undo = Requests /\ DOMAIN todo = Requests /\ DOMAIN table = Keys /\ o \in Keys
  BY DEF IInv, Types, Keys
<1>3. ~\E q \in Requests : Release(q)
  BY <1>1, <1>2 DEF Release
<1>4. ~\E q \in Requests : Abort(q)
  BY <1>3 DEF Abort
<1>5. ~UNCHANGED table
  BY <1>1
<1>6. ASSUME NEW q \in Requests, NEW steps, Continue(q, steps)
      PROVE  q = r
  BY <1>1, <1>2, <1>6 DEF Continue
<1>7. ASSUME NEW rows, Execute(r, rows)
      PROVE  o \in Scan(r) /\ table'[o] = rows[o]
  BY <1>1, <1>2, <1>7 DEF Execute
<1>8. ~Crash /\ ~UNCHANGED vars
  BY <1>1, <1>5 DEF Crash, vars
<1>. /\ \A q : WriteBreaks(q) \/ RemovalFails(q) => UNCHANGED table
     /\ \A q : SweepFiles(q) \/ UnlinkFile(q) \/ WriteFile(q) => UNCHANGED table
  BY DEF SweepFiles, UnlinkFile, WriteFile, WriteBreaks, RemovalFails, OnDisk
<1>9. PICK q \in Requests : Proceed(q)
  BY <1>3, <1>4, <1>5, <1>8
     DEF Next, Query, Send, Begin, LockTimeout, StepFails, CommitFails
<1>10. /\ ~QueryFilterData(q) /\ ~SaveRelatedField(q) /\ ~Commit(q) /\ ~Fail(q) /\ ~Panic(q)
       /\ ~SweepFiles(q) /\ ~UnlinkFile(q) /\ ~WriteFile(q) /\ ~GetPermissionIds(q)
  BY <1>3, <1>4, <1>5 DEF QueryFilterData, SaveRelatedField, Commit, Fail, Panic,
     GetPermissionIds
<1>11. /\ pc[q] = "tx" /\ todo[q] # <<>> /\ ~Blocked(q) /\ Step(q) \in AnyStep
       /\ NamesItself(Step(q)) /\ \E steps : Continue(q, steps)
  <2>1. todo[q] # <<>> /\ pc[q] = "tx" /\ ~Blocked(q) /\ \E steps : Continue(q, steps)
    BY <1>4, <1>9, <1>10 DEF Proceed, CreateRow, UpdateRow, DeleteRow, InsertRow, RemoveRow,
       KeepRow, DropRelated, DeleteIds, UpdateWhere, DeleteWhere, Running
  <2>. QED  BY <2>1, StepIs
<1>12. q = r
  BY <1>6, <1>11
<1>13. CASE CreateRow(r)
  <2>1. Step(r).op = "create" /\ table[Step(r).id] = Absent /\ \E rows : Execute(r, rows)
    BY <1>4, <1>13 DEF CreateRow, Running
  <2>2. Scan(r) = {Step(r).id} /\ o \in Scan(r)
    BY <1>7, <1>11, <1>12, <2>1, ScanIs DEF NamesItself
  <2>. QED  BY <1>11, <1>12, <2>1, <2>2 DEF Statement
<1>14. CASE UpdateRow(r)
  <2>1. Step(r).op = "update" /\ Matches(r, Step(r)) /\ \E rows : Execute(r, rows)
    BY <1>4, <1>14 DEF UpdateRow, Running
  <2>2. Scan(r) = {Step(r).id} /\ o \in Scan(r)
    BY <1>7, <1>11, <1>12, <2>1, ScanIs DEF NamesItself
  <2>. QED  BY <1>11, <1>12, <2>1, <2>2 DEF Statement
<1>15. CASE DeleteRow(r)
  <2>1. Step(r).op = "delete" /\ Permitted(r, table[Step(r).id]) /\ \E rows : Execute(r, rows)
    BY <1>4, <1>15 DEF DeleteRow, Running
  <2>2. Scan(r) = {Step(r).id} /\ o \in Scan(r)
    BY <1>7, <1>11, <1>12, <2>1, ScanIs DEF NamesItself
  <2>. QED  BY <1>11, <1>12, <2>1, <2>2 DEF Statement
<1>16. CASE InsertRow(r) \/ RemoveRow(r) \/ KeepRow(r) \/ DropRelated(r)
  <2>1. Step(r).op \in {"insert", "remove", "keep", "drop"} /\ \E rows : Execute(r, rows)
    BY <1>4, <1>16 DEF InsertRow, RemoveRow, KeepRow, DropRelated, Running
  <2>. QED  BY <1>7, <1>11, <1>12, <2>1, ScanIs
<1>17. CASE DeleteIds(r)
  <2>1. Step(r).op = "deleteIds" /\ \E rows : Execute(r, rows)
    BY <1>17 DEF DeleteIds, Running
  <2>. QED  BY <1>7, <1>11, <1>12, <2>1 DEF Statement
<1>18. CASE UpdateWhere(r)
  <2>. DEFINE s == Step(r)
              rows == [k \in s.scan |-> IF Permitted(r, table[k])
                                        THEN Updated(r, table[k], s.owner) ELSE table[k]]
  <2>1. s.op = "updateWhere" /\ Execute(r, rows)
    BY <1>18 DEF UpdateWhere, Running
  <2>2. o \in s.scan /\ table'[o] = rows[o] /\ o \in Scan(r)
    BY <1>7, <1>11, <1>12, <2>1, ScanIs
  <2>3. Permitted(r, table[o])
    BY <1>1, <2>2
  <2>. QED  BY <1>11, <1>12, <2>1, <2>2, <2>3 DEF Statement
<1>19. CASE DeleteWhere(r)
  <2>. DEFINE ids == {k \in Step(r).scan : Permitted(r, table[k])}
              rows == [k \in Step(r).scan |-> IF k \in ids THEN Absent ELSE table[k]]
  <2>1. Step(r).op = "deleteWhere" /\ Execute(r, rows)
    BY <1>19 DEF DeleteWhere, Running
  <2>2. o \in Step(r).scan /\ table'[o] = rows[o] /\ o \in Scan(r)
    BY <1>7, <1>11, <1>12, <2>1, ScanIs
  <2>3. Permitted(r, table[o])
    BY <1>1, <2>2
  <2>. QED  BY <1>11, <1>12, <2>1, <2>2, <2>3 DEF Statement
<1>. QED  BY <1>9, <1>10, <1>12, <1>13, <1>14, <1>15, <1>16, <1>17, <1>18, <1>19 DEF Proceed

\* updateRow: whatever requests run at the same time and whatever fails, a save
\* that sends the version its user saw overwrites nothing written since then.
THEOREM SpecNoLostUpdate == Spec => NoLostUpdate
<1>1. ASSUME IInv, [Next]_vars, NEW r \in Requests, NEW o \in Orders,
             Wrote(r, o), Step(r).op = "update", Step(r).basis # NoVersion,
             Step(r).basis.born = table[o].born
      PROVE  Step(r).basis.stamp = table[o].stamp
  <2>. DEFINE s == Step(r)  x == s.basis
  <2>1. Statement(r, o)
    BY <1>1, WroteIs
  <2>2. /\ pc[r] = "tx" /\ todo[r] # <<>> /\ ~Blocked(r) /\ o \in Scan(r)
        /\ Matches(r, s) /\ s.id = o
    BY <1>1, <2>1 DEF Statement
  <2>3. x \in OrderRow
    BY <1>1, <2>2, StepIs, ScanIs
  <2>4. Fits(pc, num, sent, x, Committed(o))
    BY <1>1, <2>2, StepIs DEF Basis
  <2>5. Fits(pc, num, sent, x, table[o])
    BY <1>1, <2>2, <2>4, TableFits
  <2>6. table[o] \in OrderRow /\ table[o].version = x.version
    BY <1>1, <2>2 DEF Matches, Permitted, IInv, Types, MaybeRow
  <2>. QED  BY <1>1, <2>3, <2>5, <2>6 DEF Fits
<1>2. IInv /\ [Next]_vars =>
       [\A r \in Requests, o \in Orders :
         /\ Wrote(r, o) /\ Step(r).op = "update" /\ Step(r).basis # NoVersion
         /\ Step(r).basis.born = table[o].born
         => Step(r).basis.stamp = table[o].stamp]_vars
  BY <1>1
<1>. QED  BY <1>2, SpecIInv, PTL DEF Spec, NoLostUpdate

\* updateRow, deleteRow, delete, update and batch delete: a user whose dataset
\* has a filter changes rows of that filter only, at the moment of the change,
\* or, by a delete, rows that were of that filter when their IDs were selected.
THEOREM SpecOthersRowsKept == Spec => OthersRowsKept
<1>1. ASSUME IInv, [Next]_vars, NEW r \in Requests, NEW o \in Orders,
             Wrote(r, o), table[o] # Absent, user[r] \in Filtered
      PROVE  \/ table[o].owner = user[r]
             \/ /\ Step(r).op = "deleteIds"
                /\ Step(r).basis[o].owner = user[r] /\ Step(r).basis[o].stamp # table[o].stamp
  <2>. DEFINE s == Step(r)  x == s.basis[o]
  <2>1. Statement(r, o)
    BY <1>1, WroteIs
  <2>2. pc[r] = "tx" /\ todo[r] # <<>> /\ ~Blocked(r) /\ o \in Scan(r)
    BY <2>1 DEF Statement
  <2>3. CASE s.op = "update" /\ Matches(r, s) /\ s.id = o
    BY <1>1, <2>3 DEF Matches, Permitted
  <2>4. CASE Permitted(r, table[o])
    BY <1>1, <2>4 DEF Permitted
  <2>5. CASE s.op = "deleteIds"
    <3>1. s \in AnyStep /\ Own(user[r], s) /\ Fits(pc, num, sent, Basis(s, o), Committed(o))
      BY <1>1, <2>2, StepIs
    <3>2. o \in s.scan
      BY <2>2, <2>5, <3>1, ScanIs
    <3>3. x \in OrderRow /\ x.owner = user[r] /\ Basis(s, o) = x
      BY <1>1, <2>5, <3>1, <3>2 DEF Own, Basis
    <3>4. Fits(pc, num, sent, x, table[o])
      BY <1>1, <2>2, <3>1, <3>3, TableFits
    <3>5. table[o] \in OrderRow
      BY <1>1 DEF IInv, Types, MaybeRow
    <3>. QED  BY <2>5, <3>3, <3>4, <3>5 DEF Fits
  <2>. QED  BY <1>1, <2>1, <2>3, <2>4, <2>5 DEF Statement
<1>2. IInv /\ [Next]_vars =>
       [\A r \in Requests, o \in Orders :
         Wrote(r, o) /\ table[o] # Absent /\ user[r] \in Filtered =>
           \/ table[o].owner = user[r]
           \/ /\ Step(r).op = "deleteIds"
              /\ Step(r).basis[o].owner = user[r] /\ Step(r).basis[o].stamp # table[o].stamp]_vars
  BY <1>1
<1>. QED  BY <1>2, SpecIInv, PTL DEF Spec, OthersRowsKept
-----------------------------------------------------------------------------
(* No tag, child or file is left without its order.                          *)
(*                                                                           *)
(* What is committed is whole, and so is what each transaction would commit, *)
(* but for the rows that it still has to delete. A transaction that touches  *)
(* related rows of an order has the order locked, so that the transactions   *)
(* can be looked at one by one.                                              *)

-----------------------------------------------------------------------------
(* The invariant.                                                            *)

MaybeRelated == RelatedRow \cup {Absent}

RelatedTypes ==
  \A k \in Keys \ Orders :
    /\ table[k] \in MaybeRelated
    /\ \A r \in Requests : k \in DOMAIN undo[r] => undo[r][k] \in MaybeRelated

\* Steps that finish the row at work; those of the next rows come after them.
Early ==
  {"fields", "childQuery", "insert", "remove", "keep", "drop", "sweep", "unlink", "write", "fail",
   "badField"}
Sorted(r) ==
  \A i, j \in 1 .. Len(todo[r]) : i <= j /\ todo[r][j].op \in Early => todo[r][i].op \in Early

\* The order to which related rows will be added is locked and there.
Ready(r, s) ==
  s.op \in {"fields", "insert"} => s.id \in DOMAIN undo[r] /\ table[s.id] # Absent
StepsReady(r) == \A i \in 1 .. Len(todo[r]) : Ready(r, todo[r][i])

\* With a related row that was changed its order is locked.
OrdersLocked(r) ==
  \A k \in Keys \ Orders :
    k \in DOMAIN undo[r] /\ table[k] # Absent /\ table[k] # undo[r][k] =>
      table[k].parent \in DOMAIN undo[r]

\* Request r will delete the row k if it belongs to o.
Drops(s, k, o) == s.op = "drop" /\ k \in Class(s.class) /\ o \in s.ids
Pending(r, k, o) == \E i \in 1 .. Len(todo[r]) : Drops(todo[r][i], k, o)

\* What is in the database if r commits now.
SeenBy(r, k) == IF k \in DOMAIN undo[r] THEN table[k] ELSE Committed(k)
WholeFor(r) ==
  \A k \in Keys \ Orders, o \in Orders :
    o \in DOMAIN undo[r] /\ Belongs(SeenBy(r, k), {o}) =>
      table[o] # Absent \/ o \in batched \/ Pending(r, k, o)

Tidy(r) == Sorted(r) /\ StepsReady(r) /\ OrdersLocked(r) /\ WholeFor(r)

KInv == RelatedTypes /\ NoOrphans /\ \A r \in Requests : Tidy(r)

-----------------------------------------------------------------------------
(* Lemmas.                                                                   *)

LEMMA CommittedAt ==
  ASSUME LocksApart, NEW k \in Keys
  PROVE  /\ \A q \in Requests : k \in DOMAIN undo[q] => Committed(k) = undo[q][k]
         /\ (\A q \in Requests : k \notin DOMAIN undo[q]) => Committed(k) = table[k]
BY CommittedIs, CommittedSame DEF LocksApart

LEMMA CommittedAtNext ==
  ASSUME LocksApart', NEW k \in Keys
  PROVE  /\ \A q \in Requests : k \in DOMAIN undo'[q] => Committed(k)' = undo'[q][k]
         /\ (\A q \in Requests : k \notin DOMAIN undo'[q]) => Committed(k)' = table'[k]
BY CommittedIs, CommittedSameNext DEF LocksApart

LEMMA CommittedRelated ==
  ASSUME IInv, KInv, NEW k \in Keys \ Orders
  PROVE  Committed(k) \in MaybeRelated
BY CommittedAt DEF IInv, KInv, RelatedTypes

\* A request that has not locked an order has changed none of its rows.
LEMMA SeenIsCommitted ==
  ASSUME IInv, NEW r \in Requests, OrdersLocked(r), NEW k \in Keys \ Orders,
         SeenBy(r, k) # Absent, SeenBy(r, k).parent \notin DOMAIN undo[r]
  PROVE  SeenBy(r, k) = Committed(k)
BY CommittedAt DEF IInv, OrdersLocked, SeenBy

LEMMA NoOrphansNext ==
  ASSUME \A k \in Keys \ Orders : \A c :
           c = CommittedIn(table', undo', k) /\ c # Absent =>
             CommittedIn(table', undo', c.parent) # Absent \/ c.parent \in batched'
  PROVE  NoOrphans'
BY DEF NoOrphans, Committed, CommittedIn

\* A request whose rows, locks and steps nobody touches stays tidy.
LEMMA OthersTidy ==
  ASSUME IInv, KInv, NEW q \in Requests, undo'[q] = undo[q], todo'[q] = todo[q],
         \A x \in Keys : x \in DOMAIN undo[q] => table'[x] = table[x],
         \A k \in Keys \ Orders : k \notin DOMAIN undo[q] =>
           \/ Committed(k)' = Committed(k)
           \/ \A o \in Orders : o \in DOMAIN undo[q] => ~Belongs(Committed(k)', {o}),
         batched \subseteq batched'
  PROVE  Tidy(q)'
<1>1. Tidy(q) /\ Orders \subseteq Keys
  BY DEF KInv, Keys
<1>2. Sorted(q)'
  BY <1>1 DEF Tidy, Sorted
<1>3. StepsReady(q)'
  <2>. SUFFICES ASSUME NEW i \in 1 .. Len(todo'[q]), todo'[q][i].op \in {"fields", "insert"}
                PROVE  todo'[q][i].id \in DOMAIN undo'[q] /\ table'[todo'[q][i].id] # Absent
    BY DEF StepsReady, Ready
  <2>1. i \in 1 .. Len(todo[q]) /\ todo[q][i] = todo'[q][i]
    OBVIOUS
  <2>2. todo[q][i].id \in DOMAIN undo[q] /\ table[todo[q][i].id] # Absent
    BY <1>1, <2>1 DEF Tidy, StepsReady, Ready
  <2>3. DOMAIN undo[q] \subseteq Keys
    BY DEF IInv, Types
  <2>. QED  BY <2>1, <2>2, <2>3
<1>4. OrdersLocked(q)'
  BY <1>1 DEF Tidy, OrdersLocked
<1>5. WholeFor(q)'
  <2>. SUFFICES ASSUME NEW k \in Keys \ Orders, NEW o \in Orders,
                       o \in DOMAIN undo'[q], Belongs(SeenBy(q, k)', {o})
                PROVE  table'[o] # Absent \/ o \in batched' \/ Pending(q, k, o)'
    BY DEF WholeFor
  <2>1. SeenBy(q, k)' = SeenBy(q, k)
    BY DEF SeenBy
  <2>2. table[o] # Absent \/ o \in batched \/ Pending(q, k, o)
    BY <1>1, <2>1 DEF Tidy, WholeFor
  <2>3. Pending(q, k, o) => Pending(q, k, o)'
    BY DEF Pending
  <2>. QED  BY <1>1, <2>2, <2>3
<1>. QED  BY <1>2, <1>3, <1>4, <1>5 DEF Tidy

\* Nothing is committed and no lock is taken or released.
LEMMA NothingWritten ==
  ASSUME KInv, UNCHANGED <<table, undo>>, batched \subseteq batched'
  PROVE  /\ RelatedTypes' /\ NoOrphans' /\ \A x : Committed(x)' = Committed(x)
<1>1. \A x : Committed(x)' = Committed(x)
  BY DEF Committed
<1>2. RelatedTypes'
  BY DEF KInv, RelatedTypes
<1>3. NoOrphans'
  BY <1>1 DEF KInv, NoOrphans
<1>. QED  BY <1>1, <1>2, <1>3

\* The steps of a request, one by one.
LEMMA ContinueAt ==
  ASSUME todo \in [Requests -> Seq(AnyStep)], NEW r \in Requests, todo[r] # <<>>,
         NEW steps \in Seq(AnyStep), Continue(r, steps)
  PROVE  \E n, m \in Nat :
           /\ n = Len(steps) /\ m = Len(todo[r]) /\ m > 0 /\ Len(todo'[r]) = n + m - 1
           /\ \A i \in 1 .. n : todo'[r][i] = steps[i]
           /\ \A i \in 2 .. m : todo'[r][n + i - 1] = todo[r][i]
<1>. DEFINE old == todo[r]  rest == Tail(old)  n == Len(steps)  m == Len(old)
<1>1. old \in Seq(AnyStep) /\ old # <<>>
  OBVIOUS
<1>2. rest \in Seq(AnyStep) /\ Len(rest) = m - 1 /\ m \in Nat /\ m > 0
  BY <1>1
<1>3. \A i \in 1 .. Len(rest) : rest[i] = old[i + 1]
  BY <1>1
<1>4. todo' = [todo EXCEPT ![r] = steps \o rest]
  BY DEF Continue
<1>. HIDE DEF rest
<1>5. todo'[r] = steps \o rest
  BY <1>2, <1>4
<1>6. Len(steps \o rest) = n + Len(rest) /\ n \in Nat /\ Len(rest) \in Nat
  BY <1>2, ConcatProperties, LenProperties
<1>7. \A i \in 1 .. Len(steps \o rest) :
        (steps \o rest)[i] = IF i <= Len(steps) THEN steps[i] ELSE rest[i - Len(steps)]
  BY <1>2, ConcatProperties
<1>. DEFINE k == Len(rest)  new == todo'[r]
<1>8. Len(new) = n + k /\ \A i \in 1 .. n + k : new[i] = IF i <= n THEN steps[i] ELSE rest[i - n]
  BY <1>5, <1>6, <1>7
<1>9. k = m - 1 /\ m \in Nat /\ m > 0 /\ n \in Nat /\ k \in Nat /\ \A i \in 1 .. k : rest[i] = old[i + 1]
  BY <1>2, <1>3, <1>6
<1>. HIDE DEF n, m, k, new, old
<1>10. Len(new) = n + m - 1
  BY <1>8, <1>9
<1>11. \A i \in 1 .. n : new[i] = steps[i]
  BY <1>8, <1>9
<1>12. ASSUME NEW i \in 2 .. m PROVE new[n + i - 1] = old[i]
  <2>. DEFINE j == n + i - 1
  <2>1. i - 1 \in 1 .. k /\ j \in 1 .. n + k /\ ~(j <= n) /\ j - n = i - 1 /\ i - 1 + 1 = i
    BY <1>9
  <2>. HIDE DEF j
  <2>2. new[j] = rest[j - n]
    BY <1>8, <2>1
  <2>3. new[j] = old[i]
    BY <1>9, <2>1, <2>2
  <2>. QED  BY <2>3 DEF j
<1>. QED  BY <1>9, <1>10, <1>11, <1>12 DEF n, m, new, old

\* New steps that finish the row at work, or that replace the last step but these.
Continues(r, steps) ==
  \/ \A i \in 1 .. Len(steps) : steps[i].op \in Early
  \/ Step(r).op \notin Early /\ \A i \in 1 .. Len(steps) : steps[i].op \notin Early

LEMMA SortedContinue ==
  ASSUME IInv, NEW r \in Requests, Sorted(r), todo[r] # <<>>,
         NEW steps \in Seq(AnyStep), Continue(r, steps), Continues(r, steps)
  PROVE  /\ Sorted(r)'
         /\ \A k, o : Pending(r, k, o) => Pending(r, k, o)' \/ Drops(Step(r), k, o)
         /\ \A k, o : (\E j \in 1 .. Len(steps) : Drops(steps[j], k, o)) => Pending(r, k, o)'
<1>1. todo \in [Requests -> Seq(AnyStep)]
  BY DEF IInv, Types
<1>. DEFINE new == todo'[r]  old == todo[r]
<1>2. PICK n, m \in Nat :
        /\ n = Len(steps) /\ m = Len(old) /\ m > 0 /\ Len(new) = n + m - 1
        /\ \A i \in 1 .. n : new[i] = steps[i]
        /\ \A i \in 2 .. m : new[n + i - 1] = old[i]
  BY <1>1, ContinueAt
<1>3. Step(r) = old[1]
  BY <1>1 DEF Step
<1>4. \A i, j \in 1 .. m : i <= j /\ old[j].op \in Early => old[i].op \in Early
  BY <1>2 DEF Sorted
<1>5. \/ \A i \in 1 .. n : steps[i].op \in Early
      \/ old[1].op \notin Early /\ \A i \in 1 .. n : steps[i].op \notin Early
  BY <1>2, <1>3 DEF Continues
<1>. HIDE DEF new, old
<1>6. ASSUME NEW i \in 1 .. n + m - 1
      PROVE  \/ i <= n /\ new[i] = steps[i]
             \/ i > n /\ i - n + 1 \in 2 .. m /\ new[i] = old[i - n + 1]
  <2>1. CASE i <= n
    BY <1>2, <2>1
  <2>2. CASE i > n
    <3>1. i - n + 1 \in 2 .. m /\ n + (i - n + 1) - 1 = i
      BY <2>2
    <3>. QED  BY <1>2, <2>2, <3>1
  <2>. QED  BY <2>1, <2>2
<1>7. ASSUME NEW i \in 1 .. n + m - 1, NEW j \in 1 .. n + m - 1, i <= j, new[j].op \in Early
      PROVE  new[i].op \in Early
  <2>1. CASE i <= n /\ j <= n
    BY <1>5, <1>6, <1>7, <2>1
  <2>2. CASE j > n
    <3>1. j - n + 1 \in 2 .. m /\ old[j - n + 1].op \in Early
      BY <1>6, <1>7, <2>2
    <3>2. old[1].op \in Early
      BY <1>2, <1>4, <3>1
    <3>3. CASE i <= n
      <4>1. i \in 1 .. n /\ steps[i].op \in Early
        BY <1>5, <3>2, <3>3
      <4>. QED  BY <1>2, <4>1
    <3>4. CASE i > n
      <4>1. i - n + 1 \in 2 .. m /\ new[i] = old[i - n + 1] /\ i - n + 1 <= j - n + 1
        BY <1>6, <1>7, <3>4
      <4>. QED  BY <1>4, <3>1, <4>1
    <3>. QED  BY <3>3, <3>4
  <2>. QED  BY <1>7, <2>1, <2>2
<1>8. Sorted(r)'
  BY <1>2, <1>7 DEF Sorted, new
<1>9. ASSUME NEW k, NEW o, Pending(r, k, o)
      PROVE  Pending(r, k, o)' \/ Drops(Step(r), k, o)
  <2>1. PICK i \in 1 .. m : Drops(old[i], k, o)
    BY <1>2, <1>9 DEF Pending, old
  <2>2. CASE i = 1
    BY <1>3, <2>1, <2>2
  <2>3. CASE i # 1
    <3>1. i \in 2 .. m /\ n + i - 1 \in 1 .. n + m - 1
      BY <2>3
    <3>. QED  BY <1>2, <2>1, <3>1 DEF Pending, new
  <2>. QED  BY <2>2, <2>3
<1>10. ASSUME NEW k, NEW o, NEW j \in 1 .. n, Drops(steps[j], k, o)
       PROVE  Pending(r, k, o)'
  <2>1. j \in 1 .. n + m - 1
    BY <1>2
  <2>. QED  BY <1>2, <1>10, <2>1 DEF Pending, new
<1>. QED  BY <1>2, <1>8, <1>9, <1>10

LEMMA ReadyContinue ==
  ASSUME IInv, NEW r \in Requests, StepsReady(r), todo[r] # <<>>,
         NEW steps \in Seq(AnyStep), Continue(r, steps),
         \A o : o \in DOMAIN undo[r] /\ table[o] # Absent /\
           (\E i \in 1 .. Len(todo[r]) : todo[r][i].op \in {"fields", "insert"} /\ todo[r][i].id = o)
           => o \in DOMAIN undo'[r] /\ table'[o] # Absent,
         \A j \in 1 .. Len(steps) : Ready(r, steps[j])'
  PROVE  StepsReady(r)'
<1>1. \A i \in 1 .. Len(todo'[r]) :
        \/ \E j \in 1 .. Len(steps) : todo'[r][i] = steps[j]
        \/ \E j \in 1 .. Len(todo[r]) : todo'[r][i] = todo[r][j]
  BY ContinueOf DEF IInv, Types
<1>2. ASSUME NEW i \in 1 .. Len(todo'[r]), todo'[r][i].op \in {"fields", "insert"}
      PROVE  todo'[r][i].id \in DOMAIN undo'[r] /\ table'[todo'[r][i].id] # Absent
  <2>1. CASE \E j \in 1 .. Len(steps) : todo'[r][i] = steps[j]
    BY <1>2, <2>1 DEF Ready
  <2>2. CASE \E j \in 1 .. Len(todo[r]) : todo'[r][i] = todo[r][j]
    BY <1>2, <2>2 DEF StepsReady, Ready
  <2>. QED  BY <1>1, <2>1, <2>2
<1>. QED  BY <1>2 DEF StepsReady, Ready

\* A step of a transaction that writes no rows.
LEMMA ContinueTidy ==
  ASSUME IInv, KInv, NEW r \in Requests, todo[r] # <<>>, Step(r).op # "drop",
         NEW steps \in Seq(AnyStep), Continue(r, steps), Continues(r, steps),
         UNCHANGED <<table, undo, batched>>, \A j \in 1 .. Len(steps) : Ready(r, steps[j])
  PROVE  KInv'
<1>1. /\ RelatedTypes' /\ NoOrphans' /\ \A x : Committed(x)' = Committed(x)
  BY NothingWritten
<1>2. \A q \in Requests : q # r => todo'[q] = todo[q]
  BY ContinueOf DEF IInv, Types
<1>3. \A q \in Requests : q # r => Tidy(q)'
  BY <1>1, <1>2, OthersTidy
<1>4. Tidy(r)
  BY DEF KInv
<1>5. Sorted(r)' /\ \A k, o : Pending(r, k, o) => Pending(r, k, o)'
  BY <1>4, SortedContinue DEF Tidy, Drops
<1>6. \A j \in 1 .. Len(steps) : Ready(r, steps[j])'
  BY DEF Ready
<1>7. StepsReady(r)'
  BY <1>4, <1>6, ReadyContinue DEF Tidy
<1>8. OrdersLocked(r)'
  BY <1>4 DEF Tidy, OrdersLocked
<1>9. WholeFor(r)'
  BY <1>1, <1>4, <1>5 DEF Tidy, WholeFor, SeenBy
<1>. QED  BY <1>1, <1>3, <1>5, <1>7, <1>8, <1>9 DEF KInv, Tidy

\* What a statement that waits for no lock does to rows, locks and commitments.
LEMMA ExecuteIs ==
  ASSUME IInv, IInv', NEW r \in Requests, Scan(r) \subseteq Keys, ~Blocked(r),
         NEW rows, Execute(r, rows)
  PROVE  /\ \A k \in Scan(r) : table'[k] = rows[k]
         /\ \A k \in Keys : k \notin Scan(r) => table'[k] = table[k]
         /\ DOMAIN undo'[r] = DOMAIN undo[r] \cup Scan(r)
         /\ \A k \in DOMAIN undo[r] : undo'[r][k] = undo[r][k]
         /\ \A k \in Scan(r) : k \notin DOMAIN undo[r] => undo'[r][k] = table[k]
         /\ \A q \in Requests : q # r => undo'[q] = undo[q]
         /\ \A q \in Requests : q # r => \A k \in DOMAIN undo[q] : k \notin Scan(r)
         /\ \A k \in Keys : Committed(k)' = Committed(k)
         /\ \A k \in Scan(r) : k \notin DOMAIN undo[r] => Committed(k) = table[k]
<1>. DEFINE scan == Scan(r)
<1>. HIDE DEF scan
<1>1. scan \subseteq Keys /\ \A q \in Requests : \A k \in scan : k \in DOMAIN undo[q] => q = r
  BY DEF Blocked, Locked, scan
<1>2. /\ table' = [k \in Keys |-> IF k \in scan THEN rows[k] ELSE table[k]]
      /\ undo' = [undo EXCEPT ![r] = [k \in DOMAIN undo[r] \cup scan |->
                                        IF k \in DOMAIN undo[r] THEN undo[r][k] ELSE table[k]]]
  BY DEF Execute, scan
<1>3. DOMAIN undo = Requests
  BY DEF IInv, Types
<1>4. /\ DOMAIN undo'[r] = DOMAIN undo[r] \cup scan
      /\ \A k \in DOMAIN undo[r] : undo'[r][k] = undo[r][k]
      /\ \A k \in scan : k \notin DOMAIN undo[r] => undo'[r][k] = table[k]
      /\ \A q \in Requests : q # r => undo'[q] = undo[q]
  BY <1>2, <1>3
<1>5. /\ \A k \in Keys : k \in scan => table'[k] = rows[k]
      /\ \A k \in Keys : k \notin scan => table'[k] = table[k]
  BY <1>2
<1>6. ASSUME NEW o \in Keys
      PROVE  /\ Committed(o)' = Committed(o)
             /\ o \in scan /\ o \notin DOMAIN undo[r] => Committed(o) = table[o]
  <2>1. /\ \A q \in Requests : o \in DOMAIN undo[q] => Committed(o) = undo[q][o]
        /\ (\A q \in Requests : o \notin DOMAIN undo[q]) => Committed(o) = table[o]
    BY CommittedAt DEF IInv
  <2>2. /\ \A q \in Requests : o \in DOMAIN undo'[q] => Committed(o)' = undo'[q][o]
        /\ (\A q \in Requests : o \notin DOMAIN undo'[q]) => Committed(o)' = table'[o]
    BY CommittedAtNext DEF IInv
  <2>3. CASE \E q \in Requests : o \in DOMAIN undo[q]
    BY <1>1, <1>4, <2>1, <2>2, <2>3
  <2>4. CASE (\A q \in Requests : o \notin DOMAIN undo[q]) /\ o \in scan
    BY <1>4, <2>1, <2>2, <2>4
  <2>5. CASE (\A q \in Requests : o \notin DOMAIN undo[q]) /\ o \notin scan
    <3>1. \A q \in Requests : o \notin DOMAIN undo'[q]
      BY <1>4, <2>5
    <3>. QED  BY <1>5, <2>1, <2>2, <2>5, <3>1
  <2>. QED  BY <2>3, <2>4, <2>5
<1>. QED  BY <1>1, <1>4, <1>5, <1>6 DEF scan

\* What a statement leaves as it was, whichever rows it writes.
LEMMA ExecuteOthers ==
  ASSUME IInv, IInv', KInv, NEW r \in Requests, todo[r] # <<>>, Scan(r) \subseteq Keys,
         ~Blocked(r), NEW rows, Execute(r, rows), NEW steps \in Seq(AnyStep), Continue(r, steps),
         batched \subseteq batched',
         \A k \in Scan(r) \ Orders : rows[k] \in MaybeRelated
  PROVE  RelatedTypes' /\ NoOrphans' /\ \A q \in Requests : q # r => Tidy(q)'
<1>1. /\ \A k \in Scan(r) : table'[k] = rows[k]
      /\ \A k \in Keys : k \notin Scan(r) => table'[k] = table[k]
      /\ \A k \in DOMAIN undo[r] : undo'[r][k] = undo[r][k]
      /\ DOMAIN undo'[r] = DOMAIN undo[r] \cup Scan(r)
      /\ \A q \in Requests : q # r => undo'[q] = undo[q]
      /\ \A q \in Requests : q # r => \A k \in DOMAIN undo[q] : k \notin Scan(r)
      /\ \A k \in Keys : Committed(k)' = Committed(k)
  BY ExecuteIs
<1>2. \A k \in Keys \ Orders : table'[k] \in MaybeRelated
  BY <1>1 DEF KInv, RelatedTypes
<1>3. \A k \in Keys \ Orders, q \in Requests : k \in DOMAIN undo'[q] => undo'[q][k] \in MaybeRelated
  <2>. SUFFICES ASSUME NEW k \in Keys \ Orders, NEW q \in Requests, k \in DOMAIN undo'[q]
                PROVE  undo'[q][k] \in MaybeRelated
    OBVIOUS
  <2>1. CASE q # r
    BY <1>1, <2>1 DEF KInv, RelatedTypes
  <2>2. CASE q = r /\ k \in DOMAIN undo[r]
    BY <1>1, <2>2 DEF KInv, RelatedTypes
  <2>3. CASE q = r /\ k \notin DOMAIN undo[r]
    <3>1. Committed(k)' = Committed(k) /\ Committed(k)' = undo'[r][k]
      BY <1>1, <2>3, CommittedAtNext DEF IInv
    <3>. QED  BY <2>3, <3>1, CommittedRelated
  <2>. QED  BY <2>1, <2>2, <2>3
<1>4. NoOrphans'
  <2>1. \A k \in Keys : CommittedIn(table', undo', k) = Committed(k)
    BY <1>1, CommittedSameNext
  <2>2. ASSUME NEW k \in Keys \ Orders, NEW c, c = CommittedIn(table', undo', k), c # Absent
        PROVE  CommittedIn(table', undo', c.parent) # Absent \/ c.parent \in batched'
    <3>1. c = Committed(k)
      BY <2>1, <2>2
    <3>2. c.parent \in Orders /\ Orders \subseteq Keys
      BY <2>2, <3>1, CommittedRelated DEF MaybeRelated, RelatedRow, Keys
    <3>3. Committed(c.parent) # Absent \/ c.parent \in batched
      BY <2>2, <3>1 DEF KInv, NoOrphans
    <3>. QED  BY <2>1, <3>2, <3>3
  <2>. QED  BY <2>2, NoOrphansNext
<1>5. ASSUME NEW q \in Requests, q # r PROVE Tidy(q)'
  <2>1. todo'[q] = todo[q]
    BY <1>5, ContinueOf DEF IInv, Types
  <2>. QED  BY <1>1, <1>5, <2>1, OthersTidy
<1>. QED  BY <1>2, <1>3, <1>4, <1>5 DEF RelatedTypes

\* A statement on orders: a row that disappears is one of a batch delete, or
\* what is related to it will be deleted by the same transaction.
LEMMA OrdersStatement ==
  ASSUME IInv, IInv', KInv, NEW r \in Requests, todo[r] # <<>>, Scan(r) \subseteq Orders,
         ~Blocked(r), NEW rows, Execute(r, rows), NEW steps \in Seq(AnyStep),
         Continue(r, steps), Continues(r, steps), Step(r).op \notin Early,
         batched \subseteq batched',
         \A o \in Scan(r) :
           \/ rows[o] # Absent \/ rows[o] = table[o] \/ o \in batched'
           \/ \A k \in Keys \ Orders : \E j \in 1 .. Len(steps) : Drops(steps[j], k, o),
         \A j \in 1 .. Len(steps) :
           /\ steps[j].op # "insert"
           /\ steps[j].op = "fields" => steps[j].id \in Scan(r) /\ rows[steps[j].id] # Absent
  PROVE  KInv'
<1>1. /\ \A k \in Scan(r) : table'[k] = rows[k]
      /\ \A k \in Keys : k \notin Scan(r) => table'[k] = table[k]
      /\ DOMAIN undo'[r] = DOMAIN undo[r] \cup Scan(r)
      /\ \A k \in DOMAIN undo[r] : undo'[r][k] = undo[r][k]
      /\ \A k \in Keys : Committed(k)' = Committed(k)
      /\ \A k \in Scan(r) : k \notin DOMAIN undo[r] => Committed(k) = table[k]
      /\ Orders \subseteq Keys /\ Scan(r) \subseteq Keys
  <2>1. Orders \subseteq Keys /\ Scan(r) \subseteq Keys
    BY DEF Keys
  <2>. QED  BY <2>1, ExecuteIs
<1>2. RelatedTypes' /\ NoOrphans' /\ \A q \in Requests : q # r => Tidy(q)'
  BY <1>1, ExecuteOthers
<1>3. Tidy(r)
  BY DEF KInv
<1>4. /\ Sorted(r)'
      /\ \A k, o : Pending(r, k, o) => Pending(r, k, o)'
      /\ \A k, o : (\E j \in 1 .. Len(steps) : Drops(steps[j], k, o)) => Pending(r, k, o)'
  BY <1>3, SortedContinue DEF Tidy, Drops, Early
<1>5. StepsReady(r)'
  <2>1. Step(r) = todo[r][1] /\ 1 \in 1 .. Len(todo[r])
    BY DEF Step, IInv, Types
  <2>2. \A i \in 1 .. Len(todo[r]) : 1 <= i
    OBVIOUS
  <2>3. \A i \in 1 .. Len(todo[r]) : todo[r][i].op \notin Early
    BY <1>3, <2>1, <2>2 DEF Tidy, Sorted
  <2>4. \A i \in 1 .. Len(todo[r]) : todo[r][i].op \notin {"fields", "insert"}
    BY <2>3 DEF Early
  <2>5. \A j \in 1 .. Len(steps) : Ready(r, steps[j])'
    BY <1>1 DEF Ready
  <2>. QED  BY <1>3, <2>4, <2>5, ReadyContinue DEF Tidy
<1>6. OrdersLocked(r)'
  BY <1>1, <1>3 DEF Tidy, OrdersLocked
<1>7. WholeFor(r)'
  <2>. SUFFICES ASSUME NEW k \in Keys \ Orders, NEW o \in Orders,
                       o \in DOMAIN undo'[r], Belongs(SeenBy(r, k)', {o})
                PROVE  table'[o] # Absent \/ o \in batched' \/ Pending(r, k, o)'
    BY DEF WholeFor
  <2>1. SeenBy(r, k)' = SeenBy(r, k)
    BY <1>1 DEF SeenBy
  <2>2. Belongs(SeenBy(r, k), {o})
    BY <2>1
  <2>3. table[o] # Absent \/ o \in batched \/ Pending(r, k, o)
    <3>1. CASE o \in DOMAIN undo[r]
      BY <1>3, <2>2, <3>1 DEF Tidy, WholeFor
    <3>2. CASE o \notin DOMAIN undo[r]
      <4>1. SeenBy(r, k) = Committed(k)
        BY <1>3, <2>2, <3>2, SeenIsCommitted DEF Tidy, Belongs
      <4>2. Committed(k) # Absent /\ Committed(k).parent = o
        BY <2>2, <4>1 DEF Belongs
      <4>3. Committed(o) # Absent \/ o \in batched
        BY <4>2 DEF KInv, NoOrphans
      <4>. QED  BY <1>1, <3>2, <4>3
    <3>. QED  BY <3>1, <3>2
  <2>. QED  BY <1>1, <1>4, <2>3
<1>. QED  BY <1>2, <1>4, <1>5, <1>6, <1>7 DEF KInv, Tidy

\* A statement on related rows adds a row to an order that is there, keeps
\* rows as they are, or deletes rows, those at least that it has to drop.
LEMMA RelatedStatement ==
  ASSUME IInv, IInv', KInv, NEW r \in Requests, todo[r] # <<>>, Scan(r) \subseteq Keys \ Orders,
         ~Blocked(r), NEW rows, Execute(r, rows), Continue(r, <<>>), batched' = batched,
         \A k \in Scan(r) :
           \/ rows[k] = Absent \/ rows[k] = table[k]
           \/ /\ rows[k] \in RelatedRow /\ rows[k].parent \in DOMAIN undo[r]
              /\ table[rows[k].parent] # Absent,
         \A k \in Keys \ Orders, o \in Orders :
           Drops(Step(r), k, o) /\ Belongs(SeenBy(r, k), {o}) => k \in Scan(r) /\ rows[k] = Absent
  PROVE  KInv'
<1>1. /\ \A k \in Scan(r) : table'[k] = rows[k]
      /\ \A k \in Keys : k \notin Scan(r) => table'[k] = table[k]
      /\ DOMAIN undo'[r] = DOMAIN undo[r] \cup Scan(r)
      /\ \A k \in DOMAIN undo[r] : undo'[r][k] = undo[r][k]
      /\ \A k \in Scan(r) : k \notin DOMAIN undo[r] => undo'[r][k] = table[k] /\ Committed(k) = table[k]
      /\ \A k \in Keys : Committed(k)' = Committed(k)
      /\ Orders \subseteq Keys /\ Scan(r) \subseteq Keys
  <2>1. Orders \subseteq Keys /\ Scan(r) \subseteq Keys
    BY DEF Keys
  <2>. QED  BY <2>1, ExecuteIs
<1>2. <<>> \in Seq(AnyStep) /\ Continues(r, <<>>) /\ Len(<<>>) = 0
  BY DEF Continues
<1>3. RelatedTypes' /\ NoOrphans' /\ \A q \in Requests : q # r => Tidy(q)'
  <2>1. \A k \in Scan(r) \ Orders : rows[k] \in MaybeRelated
    BY DEF MaybeRelated, KInv, RelatedTypes
  <2>. QED  BY <1>1, <1>2, <2>1, ExecuteOthers
<1>4. Tidy(r)
  BY DEF KInv
<1>5. Sorted(r)' /\ \A k, o : Pending(r, k, o) => Pending(r, k, o)' \/ Drops(Step(r), k, o)
  BY <1>2, <1>4, SortedContinue DEF Tidy
<1>6. StepsReady(r)'
  <2>1. \A o \in DOMAIN undo[r] : o \in Orders => o \in DOMAIN undo'[r] /\ table'[o] = table[o]
    BY <1>1
  <2>2. \A i \in 1 .. Len(todo[r]) : todo[r][i].op \in {"fields", "insert"} => todo[r][i].id \in Orders
    <3>1. \A i \in 1 .. Len(todo[r]) : todo[r][i] \in AnyStep
      BY DEF IInv, Types
    <3>. QED  BY <3>1 DEF AnyStep
  <2>3. \A o : o \in DOMAIN undo[r] /\ table[o] # Absent /\
          (\E i \in 1 .. Len(todo[r]) : todo[r][i].op \in {"fields", "insert"} /\ todo[r][i].id = o)
          => o \in DOMAIN undo'[r] /\ table'[o] # Absent
    BY <2>1, <2>2
  <2>4. \A j \in 1 .. Len(<<>>) : Ready(r, <<>>[j])'
    BY <1>2
  <2>. QED  BY <1>2, <1>4, <2>3, <2>4, ReadyContinue DEF Tidy
<1>7. OrdersLocked(r)'
  <2>. SUFFICES ASSUME NEW k \in Keys \ Orders, k \in DOMAIN undo'[r], table'[k] # Absent,
                       table'[k] # undo'[r][k]
                PROVE  table'[k].parent \in DOMAIN undo'[r]
    BY DEF OrdersLocked
  <2>1. CASE k \in Scan(r) /\ rows[k] # table[k]
    BY <1>1, <2>1
  <2>2. CASE k \notin Scan(r) \/ rows[k] = table[k]
    BY <1>1, <1>4, <2>2 DEF Tidy, OrdersLocked
  <2>. QED  BY <2>1, <2>2
<1>8. WholeFor(r)'
  <2>. SUFFICES ASSUME NEW k \in Keys \ Orders, NEW o \in Orders,
                       o \in DOMAIN undo'[r], Belongs(SeenBy(r, k)', {o})
                PROVE  table'[o] # Absent \/ o \in batched' \/ Pending(r, k, o)'
    BY DEF WholeFor
  <2>1. o \in DOMAIN undo[r] /\ table'[o] = table[o]
    BY <1>1
  <2>2. CASE k \in Scan(r) /\ rows[k] # table[k]
    <3>1. SeenBy(r, k)' = rows[k]
      BY <1>1, <2>2 DEF SeenBy
    <3>. QED  BY <2>1, <2>2, <3>1 DEF Belongs
  <2>3. CASE k \notin Scan(r) \/ rows[k] = table[k]
    <3>1. SeenBy(r, k)' = SeenBy(r, k) /\ (k \in Scan(r) => SeenBy(r, k)' = rows[k])
      BY <1>1, <2>3 DEF SeenBy
    <3>2. table[o] # Absent \/ o \in batched \/ Pending(r, k, o)
      BY <1>4, <2>1, <3>1 DEF Tidy, WholeFor
    <3>3. ~Drops(Step(r), k, o)
      BY <2>3, <3>1 DEF Belongs
    <3>. QED  BY <1>5, <2>1, <3>2, <3>3
  <2>. QED  BY <2>2, <2>3
<1>. QED  BY <1>3, <1>5, <1>6, <1>7, <1>8 DEF KInv, Tidy

\* What the end of a transaction commits.
LEMMA ReleaseCommits ==
  ASSUME IInv, IInv', NEW r \in Requests, Release(r), table' \in {table, RolledBack(r)}
  PROVE  /\ DOMAIN undo'[r] = {} /\ todo'[r] = <<>>
         /\ \A q \in Requests : q # r => undo'[q] = undo[q] /\ todo'[q] = todo[q]
         /\ \A k \in Keys : k \notin DOMAIN undo[r] =>
              table'[k] = table[k] /\ Committed(k)' = Committed(k)
         /\ \A k \in Keys : k \in DOMAIN undo[r] =>
              /\ table'[k] \in {table[k], undo[r][k]}
              /\ table' = RolledBack(r) => table'[k] = undo[r][k]
              /\ Committed(k)' = table'[k] /\ Committed(k) = undo[r][k]
<1>1. /\ undo' = [undo EXCEPT ![r] = <<>>] /\ todo' = [todo EXCEPT ![r] = <<>>]
      /\ DOMAIN undo = Requests /\ DOMAIN todo = Requests
  BY DEF Release, IInv, Types
<1>2. /\ DOMAIN undo'[r] = {} /\ \A q \in Requests : q # r => undo'[q] = undo[q]
      /\ todo'[r] = <<>> /\ \A q \in Requests : q # r => todo'[q] = todo[q]
  BY <1>1
<1>3. ASSUME NEW k \in Keys
      PROVE  /\ k \notin DOMAIN undo[r] => table'[k] = table[k]
             /\ k \in DOMAIN undo[r] =>
                  /\ table'[k] \in {table[k], undo[r][k]}
                  /\ table' = RolledBack(r) => table'[k] = undo[r][k]
  BY DEF RolledBack
<1>4. ASSUME NEW k \in Keys
      PROVE  /\ k \notin DOMAIN undo[r] => Committed(k)' = Committed(k)
             /\ k \in DOMAIN undo[r] => Committed(k)' = table'[k] /\ Committed(k) = undo[r][k]
  <2>1. /\ \A q \in Requests : k \in DOMAIN undo[q] => Committed(k) = undo[q][k]
        /\ (\A q \in Requests : k \notin DOMAIN undo[q]) => Committed(k) = table[k]
    BY CommittedAt DEF IInv
  <2>2. /\ \A q \in Requests : k \in DOMAIN undo'[q] => Committed(k)' = undo'[q][k]
        /\ (\A q \in Requests : k \notin DOMAIN undo'[q]) => Committed(k)' = table'[k]
    BY CommittedAtNext DEF IInv
  <2>3. CASE k \in DOMAIN undo[r]
    <3>1. \A q \in Requests : k \notin DOMAIN undo'[q]
      BY <1>2, <2>3 DEF IInv, LocksApart
    <3>. QED  BY <2>1, <2>2, <2>3, <3>1
  <2>4. CASE k \notin DOMAIN undo[r] /\ \E q \in Requests : k \in DOMAIN undo[q]
    BY <1>2, <2>1, <2>2, <2>4
  <2>5. CASE \A q \in Requests : k \notin DOMAIN undo[q]
    <3>1. \A q \in Requests : k \notin DOMAIN undo'[q]
      BY <1>2, <2>5
    <3>. QED  BY <1>3, <2>1, <2>2, <2>5, <3>1
  <2>. QED  BY <2>3, <2>4, <2>5
<1>. QED  BY <1>2, <1>3, <1>4

\* The end of a transaction.
LEMMA ReleaseTidy ==
  ASSUME IInv, IInv', KInv, NEW r \in Requests, Release(r),
         table' = RolledBack(r) \/ (table' = table /\ todo[r] = <<>>)
  PROVE  KInv'
<1>1. /\ undo' = [undo EXCEPT ![r] = <<>>] /\ todo' = [todo EXCEPT ![r] = <<>>]
      /\ batched' = batched
  BY DEF Release
<1>2. DOMAIN undo = Requests /\ DOMAIN todo = Requests /\ DOMAIN table = Keys /\ Orders \subseteq Keys
  BY DEF IInv, Types, Keys
<1>3. /\ DOMAIN undo'[r] = {} /\ \A q \in Requests : q # r => undo'[q] = undo[q]
      /\ Len(todo'[r]) = 0 /\ \A q \in Requests : q # r => todo'[q] = todo[q]
  BY <1>1, <1>2
<1>4. Tidy(r) /\ Tidy(r)'
  <2>1. 1 .. Len(todo'[r]) = {}
    BY <1>3
  <2>2. Sorted(r)' /\ StepsReady(r)'
    BY <2>1 DEF Sorted, StepsReady
  <2>3. OrdersLocked(r)' /\ WholeFor(r)'
    BY <1>3 DEF OrdersLocked, WholeFor
  <2>. QED  BY <2>2, <2>3 DEF KInv, Tidy
<1>5. ASSUME NEW k \in Keys
      PROVE  table'[k] = table[k] \/ (k \in DOMAIN undo[r] /\ table'[k] = undo[r][k])
  BY <1>2 DEF RolledBack
<1>6. RelatedTypes'
  <2>1. \A k \in Keys \ Orders : table'[k] \in MaybeRelated
    BY <1>5 DEF KInv, RelatedTypes
  <2>2. ASSUME NEW k \in Keys \ Orders, NEW q \in Requests, k \in DOMAIN undo'[q]
        PROVE  undo'[q][k] \in MaybeRelated
    <3>1. q # r /\ undo'[q] = undo[q]
      BY <1>3, <2>2
    <3>. QED  BY <2>2, <3>1 DEF KInv, RelatedTypes
  <2>. QED  BY <2>1, <2>2 DEF RelatedTypes
<1>7. ASSUME NEW k \in Keys
      PROVE  /\ k \notin DOMAIN undo[r] => Committed(k)' = Committed(k)
             /\ k \in DOMAIN undo[r] => Committed(k)' = table'[k] /\ Committed(k) = undo[r][k]
  BY ReleaseCommits
<1>8. CASE table' = RolledBack(r)
  <2>1. \A k \in Keys : Committed(k)' = Committed(k)
    BY <1>2, <1>7, <1>8 DEF RolledBack
  <2>2. NoOrphans'
    <3>1. \A k \in Keys : CommittedIn(table', undo', k) = Committed(k)
      BY <2>1, CommittedSameNext
    <3>2. ASSUME NEW k \in Keys \ Orders, NEW c, c = CommittedIn(table', undo', k), c # Absent
          PROVE  CommittedIn(table', undo', c.parent) # Absent \/ c.parent \in batched'
      <4>1. c = Committed(k)
        BY <3>1, <3>2
      <4>2. c.parent \in Orders
        BY <3>2, <4>1, CommittedRelated DEF MaybeRelated, RelatedRow
      <4>3. Committed(c.parent) # Absent \/ c.parent \in batched
        BY <3>2, <4>1 DEF KInv, NoOrphans
      <4>. QED  BY <1>1, <1>2, <3>1, <4>2, <4>3
    <3>. QED  BY <3>2, NoOrphansNext
  <2>3. ASSUME NEW q \in Requests, q # r PROVE Tidy(q)'
    <3>1. \A x \in Keys : x \in DOMAIN undo[q] => table'[x] = table[x]
      BY <1>5, <2>3 DEF IInv, LocksApart
    <3>. QED  BY <1>1, <1>3, <2>1, <2>3, <3>1, OthersTidy
  <2>. QED  BY <1>4, <1>6, <2>2, <2>3 DEF KInv
<1>9. CASE table' = table /\ todo[r] = <<>>
  <2>1. \A k \in Keys : Committed(k)' = SeenBy(r, k)
    BY <1>7, <1>9 DEF SeenBy
  <2>2. \A k, o : ~Pending(r, k, o)
    BY <1>9 DEF Pending
  <2>3. NoOrphans'
    <3>1. \A k \in Keys : CommittedIn(table', undo', k) = SeenBy(r, k)
      BY <2>1, CommittedSameNext
    <3>2. ASSUME NEW k \in Keys \ Orders, NEW c, c = CommittedIn(table', undo', k), c # Absent
          PROVE  CommittedIn(table', undo', c.parent) # Absent \/ c.parent \in batched'
      <4>1. c = SeenBy(r, k)
        BY <3>1, <3>2
      <4>2. c \in MaybeRelated
        BY <4>1, CommittedRelated DEF SeenBy, KInv, RelatedTypes
      <4>3. c.parent \in Orders
        BY <3>2, <4>2 DEF MaybeRelated, RelatedRow
      <4>4. CommittedIn(table', undo', c.parent) = SeenBy(r, c.parent)
        BY <1>2, <3>1, <4>3
      <4>5. CASE c.parent \in DOMAIN undo[r]
        <5>1. Belongs(SeenBy(r, k), {c.parent})
          BY <3>2, <4>1 DEF Belongs
        <5>2. table[c.parent] # Absent \/ c.parent \in batched
          BY <1>4, <2>2, <4>3, <4>5, <5>1 DEF Tidy, WholeFor
        <5>. QED  BY <1>1, <4>4, <4>5, <5>2 DEF SeenBy
      <4>6. CASE c.parent \notin DOMAIN undo[r]
        <5>2. c = Committed(k)
          BY <1>4, <3>2, <4>1, <4>6, SeenIsCommitted DEF Tidy
        <5>3. Committed(c.parent) # Absent \/ c.parent \in batched
          BY <3>2, <5>2 DEF KInv, NoOrphans
        <5>. QED  BY <1>1, <4>4, <4>6, <5>3 DEF SeenBy
      <4>. QED  BY <4>5, <4>6
    <3>. QED  BY <3>2, NoOrphansNext
  <2>4. ASSUME NEW q \in Requests, q # r PROVE Tidy(q)'
    <3>1. ASSUME NEW k \in Keys \ Orders, k \notin DOMAIN undo[q]
          PROVE  \/ Committed(k)' = Committed(k)
                 \/ \A o \in Orders : o \in DOMAIN undo[q] => ~Belongs(Committed(k)', {o})
      <4>1. CASE k \notin DOMAIN undo[r]
        BY <1>7, <4>1
      <4>2. CASE k \in DOMAIN undo[r]
        <5>1. Committed(k)' = table[k] /\ Committed(k) = undo[r][k]
          BY <1>7, <1>9, <4>2
        <5>2. table[k] # Absent /\ table[k] # undo[r][k] => table[k].parent \in DOMAIN undo[r]
          BY <1>4, <4>2 DEF Tidy, OrdersLocked
        <5>3. \A o \in Orders : ~(o \in DOMAIN undo[q] /\ o \in DOMAIN undo[r])
          BY <1>2, <2>4 DEF IInv, LocksApart
        <5>. QED  BY <5>1, <5>2, <5>3 DEF Belongs
      <4>. QED  BY <4>1, <4>2
    <3>. QED  BY <1>1, <1>3, <1>9, <2>4, <3>1, OthersTidy
  <2>. QED  BY <1>4, <1>6, <2>3, <2>4 DEF KInv
<1>. QED  BY <1>8, <1>9

LEMMA AbortTidy ==
  ASSUME IInv, IInv', KInv, NEW r \in Requests, Abort(r)
  PROVE  KInv'
<1>1. Release(r) /\ table' = RolledBack(r)
  BY DEF Abort
<1>. QED  BY <1>1, ReleaseTidy

-----------------------------------------------------------------------------
(* The steps requests are made of.                                           *)

\* A deleted order takes what is related to it along.
LEMMA ReleatedDrops ==
  ASSUME NEW ids \in SUBSET Orders
  PROVE  /\ \A o \in ids, k \in Keys \ Orders :
              \E j \in 1 .. Len(DeleteReleated(ids)) : Drops(DeleteReleated(ids)[j], k, o)
         /\ \A j \in 1 .. Len(DeleteReleated(ids)) :
              DeleteReleated(ids)[j].op \in {"drop", "sweep"}
<1>. DEFINE d(c) == [op |-> "drop", class |-> c, ids |-> ids]
            w == [op |-> "sweep", ids |-> ids, scan |-> {}]
            s == DeleteReleated(ids)
<1>1. s = <<d("tags"), d("children"), d("files"), w>>
  BY DEF DeleteReleated
<1>2. Len(s) = 4 /\ s[1] = d("tags") /\ s[2] = d("children") /\ s[3] = d("files") /\ s[4] = w
  BY <1>1
<1>3. \A j \in 1 .. 4 : j = 1 \/ j = 2 \/ j = 3 \/ j = 4
  OBVIOUS
<1>4. \A j \in 1 .. Len(s) : s[j].op \in {"drop", "sweep"}
  BY <1>2, <1>3
<1>5. ASSUME NEW o \in ids, NEW k \in Keys \ Orders
      PROVE  \E j \in 1 .. Len(s) : Drops(s[j], k, o)
  <2>1. k \in Class("tags") \/ k \in Class("children") \/ k \in Class("files")
    BY DEF Keys, Class
  <2>2. \A c : k \in Class(c) => Drops(d(c), k, o)
    BY DEF Drops
  <2>3. 1 \in 1 .. Len(s) /\ 2 \in 1 .. Len(s) /\ 3 \in 1 .. Len(s)
    BY <1>2
  <2>. HIDE DEF d, w, s
  <2>. QED  BY <1>2, <2>1, <2>2, <2>3
<1>. QED  BY <1>4, <1>5

\* The steps of one related field, and the rows they add.
LEMMA FieldStepsEarly ==
  ASSUME NEW u, NEW s, NEW x \in Related, x.op = "addFile" => Files \ used # {},
         NEW steps \in FieldSteps(u, s, x), NEW i \in 1 .. Len(steps)
  PROVE  /\ steps[i].op \in Early \ {"fields"}
         /\ steps[i].op = "insert" => steps[i].id = s.id
<1>. DEFINE Fine(a) == a.op \in Early \ {"fields"} /\ (a.op = "insert" => a.id = s.id)
<1>1. \A k, n : Fine(Insert(k, s.id)) /\ Fine(Write(s.id, k, n)) /\ Fine(Unlink(s.id, k, n))
  BY DEF Insert, Write, Unlink, Early
<1>2. \A k, must : Fine(Remove(k, must)) /\ Fine(Keep(k))
  BY DEF Remove, Keep, Early
<1>3. Fine(Plain("childQuery")) /\ Fine(Plain("badField"))
  BY DEF Plain, Early
<1>. HIDE DEF Fine
<1>4. ASSUME NEW a, Fine(a)
      PROVE  \/ ChildSteps(u, a) = <<a>>
             \/ \E b : Fine(b) /\ ChildSteps(u, a) = <<b, a>>
  BY <1>3 DEF ChildSteps
<1>5. FieldCase(u, s, x, steps)
  BY FieldCases
<1>6. \/ \E a : Fine(a) /\ steps = <<a>>
      \/ \E a, b : Fine(a) /\ Fine(b) /\ steps = <<a, b>>
  <2>1. CASE \E t \in Tags : \/ steps = <<Insert(<<s.id, t>>, s.id)>>
                             \/ steps = <<Remove(<<s.id, t>>, FALSE)>>
    BY <1>1, <1>2, <2>1
  <2>2. CASE \E c \in Children : \E a \in {Insert(c, s.id), Keep(c), Remove(c, TRUE)} :
               steps = ChildSteps(u, a)
    <3>1. PICK c \in Children : \E a \in {Insert(c, s.id), Keep(c), Remove(c, TRUE)} :
                                  steps = ChildSteps(u, a)
      BY <2>2
    <3>2. PICK a \in {Insert(c, s.id), Keep(c), Remove(c, TRUE)} : steps = ChildSteps(u, a)
      BY <3>1
    <3>3. Fine(a)
      BY <1>1, <1>2
    <3>. QED  BY <1>4, <3>2, <3>3
  <2>3. CASE steps = <<Insert(NextFile, s.id), Write(s.id, NextFile, "own")>>
    BY <1>1, <2>3
  <2>4. CASE \E f \in s.seen, n \in Names : \/ steps = <<Unlink(s.id, f, n), Write(s.id, f, n)>>
                                            \/ steps = <<Unlink(s.id, f, n), Remove(f, FALSE)>>
    BY <1>1, <1>2, <2>4
  <2>5. CASE steps = <<Plain("badField")>>
    BY <1>3, <2>5
  <2>. QED  BY <1>5, <2>1, <2>2, <2>3, <2>4, <2>5 DEF FieldCase
<1>7. Fine(steps[i])
  <2>1. CASE \E a : Fine(a) /\ steps = <<a>>
    BY <2>1
  <2>2. CASE \E a, b : Fine(a) /\ Fine(b) /\ steps = <<a, b>>
    <3>1. PICK a, b : Fine(a) /\ Fine(b) /\ steps = <<a, b>>
      BY <2>2
    <3>2. i = 1 \/ i = 2
      BY <3>1
    <3>. QED  BY <3>1, <3>2
  <2>. QED  BY <1>6, <2>1, <2>2
<1>. QED  BY <1>7 DEF Fine

\* A request that has just been sent has nothing to finish.
LEMMA SentLate ==
  ASSUME IInv, NEW u \in Users, NEW b \in Bodies, CanSend(u, b),
         NEW i \in 1 .. Len(Steps(u, b))
  PROVE  Steps(u, b)[i].op \notin Early
<1>. DEFINE f == FilterSteps(u)
<1>1. f \in Seq(AnyStep) /\ \A j \in 1 .. Len(f) : f[j].op \notin Early
  <2>1. f \in Seq(AnyStep)
    BY FilterStepsAre DEF StepsOf
  <2>. DEFINE s == Plain("query")
  <2>2. s.op \notin Early
    BY DEF Early, Plain
  <2>. HIDE DEF s
  <2>3. f = <<>> \/ f = <<s>>
    BY DEF FilterSteps, s
  <2>. HIDE DEF f
  <2>. QED  BY <2>1, <2>2, <2>3
<1>. HIDE DEF f
<1>2. ASSUME NEW rest \in Seq(AnyStep), \A j \in 1 .. Len(rest) : rest[j].op \notin Early,
             Steps(u, b) = f \o rest
      PROVE  Steps(u, b)[i].op \notin Early
  BY <1>1, <1>2, ConcatElements
<1>3. ASSUME NEW s \in AnyStep, s.op \notin Early, Steps(u, b) = f \o <<s>>
      PROVE  Steps(u, b)[i].op \notin Early
  <2>1. <<s>> \in Seq(AnyStep) /\ \A j \in 1 .. Len(<<s>>) : <<s>>[j] = s
    OBVIOUS
  <2>. QED  BY <1>2, <1>3, <2>1
<1>4. CASE b.op = "save" /\ b.rows \in Seq(RowBody)
  <2>. DEFINE rows == [j \in 1 .. Len(b.rows) |-> RowStep(u, b.rows[j])]
  <2>1. Len(b.rows) \in Nat /\ \A j \in 1 .. Len(b.rows) : b.rows[j] \in RowBody
    BY <1>4
  <2>2. ASSUME NEW j \in 1 .. Len(b.rows)
        PROVE  RowStep(u, b.rows[j]) \in AnyStep /\ RowStep(u, b.rows[j]).op \notin Early
    <3>1. RowStep(u, b.rows[j]) \in AnyStep
      BY <1>4, <2>2, RowStepIs
    <3>2. /\ RowStep(u, b.rows[j]).op = b.rows[j].type
          /\ b.rows[j].type \in {"create", "update", "delete", "badRow"}
      BY <2>1 DEF RowStep, RowBody, Plain
    <3>. QED  BY <3>1, <3>2 DEF Early
  <2>3. rows \in Seq(AnyStep) /\ Len(rows) = Len(b.rows)
        /\ \A j \in 1 .. Len(b.rows) : rows[j] = RowStep(u, b.rows[j])
    BY <2>1, <2>2
  <2>4. Steps(u, b) = f \o rows
    BY <1>4 DEF Steps, f
  <2>. HIDE DEF rows
  <2>. QED  BY <1>2, <2>2, <2>3, <2>4
<1>5. CASE b.op = "update" /\ b.ids \in SUBSET Orders /\ b.owner \in Users
  <2>. DEFINE s == [op |-> "updateWhere", scan |-> b.ids, owner |-> b.owner]
  <2>1. s \in AnyStep /\ s.op \notin Early
    BY <1>5 DEF AnyStep, Early
  <2>2. Steps(u, b) = f \o <<s>>
    BY <1>5 DEF Steps, f
  <2>. HIDE DEF s
  <2>. QED  BY <1>3, <2>1, <2>2
<1>6. CASE b.op = "batchDelete" /\ b.ids \in SUBSET Orders
  <2>. DEFINE s == [op |-> "deleteWhere", scan |-> b.ids]
  <2>1. s \in AnyStep /\ s.op \notin Early
    BY <1>6 DEF AnyStep, Early
  <2>2. Steps(u, b) = f \o <<s>>
    BY <1>6 DEF Steps, f
  <2>. HIDE DEF s
  <2>. QED  BY <1>3, <2>1, <2>2
<1>7. CASE /\ b.op = "delete" /\ b.ids \in SUBSET Orders /\ (u \in Filtered \/ b.all)
           /\ ~(u \in Filtered /\ b.all /\ ~b.filter)
  <2>. DEFINE s == [op |-> "select", scan |-> {}, ids |-> Asked(b)]
  <2>1. s \in AnyStep /\ s.op \notin Early
    BY <1>7 DEF AnyStep, Early, Asked
  <2>2. Steps(u, b) = f \o <<s>>
    BY <1>7 DEF Steps, f
  <2>. HIDE DEF s
  <2>. QED  BY <1>3, <2>1, <2>2
<1>10. CASE b.op = "delete" /\ u \in Filtered /\ b.all /\ ~b.filter
  <2>. DEFINE s == Plain("badFilter")
  <2>1. s \in AnyStep /\ s.op \notin Early
    BY PlainIs DEF Bad, Early
  <2>2. Steps(u, b) = f \o <<s>>
    BY <1>10 DEF Steps, f
  <2>. HIDE DEF s
  <2>. QED  BY <1>3, <2>1, <2>2
<1>8. CASE b.op = "delete" /\ b.ids \in SUBSET Orders /\ ~(u \in Filtered \/ b.all)
  <2>. DEFINE s == DeleteStep(b.ids, [o \in Orders |-> NoVersion])
  <2>1. s.op \notin Early
    BY DEF Early, DeleteStep
  <2>2. Steps(u, b) = <<s>>
    BY <1>8 DEF Steps
  <2>. HIDE DEF s
  <2>. QED  BY <2>1, <2>2
<1>9. \/ b.op = "save" /\ b.rows \in Seq(RowBody)
      \/ b.op = "update" /\ b.ids \in SUBSET Orders /\ b.owner \in Users
      \/ b.op = "batchDelete" /\ b.ids \in SUBSET Orders
      \/ b.op = "delete" /\ b.ids \in SUBSET Orders
  BY BodyIs
<1>. QED  BY <1>4, <1>5, <1>6, <1>7, <1>8, <1>9, <1>10

-----------------------------------------------------------------------------
(* The actions.                                                              *)

LEMMA InitTidy == Init => KInv
<1>. SUFFICES ASSUME Init PROVE KInv
  OBVIOUS
<1>1. /\ table = Start /\ IsTable(Start) /\ Whole(Start)
      /\ \A r \in Requests : DOMAIN undo[r] = {} /\ Len(todo[r]) = 0
  BY DataStoreAssumption DEF Init
<1>2. RelatedTypes
  BY <1>1 DEF RelatedTypes, IsTable, MaybeRelated
<1>3. \A k : Committed(k) = table[k]
  BY <1>1 DEF Committed
<1>4. NoOrphans
  BY <1>1, <1>3 DEF NoOrphans, Whole
<1>5. ASSUME NEW r \in Requests PROVE Tidy(r)
  <2>1. 1 .. Len(todo[r]) = {} /\ DOMAIN undo[r] = {}
    BY <1>1
  <2>. QED  BY <2>1 DEF Tidy, Sorted, StepsReady, OrdersLocked, WholeFor
<1>. QED  BY <1>2, <1>4, <1>5 DEF KInv

LEMMA QueryTidy ==
  ASSUME IInv, KInv, UNCHANGED <<table, undo, todo, batched>>
  PROVE  KInv'
BY NothingWritten, OthersTidy DEF KInv

LEMMA SendTidy ==
  ASSUME IInv, KInv, NEW r \in Requests, NEW u \in Users, NEW b \in Bodies, Send(r, u, b)
  PROVE  KInv'
<1>1. /\ UNCHANGED <<table, undo, batched>> /\ pc[r] = "idle" /\ CanSend(u, b)
      /\ todo' = [todo EXCEPT ![r] = Steps(u, b)]
  BY DEF Send, history
<1>2. todo'[r] = Steps(u, b) /\ \A q \in Requests : q # r => todo'[q] = todo[q]
  BY <1>1 DEF IInv, Types
<1>3. /\ RelatedTypes' /\ NoOrphans' /\ \A x : Committed(x)' = Committed(x)
  BY <1>1, NothingWritten
<1>4. \A q \in Requests : q # r => Tidy(q)'
  BY <1>1, <1>2, <1>3, OthersTidy
<1>5. DOMAIN undo'[r] = {}
  BY <1>1 DEF IInv, LocksHeld
<1>6. \A i \in 1 .. Len(todo'[r]) : todo'[r][i].op \notin Early
  BY <1>1, <1>2, SentLate
<1>7. Tidy(r)'
  BY <1>5, <1>6 DEF Tidy, Sorted, StepsReady, Ready, Early, OrdersLocked, WholeFor
<1>. QED  BY <1>3, <1>4, <1>7 DEF KInv

LEMMA CrashTidy ==
  ASSUME IInv, IInv', KInv, Crash
  PROVE  KInv'
<1>1. /\ table' = [k \in Keys |-> Committed(k)] /\ batched' = batched
      /\ undo' = [r \in Requests |-> <<>>] /\ todo' = [r \in Requests |-> <<>>]
  BY DEF Crash
<1>2. \A r \in Requests : DOMAIN undo'[r] = {} /\ 1 .. Len(todo'[r]) = {}
  BY <1>1
<1>3. \A r \in Requests : Tidy(r)'
  BY <1>2 DEF Tidy, Sorted, StepsReady, OrdersLocked, WholeFor
<1>4. RelatedTypes'
  BY <1>1, <1>2, CommittedRelated DEF RelatedTypes
<1>5. \A k \in Keys : CommittedIn(table', undo', k) = Committed(k)
  BY <1>1, <1>2 DEF CommittedIn
<1>6. ASSUME NEW k \in Keys \ Orders, NEW c, c = CommittedIn(table', undo', k), c # Absent
      PROVE  CommittedIn(table', undo', c.parent) # Absent \/ c.parent \in batched'
  <2>1. c = Committed(k)
    BY <1>5, <1>6
  <2>2. c.parent \in Orders /\ Orders \subseteq Keys
    BY <1>6, <2>1, CommittedRelated DEF MaybeRelated, RelatedRow, Keys
  <2>3. Committed(c.parent) # Absent \/ c.parent \in batched
    BY <1>6, <2>1 DEF KInv, NoOrphans
  <2>. QED  BY <1>1, <1>5, <2>2, <2>3
<1>. QED  BY <1>3, <1>4, <1>6, NoOrphansNext DEF KInv

\* Steps that write no rows.
LEMMA PlainTidy ==
  ASSUME IInv, KInv, NEW r \in Requests,
         \/ QueryFilterData(r) \/ SweepFiles(r) \/ UnlinkFile(r) \/ WriteFile(r)
         \/ WriteBreaks(r) \/ RemovalFails(r)
  PROVE  KInv'
<1>1. /\ todo[r] # <<>>
      /\ Step(r).op \in {"query", "childQuery", "sweep", "unlink", "write"}
  BY DEF QueryFilterData, SweepFiles, UnlinkFile, WriteFile, WriteBreaks, RemovalFails, Running
<1>2. \E steps \in {<<>>, <<Plain("fail")>>} :
        Continue(r, steps) /\ UNCHANGED <<table, undo, batched>>
  BY FileStepIs DEF QueryFilterData, OnDisk, history
<1>3. PICK steps \in {<<>>, <<Plain("fail")>>} :
        Continue(r, steps) /\ UNCHANGED <<table, undo, batched>>
  BY <1>2
<1>. DEFINE s == Plain("fail")
<1>4. s.op = "fail" /\ steps \in Seq(AnyStep)
  <2>1. s.op = "fail"
    BY DEF Plain
  <2>. QED  BY <2>1, FailStepIs
<1>. HIDE DEF s
<1>5. \A j \in 1 .. Len(steps) : steps[j] = s
  BY DEF s
<1>6. Continues(r, steps) /\ \A j \in 1 .. Len(steps) : Ready(r, steps[j])
  BY <1>4, <1>5 DEF Continues, Early, Ready
<1>. QED  BY <1>1, <1>3, <1>4, <1>6, ContinueTidy

LEMMA GetPermissionIdsTidy ==
  ASSUME IInv, IInv', KInv, NEW r \in Requests, GetPermissionIds(r)
  PROVE  KInv'
<1>1. todo[r] # <<>> /\ Step(r).op = "select"
  BY DEF GetPermissionIds, Running
<1>2. CASE Abort(r)
  BY <1>2, AbortTidy
<1>3. CASE Continue(r, <<SelectedStep(r)>>) /\ UNCHANGED <<table, undo, batched>>
  <2>. DEFINE s == SelectedStep(r)
  <2>1. <<s>> \in Seq(AnyStep) /\ s.op = "deleteIds"
    BY <1>1, SelectedStepIs DEF NewSteps, StepsOf
  <2>. HIDE DEF s
  <2>2. Len(<<s>>) = 1 /\ \A j \in 1 .. Len(<<s>>) : <<s>>[j] = s
    OBVIOUS
  <2>3. Continues(r, <<s>>) /\ \A j \in 1 .. Len(<<s>>) : Ready(r, <<s>>[j])
    BY <1>1, <2>1, <2>2 DEF Continues, Early, Ready
  <2>4. Continue(r, <<s>>)
    BY <1>3 DEF s
  <2>. QED  BY <1>1, <1>3, <2>1, <2>3, <2>4, ContinueTidy
<1>. QED  BY <1>2, <1>3 DEF GetPermissionIds, SelectedStep, history

LEMMA SaveRelatedFieldTidy ==
  ASSUME IInv, KInv, NEW r \in Requests, SaveRelatedField(r)
  PROVE  KInv'
<1>. DEFINE s == Step(r)
<1>1. /\ todo[r] # <<>> /\ s.op = "fields" /\ UNCHANGED <<table, undo, batched>>
  BY DEF SaveRelatedField, Running, history
<1>2. s \in AnyStep /\ s = todo[r][1] /\ 1 \in 1 .. Len(todo[r])
  BY <1>1, StepIs DEF IInv, Types, Step
<1>3. s.id \in Orders /\ s.rel \in SUBSET Related /\ s.seen \in SUBSET Files
  BY <1>1, <1>2 DEF AnyStep
<1>4. s.id \in DOMAIN undo[r] /\ table[s.id] # Absent
  BY <1>1, <1>2 DEF KInv, Tidy, StepsReady, Ready
<1>5. \/ Continue(r, <<>>)
      \/ \E x \in s.rel : \E steps \in FieldSteps(user[r], s, x) :
           /\ x.op = "addFile" => Files \ used # {}
           /\ Continue(r, steps \o <<Fields(s, s.rel \ {x})>>)
  BY DEF SaveRelatedField
<1>. HIDE DEF s
<1>6. CASE Continue(r, <<>>)
  <2>1. <<>> \in Seq(AnyStep) /\ Continues(r, <<>>) /\ \A j \in 1 .. Len(<<>>) : Ready(r, <<>>[j])
    BY DEF Continues
  <2>. QED  BY <1>1, <1>6, <2>1, ContinueTidy DEF s
<1>7. ASSUME NEW x \in s.rel, NEW steps \in FieldSteps(user[r], s, x),
             x.op = "addFile" => Files \ used # {},
             Continue(r, steps \o <<Fields(s, s.rel \ {x})>>)
      PROVE  KInv'
  <2>. DEFINE f == Fields(s, s.rel \ {x})
  <2>1. x \in Related /\ s.rel \ {x} \in SUBSET Related
    BY <1>3
  <2>2. steps \in Seq(AnyStep) /\ <<f>> \in Seq(AnyStep)
    BY <1>3, <1>7, <2>1, FieldStepsAre, FieldsIs DEF StepsOf
  <2>3. f.op = "fields" /\ f.id = s.id
    BY DEF Fields
  <2>4. Continue(r, steps \o <<f>>)
    BY <1>7
  <2>. HIDE DEF f
  <2>5. \A j \in 1 .. Len(<<f>>) : <<f>>[j] = f
    OBVIOUS
  <2>. DEFINE all == steps \o <<f>>
  <2>6. all \in Seq(AnyStep) /\ \A j \in 1 .. Len(all) : all[j] = f \/ \E i \in 1 .. Len(steps) : all[j] = steps[i]
    BY <2>2, <2>5, ConcatElements
  <2>. HIDE DEF all
  <2>7. ASSUME NEW j \in 1 .. Len(all) PROVE all[j].op \in Early /\ Ready(r, all[j])
    <3>1. CASE all[j] = f
      BY <1>4, <2>3, <3>1 DEF Early, Ready
    <3>2. CASE \E i \in 1 .. Len(steps) : all[j] = steps[i]
      <4>1. all[j].op \in Early \ {"fields"} /\ (all[j].op = "insert" => all[j].id = s.id)
        BY <1>7, <2>1, <3>2, FieldStepsEarly
      <4>. QED  BY <1>4, <4>1 DEF Early, Ready
    <3>. QED  BY <2>6, <3>1, <3>2
  <2>8. Continues(r, all)
    BY <2>7 DEF Continues
  <2>. QED  BY <1>1, <2>4, <2>6, <2>7, <2>8, ContinueTidy DEF s, all
<1>. QED  BY <1>5, <1>6, <1>7

LEMMA CreateRowTidy ==
  ASSUME IInv, IInv', KInv, NEW r \in Requests, CreateRow(r)
  PROVE  KInv'
<1>. DEFINE s == Step(r)
            rows == [k \in {s.id} |-> [owner |-> s.owner, version |-> 0, born |-> num[r], stamp |-> num[r]]]
            steps == <<Fields(s, s.rel)>>
<1>1. todo[r] # <<>> /\ s.op = "create" /\ ~Blocked(r)
  BY DEF CreateRow, Running
<1>2. s \in AnyStep /\ s.scan = {s.id}
  BY <1>1, StepIs DEF NamesItself
<1>3. CASE Abort(r)
  BY <1>3, AbortTidy
<1>4. CASE Execute(r, rows) /\ Continue(r, steps) /\ UNCHANGED batched
  <2>1. /\ Scan(r) = {s.id} /\ s.id \in Orders /\ s.owner \in Users
        /\ s.rel \in SUBSET Related /\ s.seen \in SUBSET Files
    BY <1>1, <1>2, ScanIs
  <2>2. rows[s.id] \in OrderRow
    BY <2>1 DEF OrderRow, IInv, Types
  <2>3. rows[s.id] # Absent
    BY <2>2, DataStoreAssumption
  <2>4. steps \in Seq(AnyStep)
    BY <2>1, FieldsIs DEF StepsOf
  <2>5. Len(steps) = 1 /\ steps[1].op = "fields" /\ steps[1].id = s.id
    BY DEF Fields
  <2>. HIDE DEF steps, rows
  <2>6. \A j \in 1 .. Len(steps) : steps[j].op = "fields" /\ steps[j].id = s.id
    BY <2>5
  <2>7. Continues(r, steps) /\ s.op \notin Early
    BY <1>1, <2>6 DEF Continues, Early
  <2>8. \A j \in 1 .. Len(steps) :
          /\ steps[j].op # "insert"
          /\ steps[j].op = "fields" => steps[j].id \in Scan(r) /\ rows[steps[j].id] # Absent
    BY <2>1, <2>3, <2>6
  <2>9. \A o \in Scan(r) : rows[o] # Absent
    BY <2>1, <2>3
  <2>. QED  BY <1>1, <1>4, <2>1, <2>4, <2>7, <2>8, <2>9, OrdersStatement
<1>. QED  BY <1>3, <1>4 DEF CreateRow

LEMMA UpdateRowTidy ==
  ASSUME IInv, IInv', KInv, NEW r \in Requests, UpdateRow(r)
  PROVE  KInv'
<1>. DEFINE s == Step(r)
            rows == [k \in {s.id} |-> Updated(r, table[k], s.owner)]
            steps == <<Fields(s, s.rel)>>
<1>1. todo[r] # <<>> /\ s.op = "update" /\ ~Blocked(r)
  BY DEF UpdateRow, Running
<1>2. s \in AnyStep /\ s.scan = {s.id}
  BY <1>1, StepIs DEF NamesItself
<1>3. CASE Abort(r)
  BY <1>3, AbortTidy
<1>4. CASE Matches(r, s) /\ Execute(r, rows) /\ Continue(r, steps) /\ UNCHANGED batched
  <2>1. /\ Scan(r) = {s.id} /\ s.id \in Orders /\ s.owner \in Users
        /\ s.rel \in SUBSET Related /\ s.seen \in SUBSET Files
    BY <1>1, <1>2, ScanIs
  <2>2. rows[s.id] \in OrderRow
    <3>1. table[s.id] \in OrderRow
      BY <1>4, <2>1 DEF Matches, Permitted, IInv, Types, MaybeRow
    <3>. QED  BY <2>1, <3>1, UpdatedIs
  <2>3. rows[s.id] # Absent
    BY <2>2, DataStoreAssumption
  <2>4. steps \in Seq(AnyStep)
    BY <2>1, FieldsIs DEF StepsOf
  <2>5. Len(steps) = 1 /\ steps[1].op = "fields" /\ steps[1].id = s.id
    BY DEF Fields
  <2>. HIDE DEF steps, rows
  <2>6. \A j \in 1 .. Len(steps) : steps[j].op = "fields" /\ steps[j].id = s.id
    BY <2>5
  <2>7. Continues(r, steps) /\ s.op \notin Early
    BY <1>1, <2>6 DEF Continues, Early
  <2>8. \A j \in 1 .. Len(steps) :
          /\ steps[j].op # "insert"
          /\ steps[j].op = "fields" => steps[j].id \in Scan(r) /\ rows[steps[j].id] # Absent
    BY <2>1, <2>3, <2>6
  <2>9. \A o \in Scan(r) : rows[o] # Absent
    BY <2>1, <2>3
  <2>. QED  BY <1>1, <1>4, <2>1, <2>4, <2>7, <2>8, <2>9, OrdersStatement
<1>. QED  BY <1>3, <1>4 DEF UpdateRow

LEMMA DeleteRowTidy ==
  ASSUME IInv, IInv', KInv, NEW r \in Requests, DeleteRow(r)
  PROVE  KInv'
<1>. DEFINE s == Step(r)
            rows == [k \in {s.id} |-> Absent]
            steps == DeleteReleated({s.id})
<1>1. todo[r] # <<>> /\ s.op = "delete" /\ ~Blocked(r)
  BY DEF DeleteRow, Running
<1>2. s \in AnyStep /\ s.scan = {s.id}
  BY <1>1, StepIs DEF NamesItself
<1>3. CASE Abort(r)
  BY <1>3, AbortTidy
<1>4. CASE Execute(r, rows) /\ Continue(r, steps) /\ UNCHANGED batched
  <2>1. Scan(r) = {s.id} /\ s.id \in Orders
    BY <1>1, <1>2, ScanIs
  <2>2. steps \in Seq(AnyStep)
    BY <2>1, ReleatedSteps DEF StepsOf
  <2>3. /\ \A o \in Scan(r), k \in Keys \ Orders : \E j \in 1 .. Len(steps) : Drops(steps[j], k, o)
        /\ \A j \in 1 .. Len(steps) : steps[j].op \in {"drop", "sweep"}
    BY <2>1, ReleatedDrops
  <2>. HIDE DEF steps, rows
  <2>4. Continues(r, steps) /\ s.op \notin Early
    BY <1>1, <2>3 DEF Continues, Early
  <2>5. \A j \in 1 .. Len(steps) : steps[j].op # "insert" /\ steps[j].op # "fields"
    BY <2>3
  <2>. QED  BY <1>1, <1>4, <2>1, <2>2, <2>3, <2>4, <2>5, OrdersStatement
<1>. QED  BY <1>3, <1>4 DEF DeleteRow

LEMMA DeleteIdsTidy ==
  ASSUME IInv, IInv', KInv, NEW r \in Requests, DeleteIds(r)
  PROVE  KInv'
<1>. DEFINE ids == Step(r).scan
            rows == [k \in ids |-> Absent]
            steps == DeleteReleated(ids)
<1>1. /\ todo[r] # <<>> /\ ~Blocked(r) /\ Step(r).op = "deleteIds"
      /\ Execute(r, rows) /\ Continue(r, steps) /\ UNCHANGED batched
  BY DEF DeleteIds, Running
<1>2. Scan(r) = ids /\ ids \subseteq Orders
  BY <1>1, StepIs, ScanIs
<1>3. steps \in Seq(AnyStep)
  BY <1>2, ReleatedSteps DEF StepsOf
<1>4. /\ \A o \in Scan(r), k \in Keys \ Orders : \E j \in 1 .. Len(steps) : Drops(steps[j], k, o)
      /\ \A j \in 1 .. Len(steps) : steps[j].op \in {"drop", "sweep"}
  BY <1>2, ReleatedDrops
<1>. HIDE DEF steps, rows
<1>5. Continues(r, steps) /\ Step(r).op \notin Early
  BY <1>1, <1>4 DEF Continues, Early
<1>6. \A j \in 1 .. Len(steps) : steps[j].op # "insert" /\ steps[j].op # "fields"
  BY <1>4
<1>. QED  BY <1>1, <1>2, <1>3, <1>4, <1>5, <1>6, OrdersStatement

LEMMA UpdateWhereTidy ==
  ASSUME IInv, IInv', KInv, NEW r \in Requests, UpdateWhere(r)
  PROVE  KInv'
<1>. DEFINE s == Step(r)
            rows == [k \in s.scan |-> IF Permitted(r, table[k]) THEN Updated(r, table[k], s.owner)
                                      ELSE table[k]]
<1>1. /\ todo[r] # <<>> /\ ~Blocked(r) /\ s.op = "updateWhere"
      /\ Execute(r, rows) /\ Continue(r, <<>>) /\ UNCHANGED batched
  BY DEF UpdateWhere, Running
<1>2. Scan(r) = s.scan /\ s.scan \subseteq Orders /\ s.owner \in Users
  BY <1>1, StepIs, ScanIs
<1>3. ASSUME NEW o \in Scan(r) PROVE rows[o] # Absent \/ rows[o] = table[o]
  <2>1. CASE Permitted(r, table[o])
    <3>1. table[o] \in OrderRow
      BY <1>2, <2>1 DEF Permitted, IInv, Types, MaybeRow
    <3>2. rows[o] = Updated(r, table[o], s.owner)
      BY <1>2, <2>1
    <3>3. Updated(r, table[o], s.owner) \in OrderRow
      BY <1>2, <3>1, UpdatedIs
    <3>. QED  BY <3>2, <3>3, DataStoreAssumption
  <2>2. CASE ~Permitted(r, table[o])
    BY <1>2, <2>2
  <2>. QED  BY <2>1, <2>2
<1>4. <<>> \in Seq(AnyStep) /\ Len(<<>>) = 0 /\ Continues(r, <<>>) /\ s.op \notin Early
  BY <1>1 DEF Continues, Early
<1>. HIDE DEF rows
<1>. DEFINE none == <<>>
<1>5. \A j \in 1 .. Len(none) : FALSE
  OBVIOUS
<1>6. none \in Seq(AnyStep) /\ Continue(r, none) /\ Continues(r, none)
  BY <1>1, <1>4
<1>7. batched \subseteq batched'
  BY <1>1
<1>. HIDE DEF none
<1>. QED  BY <1>1, <1>2, <1>3, <1>4, <1>5, <1>6, <1>7, OrdersStatement

LEMMA DeleteWhereTidy ==
  ASSUME IInv, IInv', KInv, NEW r \in Requests, DeleteWhere(r)
  PROVE  KInv'
<1>. DEFINE ids == {k \in Step(r).scan : Permitted(r, table[k])}
            rows == [k \in Step(r).scan |-> IF k \in ids THEN Absent ELSE table[k]]
<1>1. /\ todo[r] # <<>> /\ ~Blocked(r) /\ Step(r).op = "deleteWhere"
      /\ Execute(r, rows) /\ Continue(r, <<>>) /\ batched' = batched \cup ids
  BY DEF DeleteWhere, Running
<1>2. Scan(r) = Step(r).scan /\ Step(r).scan \subseteq Orders
  BY <1>1, StepIs, ScanIs
<1>3. \A o \in Scan(r) : rows[o] = table[o] \/ o \in batched'
  BY <1>1, <1>2
<1>4. <<>> \in Seq(AnyStep) /\ Len(<<>>) = 0 /\ Continues(r, <<>>) /\ Step(r).op \notin Early
  BY <1>1 DEF Continues, Early
<1>. HIDE DEF rows
<1>. DEFINE none == <<>>
<1>5. \A j \in 1 .. Len(none) : FALSE
  OBVIOUS
<1>6. none \in Seq(AnyStep) /\ Continue(r, none) /\ Continues(r, none)
  BY <1>1, <1>4
<1>7. batched \subseteq batched'
  BY <1>1
<1>. HIDE DEF none
<1>. QED  BY <1>1, <1>2, <1>3, <1>4, <1>5, <1>6, <1>7, OrdersStatement

LEMMA InsertRowTidy ==
  ASSUME IInv, IInv', KInv, NEW r \in Requests, InsertRow(r)
  PROVE  KInv'
<1>. DEFINE s == Step(r)
            rows == [k \in s.scan |-> [parent |-> s.id]]
<1>1. todo[r] # <<>> /\ s.op = "insert" /\ ~Blocked(r)
  BY DEF InsertRow, Running
<1>2. s \in AnyStep /\ s = todo[r][1] /\ 1 \in 1 .. Len(todo[r])
  BY <1>1, StepIs DEF IInv, Types, Step
<1>3. CASE Abort(r)
  BY <1>3, AbortTidy
<1>4. CASE Execute(r, rows) /\ Continue(r, <<>>) /\ UNCHANGED batched
  <2>1. Scan(r) = s.scan /\ Scan(r) \subseteq Keys \ Orders /\ s.id \in Orders
    <3>1. Scan(r) = s.scan
      BY <1>1 DEF Scan
    <3>2. Scan(r) \subseteq Keys \ Orders
      BY <1>1, <1>2, ScanIs
    <3>3. s.id \in Orders
      BY <1>1, <1>2 DEF AnyStep
    <3>. QED  BY <3>1, <3>2, <3>3
  <2>2. s.id \in DOMAIN undo[r] /\ table[s.id] # Absent
    BY <1>1, <1>2 DEF KInv, Tidy, StepsReady, Ready
  <2>3. \A k \in Scan(r) : /\ rows[k] \in RelatedRow /\ rows[k].parent \in DOMAIN undo[r]
                           /\ table[rows[k].parent] # Absent
    BY <2>1, <2>2 DEF RelatedRow
  <2>4. \A k, o : ~Drops(s, k, o)
    BY <1>1 DEF Drops
  <2>. HIDE DEF rows
  <2>. QED  BY <1>1, <1>4, <2>1, <2>3, <2>4, RelatedStatement
<1>. QED  BY <1>3, <1>4 DEF InsertRow

LEMMA RemoveRowTidy ==
  ASSUME IInv, IInv', KInv, NEW r \in Requests, RemoveRow(r)
  PROVE  KInv'
<1>. DEFINE s == Step(r)
            rows == [k \in s.scan |-> Absent]
<1>1. todo[r] # <<>> /\ s.op = "remove" /\ ~Blocked(r)
  BY DEF RemoveRow, Running
<1>2. CASE Abort(r)
  BY <1>2, AbortTidy
<1>3. CASE Execute(r, rows) /\ Continue(r, <<>>) /\ UNCHANGED batched
  <2>1. Scan(r) = s.scan /\ Scan(r) \subseteq Keys \ Orders
    <3>1. Scan(r) = s.scan
      BY <1>1 DEF Scan
    <3>. QED  BY <1>1, <3>1, StepIs, ScanIs
  <2>2. \A k \in Scan(r) : rows[k] = Absent
    BY <2>1
  <2>3. \A k, o : ~Drops(s, k, o)
    BY <1>1 DEF Drops
  <2>. HIDE DEF rows
  <2>. QED  BY <1>1, <1>3, <2>1, <2>2, <2>3, RelatedStatement
<1>. QED  BY <1>2, <1>3 DEF RemoveRow

LEMMA KeepRowTidy ==
  ASSUME IInv, IInv', KInv, NEW r \in Requests, KeepRow(r)
  PROVE  KInv'
<1>. DEFINE s == Step(r)
            rows == [k \in s.scan |-> table[k]]
<1>1. todo[r] # <<>> /\ s.op = "keep" /\ ~Blocked(r)
  BY DEF KeepRow, Running
<1>2. CASE Abort(r)
  BY <1>2, AbortTidy
<1>3. CASE Execute(r, rows) /\ Continue(r, <<>>) /\ UNCHANGED batched
  <2>1. Scan(r) = s.scan /\ Scan(r) \subseteq Keys \ Orders
    <3>1. Scan(r) = s.scan
      BY <1>1 DEF Scan
    <3>. QED  BY <1>1, <3>1, StepIs, ScanIs
  <2>2. \A k \in Scan(r) : rows[k] = table[k]
    BY <2>1
  <2>3. \A k, o : ~Drops(s, k, o)
    BY <1>1 DEF Drops
  <2>. HIDE DEF rows
  <2>. QED  BY <1>1, <1>3, <2>1, <2>2, <2>3, RelatedStatement
<1>. QED  BY <1>2, <1>3 DEF KeepRow

\* A delete waits for the transactions that have changed what it is to delete.
LEMMA DropRelatedTidy ==
  ASSUME IInv, IInv', KInv, NEW r \in Requests, DropRelated(r)
  PROVE  KInv'
<1>. DEFINE s == Step(r)
            rows == [k \in Scan(r) |-> IF Belongs(table[k], s.ids) THEN Absent ELSE table[k]]
<1>1. /\ todo[r] # <<>> /\ s.op = "drop" /\ ~Blocked(r)
      /\ Execute(r, rows) /\ Continue(r, <<>>) /\ UNCHANGED batched
  BY DEF DropRelated, Running
<1>2. Scan(r) \subseteq Keys \ Orders
  BY <1>1, StepIs, ScanIs
<1>3. Scan(r) = {k \in Class(s.class) :
                   \/ Belongs(table[k], s.ids)
                   \/ \E q \in Requests \ {r} : k \in DOMAIN undo[q] /\ Belongs(undo[q][k], s.ids)}
  BY <1>1 DEF Scan
<1>4. \A k \in Scan(r), q \in Requests : k \in DOMAIN undo[q] => q = r
  BY <1>1 DEF Blocked, Locked
<1>5. \A k \in Scan(r) : rows[k] = Absent
  BY <1>3, <1>4
<1>. HIDE DEF rows
<1>6. ASSUME NEW k \in Keys \ Orders, NEW o \in Orders, Drops(s, k, o), Belongs(SeenBy(r, k), {o})
      PROVE  k \in Scan(r)
  <2>1. k \in Class(s.class) /\ Belongs(SeenBy(r, k), s.ids)
    BY <1>6 DEF Drops, Belongs
  <2>2. CASE k \in DOMAIN undo[r]
    BY <1>3, <2>1, <2>2 DEF SeenBy
  <2>3. CASE k \notin DOMAIN undo[r] /\ \E q \in Requests : k \in DOMAIN undo[q]
    <3>1. PICK q \in Requests : k \in DOMAIN undo[q]
      BY <2>3
    <3>2. Committed(k) = undo[q][k]
      BY <3>1, CommittedAt DEF IInv
    <3>. QED  BY <1>3, <2>1, <2>3, <3>1, <3>2 DEF SeenBy
  <2>4. CASE \A q \in Requests : k \notin DOMAIN undo[q]
    <3>1. Committed(k) = table[k]
      BY <2>4, CommittedAt DEF IInv
    <3>. QED  BY <1>3, <2>1, <2>4, <3>1 DEF SeenBy
  <2>. QED  BY <2>2, <2>3, <2>4
<1>. QED  BY <1>1, <1>2, <1>5, <1>6, RelatedStatement

LEMMA EndTidy ==
  ASSUME IInv, IInv', KInv, NEW r \in Requests,
         Commit(r) \/ Fail(r) \/ LockTimeout(r) \/ StepFails(r) \/ CommitFails(r)
  PROVE  KInv'
<1>1. CASE Abort(r)
  BY <1>1, AbortTidy
<1>2. CASE Release(r) /\ (table' = RolledBack(r) \/ (table' = table /\ todo[r] = <<>>))
  BY <1>2, ReleaseTidy
<1>. QED  BY <1>1, <1>2 DEF Commit, Fail, LockTimeout, StepFails, CommitFails

-----------------------------------------------------------------------------
(* The theorem.                                                              *)

LEMMA NextTidy == IInv /\ IInv' /\ KInv /\ [Next]_vars => KInv'
<1>. SUFFICES ASSUME IInv, IInv', KInv, [Next]_vars PROVE KInv'
  OBVIOUS
<1>1. ASSUME NEW u \in Users, Query(u) PROVE KInv'
  BY <1>1, QueryTidy DEF Query, history
<1>2. ASSUME NEW r \in Requests, NEW u \in Users, NEW b \in Bodies, Send(r, u, b) PROVE KInv'
  BY <1>2, SendTidy
<1>3. ASSUME NEW r \in Requests, Begin(r) PROVE KInv'
  BY <1>3, QueryTidy DEF Begin, history
<1>4. ASSUME NEW r \in Requests, Proceed(r) PROVE KInv'
  BY <1>4, PlainTidy, GetPermissionIdsTidy, CreateRowTidy, UpdateRowTidy, DeleteRowTidy,
     SaveRelatedFieldTidy, InsertRowTidy, RemoveRowTidy, KeepRowTidy, DropRelatedTidy,
     DeleteIdsTidy, UpdateWhereTidy, DeleteWhereTidy, EndTidy, QueryTidy
     DEF Proceed, Panic, history
<1>5. ASSUME NEW r \in Requests,
             LockTimeout(r) \/ StepFails(r) \/ WriteBreaks(r) \/ RemovalFails(r) \/ CommitFails(r)
      PROVE  KInv'
  BY <1>5, EndTidy, PlainTidy
<1>6. ASSUME Crash PROVE KInv'
  BY <1>6, CrashTidy
<1>7. CASE UNCHANGED vars
  BY <1>7, QueryTidy DEF vars
<1>. QED  BY <1>1, <1>2, <1>3, <1>4, <1>5, <1>6, <1>7 DEF Next

\* DeleteReleated.Execute and the fields of a save: whatever requests overlap,
\* wait, fail or are cut off, what is committed of tags, children and files
\* belongs to an order that is there, or that a batch delete has removed.
THEOREM SpecNoOrphans == Spec => []NoOrphans
<1>1. Init => KInv
  BY InitTidy
<1>2. IInv /\ IInv' /\ KInv /\ [Next]_vars => KInv'
  BY NextTidy
<1>3. KInv => NoOrphans
  BY DEF KInv
<1>. QED  BY <1>1, <1>2, <1>3, SpecIInv, PTL DEF Spec
-----------------------------------------------------------------------------
(* The files on disk and their rows.                                         *)
(*                                                                           *)
(* Every file has a home, the one order it ever belongs to; whoever touches  *)
(* the file or its row has locked its home. The row and the content change   *)
(* in two steps of one request, which follow each other: insert and write,   *)
(* unlink and write or remove, drop and sweep. Between requests they agree,  *)
(* but for the files left to chance.                                         *)

\* The content of f is on disk, under its home and the name of its row.
On(home, f) == <<home[f], f, "own">> \in disk

\* A file on disk; only files left to chance have another name than their row.
KinEntry(home, e) ==
  /\ e[2] \in used /\ e = <<home[e[2]], e[2], e[3]>> /\ e[3] \in Names
  /\ e[3] = "other" => e[2] \in torn

\* Rows, answers and contents know a file under its home only, and whoever
\* has locked or touched the file has locked its home.
Kin(home) ==
  /\ \A f \in used : home[f] \in Orders
  /\ \A f \in Files : table[f] # Absent => f \in used /\ table[f].parent = home[f]
  /\ \A u \in Users, f \in Files :
       view[u][f] # Absent => f \in used /\ view[u][f].parent = home[f]
  /\ \A r \in Requests, f \in Files : f \in DOMAIN undo[r] =>
       /\ f \in used /\ home[f] \in DOMAIN undo[r]
       /\ undo[r][f] # Absent => undo[r][f].parent = home[f]
  /\ \A e \in disk : KinEntry(home, e)
  /\ dirty \in [Requests -> SUBSET Files]
  /\ \A r \in Requests : \A f \in dirty[r] : f \in used /\ home[f] \in DOMAIN undo[r]

\* A file that no request at work has written or removed is there if its row is committed.
Settled(home) ==
  \A f \in Files \ torn :
    (\A r \in Requests : f \notin dirty[r]) => (On(home, f) <=> Committed(f) # Absent)

\* Step s of r works on files of its own order, and changes contents only of
\* orders that r has locked.
Placed(home, r, s) ==
  /\ s.op \in {"create", "update", "delete", "fields"} =>
       \A f \in s.seen : f \in used /\ home[f] = s.id
  /\ s.op = "insert" => \A f \in s.scan \cap Files : f \in used /\ home[f] = s.id
  /\ s.op = "remove" =>
       \A f \in s.scan \cap Files : f \in used /\ home[f] \in DOMAIN undo[r]
  /\ s.op \in {"write", "unlink"} =>
       s.file \in used /\ home[s.file] = s.id /\ s.id \in DOMAIN undo[r]
  /\ s.op \in {"drop", "sweep"} => s.ids \subseteq DOMAIN undo[r]

\* Steps that change one of row and content, and those that change the other.
Opens(s) ==
  \/ s.op = "insert" /\ s.scan \cap Files # {}
  \/ s.op = "unlink"
  \/ s.op = "drop" /\ s.class = "files"
Ends(s) ==
  \/ s.op = "sweep"
  \/ s.op = "remove" /\ s.scan \cap Files # {}
\* Step b may follow step a; if a leaves a file half done, b finishes it.
Joins(a, b) ==
  /\ a.op = "insert" => \A f \in a.scan \cap Files : b.op = "write" /\ b.file = f
  /\ a.op = "unlink" =>
       \/ b.op = "write" /\ b.file = a.file
       \/ b.op = "remove" /\ b.scan = {a.file}
  /\ a.op = "drop" /\ a.class = "files" => b.op = "sweep" /\ b.ids = a.ids
  /\ Ends(b) => Opens(a)
Paired(steps) ==
  \A i \in 1 .. Len(steps) :
    /\ Opens(steps[i]) => i < Len(steps)
    /\ i < Len(steps) => Joins(steps[i], steps[i + 1])

\* Step s finishes f, which may be half done until then.
Closes(home, s, f) ==
  \/ s.op = "write" /\ s.file = f
  \/ s.op = "remove" /\ f \in s.scan
  \/ s.op = "sweep" /\ home[f] \in s.ids
HalfDone(home, s, f) ==
  /\ s.op = "remove" /\ f \in s.scan => ~On(home, f)
  /\ s.op = "sweep" /\ home[f] \in s.ids => table[f] = Absent
\* The files of the orders r has locked are as their rows say, but for those
\* the next step finishes.
Due(home, r) ==
  \A f \in Files \ torn :
    /\ todo[r] # <<>> => HalfDone(home, todo[r][1], f)
    /\ home[f] \in DOMAIN undo[r] =>
         \/ On(home, f) <=> table[f] # Absent
         \/ todo[r] # <<>> /\ Closes(home, todo[r][1], f)

AtWork(home, r) ==
  /\ \A i \in 1 .. Len(todo[r]) : Placed(home, r, todo[r][i])
  /\ Paired(todo[r])
  /\ Due(home, r)

FInv(home) == Kin(home) /\ Settled(home) /\ \A r \in Requests : AtWork(home, r)
Homes == [Files -> Orders \cup {Absent}]
FileInvariant == \E home \in Homes : FInv(home)

-----------------------------------------------------------------------------
(* Lemmas.                                                                   *)

LEMMA FilesAreKeys == Files \subseteq Keys /\ Files \cap Orders = {} /\ Orders \subseteq Keys
BY DataStoreAssumption DEF Keys

LEMMA FirstStep ==
  ASSUME IInv, NEW r \in Requests, todo[r] # <<>>
  PROVE  Step(r) = todo[r][1] /\ 1 \in 1 .. Len(todo[r]) /\ Len(todo[r]) \in Nat
BY DEF IInv, Types, Step

\* What is committed of a file is known to nobody but its home.
LEMMA CommittedKin ==
  ASSUME IInv, NEW home, Kin(home), NEW f \in Files, Committed(f) # Absent
  PROVE  f \in used /\ Committed(f).parent = home[f]
<1>1. f \in Keys
  BY FilesAreKeys
<1>2. CASE \E q \in Requests : f \in DOMAIN undo[q]
  <2>1. PICK q \in Requests : f \in DOMAIN undo[q]
    BY <1>2
  <2>2. Committed(f) = undo[q][f]
    BY <1>1, <2>1, CommittedAt DEF IInv
  <2>. QED  BY <2>1, <2>2 DEF Kin
<1>3. CASE \A q \in Requests : f \notin DOMAIN undo[q]
  <2>1. Committed(f) = table[f]
    BY <1>1, <1>3, CommittedAt DEF IInv
  <2>. QED  BY <2>1 DEF Kin
<1>. QED  BY <1>2, <1>3

\* Files of orders that a request has locked are left alone by the others.
LEMMA OthersAtWork ==
  ASSUME NEW home, NEW q \in Requests, AtWork(home, q), todo[q] \in Seq(AnyStep),
         undo'[q] = undo[q], todo'[q] = todo[q], used \subseteq used', torn \subseteq torn',
         \A f \in Files \ torn' : home[f] \in DOMAIN undo[q] =>
           table'[f] = table[f] /\ (On(home, f)' <=> On(home, f))
  PROVE  AtWork(home, q)'
<1>1. \A i \in 1 .. Len(todo[q]) : Placed(home, q, todo[q][i])'
  <2>. SUFFICES ASSUME NEW i \in 1 .. Len(todo[q]) PROVE Placed(home, q, todo[q][i])'
    OBVIOUS
  <2>1. Placed(home, q, todo[q][i])
    BY DEF AtWork
  <2>. QED  BY <2>1 DEF Placed
<1>2. Paired(todo[q])'
  BY DEF AtWork
<1>3. Due(home, q)'
  <2>. SUFFICES ASSUME NEW f \in Files \ torn'
                PROVE  /\ todo[q] # <<>> => HalfDone(home, todo[q][1], f)'
                       /\ home[f] \in DOMAIN undo[q] =>
                            \/ On(home, f)' <=> table'[f] # Absent
                            \/ todo[q] # <<>> /\ Closes(home, todo[q][1], f)
    BY DEF Due, Closes
  <2>1. /\ todo[q] # <<>> => HalfDone(home, todo[q][1], f)
        /\ home[f] \in DOMAIN undo[q] =>
             \/ On(home, f) <=> table[f] # Absent
             \/ todo[q] # <<>> /\ Closes(home, todo[q][1], f)
    BY DEF AtWork, Due
  <2>2. CASE home[f] \in DOMAIN undo[q]
    BY <2>1, <2>2 DEF HalfDone
  <2>3. CASE home[f] \notin DOMAIN undo[q] /\ todo[q] # <<>>
    <3>1. Placed(home, q, todo[q][1])
      BY <2>3 DEF AtWork
    <3>. QED  BY <2>3, <3>1 DEF Placed, HalfDone
  <2>. QED  BY <2>1, <2>2, <2>3
<1>. QED  BY <1>1, <1>2, <1>3 DEF AtWork

\* The steps of a request stay paired, and its next step goes with the last one.
LEMMA PairedContinue ==
  ASSUME IInv, NEW r \in Requests, todo[r] # <<>>, Paired(todo[r]),
         NEW steps \in Seq(AnyStep), Continue(r, steps), Paired(steps),
         steps # <<>> => ~Opens(Step(r))
  PROVE  /\ Paired(todo[r])'
         /\ steps # <<>> => todo'[r] # <<>> /\ todo'[r][1] = steps[1]
         /\ steps = <<>> /\ todo'[r] # <<>> => Joins(Step(r), todo'[r][1])
         /\ todo'[r] = <<>> => ~Opens(Step(r))
<1>1. todo \in [Requests -> Seq(AnyStep)] /\ todo'[r] \in Seq(AnyStep)
  BY ContinueOf DEF IInv, Types
<1>. DEFINE new == todo'[r]  old == todo[r]
<1>2. PICK n, m \in Nat :
        /\ n = Len(steps) /\ m = Len(old) /\ m > 0 /\ Len(new) = n + m - 1
        /\ \A i \in 1 .. n : new[i] = steps[i]
        /\ \A i \in 2 .. m : new[n + i - 1] = old[i]
  BY <1>1, ContinueAt
<1>3. Step(r) = old[1]
  BY FirstStep
<1>4. (steps = <<>> <=> n = 0) /\ (new = <<>> <=> n + m - 1 = 0)
  BY <1>1, <1>2
<1>5. \A i \in 1 .. m : /\ Opens(old[i]) => i < m
                        /\ i < m => Joins(old[i], old[i + 1])
  BY <1>2 DEF Paired
<1>6. \A i \in 1 .. n : /\ Opens(steps[i]) => i < n
                        /\ i < n => Joins(steps[i], steps[i + 1])
  BY <1>2 DEF Paired
<1>7. n # 0 => ~Opens(old[1])
  BY <1>3, <1>4
<1>. HIDE DEF new, old
<1>8. ASSUME NEW i \in 1 .. n + m - 1
      PROVE  /\ Opens(new[i]) => i < n + m - 1
             /\ i < n + m - 1 => Joins(new[i], new[i + 1])
  <2>1. CASE i < n
    <3>1. i \in 1 .. n /\ i + 1 \in 1 .. n
      BY <2>1
    <3>2. new[i] = steps[i] /\ new[i + 1] = steps[i + 1]
      BY <1>2, <3>1
    <3>3. Joins(steps[i], steps[i + 1]) /\ i < n + m - 1
      BY <1>2, <1>6, <2>1, <3>1
    <3>. QED  BY <3>2, <3>3
  <2>2. CASE i = n
    <3>1. new[i] = steps[i] /\ ~Opens(steps[i]) /\ ~Opens(old[1])
      BY <1>2, <1>6, <1>7, <2>2
    <3>2. ASSUME i < n + m - 1 PROVE Joins(new[i], new[i + 1])
      <4>1. 1 \in 1 .. m /\ 1 < m /\ 2 \in 2 .. m /\ n + 2 - 1 = i + 1 /\ 1 + 1 = 2
        BY <1>2, <2>2, <3>2
      <4>2. new[i + 1] = old[2] /\ Joins(old[1], old[2])
        BY <1>2, <1>5, <4>1
      <4>3. ~Ends(old[2])
        BY <3>1, <4>2 DEF Joins
      <4>. QED  BY <3>1, <4>2, <4>3 DEF Joins, Opens
    <3>. QED  BY <3>1, <3>2
  <2>3. CASE i > n
    <3>. DEFINE j == i - n + 1
    <3>1. j \in 2 .. m /\ j \in 1 .. m /\ n + j - 1 = i /\ (i < n + m - 1 <=> j < m)
          /\ n + (j + 1) - 1 = i + 1 /\ (j < m => j + 1 \in 2 .. m)
      BY <1>2, <2>3
    <3>. HIDE DEF j
    <3>2. new[i] = old[j] /\ (j < m => new[i + 1] = old[j + 1])
      BY <1>2, <3>1
    <3>. QED  BY <1>5, <3>1, <3>2
  <2>. QED  BY <1>2, <2>1, <2>2, <2>3
<1>9. Paired(new)
  BY <1>2, <1>8 DEF Paired
<1>10. n # 0 => n + m - 1 # 0 /\ new[1] = steps[1]
  BY <1>2
<1>11. ASSUME n = 0, n + m - 1 # 0 PROVE Joins(old[1], new[1])
  <2>1. 1 \in 1 .. m /\ 1 < m /\ 2 \in 2 .. m /\ n + 2 - 1 = 1 /\ 1 + 1 = 2
    BY <1>2, <1>11
  <2>. QED  BY <1>2, <1>5, <2>1
<1>12. n + m - 1 = 0 => ~Opens(old[1])
  <2>1. 1 \in 1 .. m /\ (n + m - 1 = 0 => ~(1 < m))
    BY <1>2
  <2>. QED  BY <1>5, <2>1
<1>. QED  BY <1>3, <1>4, <1>9, <1>10, <1>11, <1>12 DEF new, old

\* The steps that were planned stay in place while no lock is released.
LEMMA PlacedContinue ==
  ASSUME IInv, NEW home, NEW r \in Requests, todo[r] # <<>>, AtWork(home, r),
         NEW steps \in Seq(AnyStep), Continue(r, steps),
         used \subseteq used', DOMAIN undo[r] \subseteq DOMAIN undo'[r],
         \A j \in 1 .. Len(steps) : Placed(home, r, steps[j])'
  PROVE  (\A i \in 1 .. Len(todo[r]) : Placed(home, r, todo[r][i]))'
<1>1. \A i \in 1 .. Len(todo'[r]) :
        \/ \E j \in 1 .. Len(steps) : todo'[r][i] = steps[j]
        \/ \E j \in 1 .. Len(todo[r]) : todo'[r][i] = todo[r][j]
  BY ContinueOf DEF IInv, Types
<1>2. ASSUME NEW s, Placed(home, r, s) PROVE Placed(home, r, s)'
  BY <1>2 DEF Placed
<1>3. \A j \in 1 .. Len(todo[r]) : Placed(home, r, todo[r][j])
  BY DEF AtWork
<1>. DEFINE P(s) == Placed(home, r, s)'
<1>4. /\ \A j \in 1 .. Len(steps) : P(steps[j])
  OBVIOUS
<1>. QED  BY <1>1, <1>2, <1>3, <1>4

\* Files stay settled if neither their rows nor their contents come or go.
LEMMA SettledKept ==
  ASSUME NEW home, Settled(home), torn \subseteq torn',
         \A f \in Files : f \notin torn' /\ (\A r \in Requests : f \notin dirty'[r]) =>
           /\ \A r \in Requests : f \notin dirty[r]
           /\ On(home, f)' <=> On(home, f)
           /\ Committed(f)' # Absent <=> Committed(f) # Absent
  PROVE  Settled(home)'
BY DEF Settled

LEMMA NotEnding ==
  ASSUME NEW s, ~Ends(s), NEW f \in Files
  PROVE  s.op # "sweep" /\ ~(s.op = "remove" /\ f \in s.scan)
<1>. DEFINE named == s.scan \cap Files
<1>1. s.op # "sweep" /\ ~(s.op = "remove" /\ named # {})
  BY DEF Ends
<1>2. f \in s.scan => f \in named
  OBVIOUS
<1>. HIDE DEF named
<1>. QED  BY <1>1, <1>2

\* A step that plans others and touches neither files nor rows.
LEMMA PlanFiles ==
  ASSUME IInv, NEW home, FInv(home), NEW r \in Requests, todo[r] # <<>>,
         Step(r).op \in {"query", "childQuery", "select", "fields"},
         NEW steps \in Seq(AnyStep), Continue(r, steps), Paired(steps),
         steps # <<>> => ~Ends(steps[1]),
         UNCHANGED <<table, undo, view, disk, dirty, torn>>, used \subseteq used',
         \A f \in used' : home[f] \in Orders,
         \A j \in 1 .. Len(steps) : Placed(home, r, steps[j])'
  PROVE  FInv(home)'
<1>1. Kin(home) /\ Settled(home) /\ AtWork(home, r)
  BY DEF FInv
<1>2. Kin(home)'
  BY <1>1 DEF Kin, KinEntry
<1>3. \A x : Committed(x)' = Committed(x)
  BY DEF Committed
<1>4. Settled(home)'
  BY <1>1, <1>3, SettledKept DEF On
<1>5. ASSUME NEW q \in Requests, q # r PROVE AtWork(home, q)'
  <2>1. AtWork(home, q) /\ todo[q] \in Seq(AnyStep) /\ todo'[q] = todo[q]
    BY <1>5, ContinueOf DEF FInv, IInv, Types
  <2>. QED  BY <2>1, OthersAtWork DEF On
<1>6. /\ Paired(todo[r])'
      /\ steps # <<>> => todo'[r] # <<>> /\ todo'[r][1] = steps[1]
      /\ steps = <<>> /\ todo'[r] # <<>> => Joins(Step(r), todo'[r][1])
  BY <1>1, PairedContinue DEF AtWork, Opens
<1>7. (\A i \in 1 .. Len(todo[r]) : Placed(home, r, todo[r][i]))'
  BY <1>1, PlacedContinue
<1>8. todo'[r] # <<>> => ~Ends(todo'[r][1])
  BY <1>6 DEF Joins, Opens
<1>9. Due(home, r)'
  <2>. SUFFICES ASSUME NEW f \in Files \ torn
                PROVE  /\ todo'[r] # <<>> => HalfDone(home, todo[r][1], f)'
                       /\ home[f] \in DOMAIN undo[r] =>
                            (On(home, f) <=> table[f] # Absent)
    BY DEF Due, On
  <2>1. todo'[r] # <<>> => HalfDone(home, todo[r][1], f)'
    BY <1>8, NotEnding DEF HalfDone
  <2>2. ~Closes(home, todo[r][1], f)
    BY FirstStep DEF Closes
  <2>3. home[f] \in DOMAIN undo[r] => (On(home, f) <=> table[f] # Absent)
    BY <1>1, <2>2 DEF AtWork, Due
  <2>. QED  BY <2>1, <2>3
<1>10. AtWork(home, r)'
  BY <1>6, <1>7, <1>9 DEF AtWork
<1>. QED  BY <1>2, <1>4, <1>5, <1>10 DEF FInv

\* When an order is locked, its files are as its rows say.
LEMMA FreshLock ==
  ASSUME IInv, NEW home, FInv(home), NEW f \in Files, f \notin torn,
         \A q \in Requests : home[f] \notin DOMAIN undo[q]
  PROVE  On(home, f) <=> table[f] # Absent
<1>1. \A q \in Requests : f \notin dirty[q] /\ f \notin DOMAIN undo[q]
  BY DEF FInv, Kin
<1>2. Committed(f) = table[f]
  BY <1>1, FilesAreKeys, CommittedAt DEF IInv
<1>. QED  BY <1>1, <1>2 DEF FInv, Settled

\* A statement on orders.
LEMMA OrdersFiles ==
  ASSUME IInv, IInv', NEW home, FInv(home), NEW r \in Requests, todo[r] # <<>>,
         Scan(r) \subseteq Orders, ~Blocked(r), NEW rows, Execute(r, rows),
         Step(r).op \notin Early, NEW steps \in Seq(AnyStep), Continue(r, steps),
         Paired(steps), steps # <<>> => ~Ends(steps[1]), UNCHANGED <<used, torn>>,
         \A j \in 1 .. Len(steps) : Placed(home, r, steps[j])'
  PROVE  FInv(home)'
<1>1. Kin(home) /\ Settled(home) /\ AtWork(home, r)
  BY DEF FInv
<1>2. /\ \A k \in Keys : k \notin Scan(r) => table'[k] = table[k]
      /\ DOMAIN undo'[r] = DOMAIN undo[r] \cup Scan(r)
      /\ \A k \in DOMAIN undo[r] : undo'[r][k] = undo[r][k]
      /\ \A q \in Requests : q # r => undo'[q] = undo[q]
      /\ \A q \in Requests : q # r => \A k \in DOMAIN undo[q] : k \notin Scan(r)
      /\ \A k \in Keys : Committed(k)' = Committed(k)
  <2>1. Scan(r) \subseteq Keys
    BY FilesAreKeys
  <2>. QED  BY <2>1, ExecuteIs
<1>3. UNCHANGED <<disk, dirty, view>>
  BY DEF Execute, clients
<1>4. \A f \in Files : /\ table'[f] = table[f] /\ Committed(f)' = Committed(f)
                       /\ \A q \in Requests : f \in DOMAIN undo'[q] => f \in DOMAIN undo[q]
  BY <1>2, FilesAreKeys
<1>5. Kin(home)'
  BY <1>1, <1>2, <1>3, <1>4 DEF Kin, KinEntry
<1>6. Settled(home)'
  BY <1>1, <1>3, <1>4, SettledKept DEF On
<1>7. ASSUME NEW q \in Requests, q # r PROVE AtWork(home, q)'
  <2>1. /\ AtWork(home, q) /\ todo[q] \in Seq(AnyStep) /\ todo'[q] = todo[q]
        /\ undo'[q] = undo[q]
    BY <1>2, <1>7, ContinueOf DEF FInv, IInv, Types
  <2>. QED  BY <1>3, <1>4, <2>1, OthersAtWork DEF On
<1>8. /\ Paired(todo[r])'
      /\ steps # <<>> => todo'[r] # <<>> /\ todo'[r][1] = steps[1]
      /\ steps = <<>> /\ todo'[r] # <<>> => Joins(Step(r), todo'[r][1])
  BY <1>1, PairedContinue DEF AtWork, Opens, Early
<1>9. (\A i \in 1 .. Len(todo[r]) : Placed(home, r, todo[r][i]))'
  BY <1>1, <1>2, PlacedContinue
<1>10. todo'[r] # <<>> => ~Ends(todo'[r][1])
  BY <1>8 DEF Joins, Opens, Early
<1>11. Due(home, r)'
  <2>. SUFFICES ASSUME NEW f \in Files \ torn
                PROVE  /\ todo'[r] # <<>> => HalfDone(home, todo[r][1], f)'
                       /\ home[f] \in DOMAIN undo'[r] =>
                            (On(home, f) <=> table[f] # Absent)
    BY <1>3, <1>4 DEF Due, On
  <2>1. todo'[r] # <<>> => HalfDone(home, todo[r][1], f)'
    BY <1>10, NotEnding DEF HalfDone
  <2>2. ~Closes(home, todo[r][1], f)
    BY FirstStep DEF Closes, Early
  <2>3. home[f] \in DOMAIN undo[r] /\ f \notin torn => (On(home, f) <=> table[f] # Absent)
    BY <1>1, <2>2 DEF AtWork, Due
  <2>4. home[f] \in Scan(r) /\ home[f] \notin DOMAIN undo[r] /\ f \notin torn =>
          (On(home, f) <=> table[f] # Absent)
    BY <1>2, FreshLock
  <2>. QED  BY <1>2, <2>1, <2>3, <2>4
<1>12. AtWork(home, r)'
  BY <1>8, <1>9, <1>11 DEF AtWork
<1>. QED  BY <1>5, <1>6, <1>7, <1>12 DEF FInv

LEMMA JoinsPlain ==
  ASSUME NEW a, ~Opens(a), NEW b, ~Ends(b)
  PROVE  Joins(a, b)
BY DEF Joins, Opens

\* Steps that have nothing to do with files need not be paired.
LEMMA PairedPlain ==
  ASSUME NEW steps \in Seq(AnyStep),
         \A i \in 1 .. Len(steps) : ~Opens(steps[i]) /\ ~Ends(steps[i])
  PROVE  Paired(steps) /\ (steps # <<>> => ~Ends(steps[1]))
<1>1. Len(steps) \in Nat /\ (steps # <<>> => 1 \in 1 .. Len(steps))
  OBVIOUS
<1>. DEFINE n == Len(steps)
<1>2. ASSUME NEW i \in 1 .. n, i < n PROVE Joins(steps[i], steps[i + 1])
  <2>. HIDE DEF n
  <2>1. n \in Nat
    BY <1>1 DEF n
  <2>2. i + 1 \in 1 .. n
    BY <1>2, <2>1
  <2>. QED  BY <2>2, JoinsPlain DEF n
<1>. QED  BY <1>1, <1>2 DEF Paired

\* The next step of a request when one of its steps is done, or has failed.
LEMMA NextStep ==
  ASSUME IInv, NEW home, NEW r \in Requests, todo[r] # <<>>, AtWork(home, r),
         NEW steps \in {<<>>, <<Plain("fail")>>}, steps # <<>> => ~Opens(Step(r)),
         Continue(r, steps), used \subseteq used', DOMAIN undo[r] \subseteq DOMAIN undo'[r]
  PROVE  /\ Paired(todo[r])'
         /\ (\A i \in 1 .. Len(todo[r]) : Placed(home, r, todo[r][i]))'
         /\ todo'[r] # <<>> => Joins(Step(r), todo'[r][1])
         /\ todo'[r] = <<>> => ~Opens(Step(r))
         /\ \A q \in Requests : q # r => todo'[q] = todo[q]
<1>. DEFINE s == Plain("fail")
<1>1. s.op = "fail"
  BY DEF Plain
<1>2. steps \in Seq(AnyStep)
  BY FailStepIs
<1>. HIDE DEF s
<1>3. \A j \in 1 .. Len(steps) : steps[j] = s
  BY DEF s
<1>4. ~Opens(s) /\ ~Ends(s) /\ Placed(home, r, s)'
  BY <1>1 DEF Opens, Ends, Placed
<1>5. Paired(steps) /\ (steps # <<>> => ~Ends(steps[1]))
  BY <1>2, <1>3, <1>4, PairedPlain
<1>6. \A j \in 1 .. Len(steps) : Placed(home, r, steps[j])'
  BY <1>3, <1>4
<1>7. Paired(todo[r])
  BY DEF AtWork
<1>8. /\ Paired(todo[r])'
      /\ steps # <<>> => todo'[r] # <<>> /\ todo'[r][1] = steps[1]
      /\ steps = <<>> /\ todo'[r] # <<>> => Joins(Step(r), todo'[r][1])
      /\ todo'[r] = <<>> => ~Opens(Step(r))
  BY <1>2, <1>5, <1>7, PairedContinue
<1>9. steps # <<>> => Joins(Step(r), todo'[r][1])
  BY <1>5, <1>8, JoinsPlain
<1>10. (\A i \in 1 .. Len(todo[r]) : Placed(home, r, todo[r][i]))'
  BY <1>2, <1>6, PlacedContinue
<1>11. \A q \in Requests : q # r => todo'[q] = todo[q]
  BY DEF Continue, IInv, Types
<1>. QED  BY <1>8, <1>9, <1>10, <1>11

\* A statement on related rows of orders that are locked.
LEMMA RelatedFiles ==
  ASSUME IInv, IInv', NEW home, FInv(home), NEW r \in Requests, todo[r] # <<>>,
         Scan(r) \subseteq Keys \ Orders, ~Blocked(r), NEW rows, Execute(r, rows),
         Continue(r, <<>>), UNCHANGED <<used, torn>>,
         \A f \in Scan(r) \cap Files :
           /\ f \in used /\ home[f] \in DOMAIN undo[r]
           /\ rows[f] # Absent => rows[f].parent = home[f],
         Due(home, r)'
  PROVE  FInv(home)'
<1>1. Kin(home) /\ Settled(home) /\ AtWork(home, r)
  BY DEF FInv
<1>2. /\ \A k \in Scan(r) : table'[k] = rows[k]
      /\ \A k \in Keys : k \notin Scan(r) => table'[k] = table[k]
      /\ DOMAIN undo'[r] = DOMAIN undo[r] \cup Scan(r)
      /\ \A k \in DOMAIN undo[r] : undo'[r][k] = undo[r][k]
      /\ \A q \in Requests : q # r => undo'[q] = undo[q]
      /\ \A k \in Keys : Committed(k)' = Committed(k)
      /\ \A k \in Scan(r) : k \notin DOMAIN undo[r] => Committed(k) = table[k]
  <2>1. Scan(r) \subseteq Keys
    OBVIOUS
  <2>. QED  BY <2>1, ExecuteIs
<1>3. UNCHANGED <<disk, dirty, view>>
  BY DEF Execute, clients
<1>4. Files \subseteq Keys
  BY FilesAreKeys
<1>5. Kin(home)'
  <2>1. \A f \in Files : table'[f] # Absent => f \in used' /\ table'[f].parent = home[f]
    BY <1>1, <1>2, <1>4 DEF Kin
  <2>2. ASSUME NEW q \in Requests, NEW f \in Files, f \in DOMAIN undo'[q]
        PROVE  /\ f \in used' /\ home[f] \in DOMAIN undo'[q]
               /\ undo'[q][f] # Absent => undo'[q][f].parent = home[f]
    <3>1. CASE q # r
      BY <1>1, <1>2, <2>2, <3>1 DEF Kin
    <3>2. CASE q = r
      <4>1. f \in used /\ home[f] \in DOMAIN undo[r]
        BY <1>1, <1>2, <2>2, <3>2 DEF Kin
      <4>2. undo'[r][f] # Absent => undo'[r][f].parent = home[f]
        <5>1. Committed(f)' = undo'[r][f]
          BY <1>4, <2>2, <3>2, CommittedAtNext DEF IInv
        <5>. QED  BY <1>1, <1>2, <1>4, <5>1, CommittedKin
      <4>. QED  BY <1>2, <3>2, <4>1, <4>2
    <3>. QED  BY <3>1, <3>2
  <2>3. \A q \in Requests : \A f \in dirty'[q] : f \in used' /\ home[f] \in DOMAIN undo'[q]
    BY <1>1, <1>2, <1>3 DEF Kin
  <2>. QED  BY <1>1, <1>3, <2>1, <2>2, <2>3 DEF Kin, KinEntry
<1>6. Settled(home)'
  BY <1>1, <1>2, <1>3, <1>4, SettledKept DEF On
<1>7. /\ Paired(todo[r])' /\ (\A i \in 1 .. Len(todo[r]) : Placed(home, r, todo[r][i]))'
      /\ \A q \in Requests : q # r => todo'[q] = todo[q]
  BY <1>1, <1>2, NextStep
<1>8. ASSUME NEW q \in Requests, q # r PROVE AtWork(home, q)'
  <2>1. /\ AtWork(home, q) /\ todo[q] \in Seq(AnyStep) /\ todo'[q] = todo[q]
        /\ undo'[q] = undo[q]
    BY <1>2, <1>7, <1>8 DEF FInv, IInv, Types
  <2>2. \A f \in Files : home[f] \in DOMAIN undo[q] => f \notin Scan(r)
    <3>. SUFFICES ASSUME NEW f \in Files, home[f] \in DOMAIN undo[q], f \in Scan(r)
                  PROVE  FALSE
      OBVIOUS
    <3>1. home[f] \in DOMAIN undo[r] /\ home[f] \in Keys
      BY DEF IInv, Types
    <3>. QED  BY <1>8, <3>1 DEF IInv, LocksApart
  <2>. QED  BY <1>2, <1>3, <1>4, <2>1, <2>2, OthersAtWork DEF On
<1>9. AtWork(home, r)'
  BY <1>7 DEF AtWork
<1>. QED  BY <1>5, <1>6, <1>8, <1>9 DEF FInv

\* An operation on files of orders that are locked, or on files left to chance.
LEMMA DiskFiles ==
  ASSUME IInv, NEW home, FInv(home), NEW r \in Requests, todo[r] # <<>>,
         NEW gone, NEW new, NEW lost, NEW steps \in {<<>>, <<Plain("fail")>>},
         OnDisk(r, gone, new, lost, steps), steps # <<>> => ~Opens(Step(r)),
         \A e \in gone \cup new :
           e[2] \in used /\ (e[2] \notin torn' => home[e[2]] \in DOMAIN undo[r]),
         \A e \in new : KinEntry(home, e)',
         Due(home, r)'
  PROVE  FInv(home)'
<1>1. Kin(home) /\ Settled(home) /\ AtWork(home, r)
  BY DEF FInv
<1>2. /\ disk' = (disk \ gone) \cup new
      /\ dirty' = [dirty EXCEPT ![r] = @ \cup ({e[2] : e \in gone \cup new} \ torn')]
      /\ torn \subseteq torn' /\ Continue(r, steps) /\ UNCHANGED <<table, undo, used, view>>
  BY DEF OnDisk, clients
<1>3. \A x : Committed(x)' = Committed(x)
  BY <1>2 DEF Committed
<1>. DEFINE touched == {e[2] : e \in gone \cup new} \ torn'
<1>4. /\ dirty' \in [Requests -> SUBSET Files]
      /\ dirty'[r] = dirty[r] \cup touched
      /\ \A q \in Requests : q # r => dirty'[q] = dirty[q]
  <2>1. dirty \in [Requests -> SUBSET Files] /\ touched \subseteq Files
    BY <1>1 DEF Kin, IInv, Types
  <2>2. dirty' = [dirty EXCEPT ![r] = @ \cup touched]
    BY <1>2
  <2>. HIDE DEF touched
  <2>. QED  BY <2>1, <2>2
<1>5. ASSUME NEW f \in Files \ torn', <<home[f], f, "own">> \in gone \cup new
      PROVE  f \in dirty'[r] /\ home[f] \in DOMAIN undo[r]
  <2>. DEFINE e == <<home[f], f, "own">>
  <2>1. e \in gone \cup new /\ e[2] = f
    BY <1>5
  <2>. HIDE DEF e
  <2>. QED  BY <1>4, <2>1
<1>6. Kin(home)'
  <2>1. \A e \in disk' : KinEntry(home, e)'
    BY <1>1, <1>2 DEF Kin, KinEntry
  <2>2. ASSUME NEW q \in Requests, NEW f \in dirty'[q]
        PROVE  f \in used' /\ home[f] \in DOMAIN undo'[q]
    <3>1. CASE f \in dirty[q]
      BY <1>1, <1>2, <3>1 DEF Kin
    <3>2. CASE f \notin dirty[q]
      <4>1. q = r /\ f \in touched
        BY <1>4, <2>2, <3>2
      <4>. QED  BY <1>2, <4>1
    <3>. QED  BY <3>1, <3>2
  <2>. QED  BY <1>1, <1>2, <1>4, <2>1, <2>2 DEF Kin
<1>. HIDE DEF touched
<1>7. ASSUME NEW f \in Files, <<home[f], f, "own">> \notin gone \cup new
      PROVE  On(home, f)' <=> On(home, f)
  BY <1>2, <1>7 DEF On
<1>8. Settled(home)'
  <2>1. ASSUME NEW f \in Files, f \notin torn', \A q \in Requests : f \notin dirty'[q]
        PROVE  /\ \A q \in Requests : f \notin dirty[q]
               /\ On(home, f)' <=> On(home, f)
    BY <1>4, <1>5, <1>7, <2>1
  <2>. QED  BY <1>1, <1>2, <1>3, <2>1, SettledKept
<1>9. /\ Paired(todo[r])' /\ (\A i \in 1 .. Len(todo[r]) : Placed(home, r, todo[r][i]))'
      /\ \A q \in Requests : q # r => todo'[q] = todo[q]
  BY <1>1, <1>2, NextStep
<1>10. ASSUME NEW q \in Requests, q # r PROVE AtWork(home, q)'
  <2>1. AtWork(home, q) /\ todo[q] \in Seq(AnyStep) /\ todo'[q] = todo[q] /\ undo'[q] = undo[q]
    BY <1>2, <1>9, <1>10 DEF FInv, IInv, Types
  <2>2. \A f \in Files \ torn' :
          home[f] \in DOMAIN undo[q] => <<home[f], f, "own">> \notin gone \cup new
    <3>. SUFFICES ASSUME NEW f \in Files \ torn', home[f] \in DOMAIN undo[q],
                         <<home[f], f, "own">> \in gone \cup new
                  PROVE  FALSE
      OBVIOUS
    <3>1. home[f] \in DOMAIN undo[r] /\ home[f] \in Keys
      BY <1>5 DEF IInv, Types
    <3>. QED  BY <1>10, <3>1 DEF IInv, LocksApart
  <2>. QED  BY <1>2, <1>7, <2>1, <2>2, OthersAtWork
<1>11. AtWork(home, r)'
  BY <1>9 DEF AtWork
<1>. QED  BY <1>6, <1>8, <1>10, <1>11 DEF FInv

\* Before a step its files are as the rows say, but for those it is to finish.
LEMMA DueBefore ==
  ASSUME IInv, NEW home, FInv(home), NEW r \in Requests, todo[r] # <<>>,
         NEW f \in Files, f \notin torn, NEW locked, home[f] \in DOMAIN undo[r] \cup locked,
         locked \cap Orders = {}
  PROVE  (On(home, f) <=> table[f] # Absent) \/ Closes(home, Step(r), f)
<1>1. CASE f \notin used
  <2>. DEFINE e == <<home[f], f, "own">>
  <2>1. e[2] = f /\ Kin(home)
    BY DEF FInv
  <2>. HIDE DEF e
  <2>2. e \notin disk /\ table[f] = Absent
    BY <1>1, <2>1 DEF Kin, KinEntry
  <2>. QED  BY <2>2 DEF On, e
<1>2. CASE f \in used
  <2>1. home[f] \in Orders
    BY <1>2 DEF FInv, Kin
  <2>. QED  BY <2>1, FirstStep DEF FInv, AtWork, Due
<1>. QED  BY <1>1, <1>2

LEMMA DueNow ==
  ASSUME IInv, NEW home, FInv(home), NEW r \in Requests, todo[r] # <<>>,
         NEW f \in Files, f \notin torn, home[f] \in DOMAIN undo[r], ~Closes(home, Step(r), f)
  PROVE  On(home, f) <=> table[f] # Absent
<1>1. {} \cap Orders = {} /\ home[f] \in DOMAIN undo[r] \cup {}
  OBVIOUS
<1>. QED  BY <1>1, DueBefore

LEMMA AfterEnd ==
  ASSUME NEW a, ~Opens(a), NEW b, Joins(a, b), NEW f \in Files
  PROVE  b.op # "sweep" /\ ~(b.op = "remove" /\ f \in b.scan)
<1>1. ~Ends(b)
  BY DEF Joins
<1>. QED  BY <1>1, NotEnding

LEMMA InsertRowFiles ==
  ASSUME IInv, IInv', KInv, NEW home, FInv(home), NEW r \in Requests, todo[r] # <<>>,
         Step(r).op = "insert", ~Blocked(r), \A k \in Step(r).scan : table[k] = Absent,
         Execute(r, [k \in Step(r).scan |-> [parent |-> Step(r).id]]),
         Continue(r, <<>>), UNCHANGED <<used, torn>>
  PROVE  FInv(home)'
<1>. DEFINE s == Step(r)
            rows == [k \in s.scan |-> [parent |-> s.id]]
<1>1. Kin(home) /\ AtWork(home, r)
  BY DEF FInv
<1>2. s = todo[r][1] /\ 1 \in 1 .. Len(todo[r])
  BY FirstStep
<1>3. Scan(r) = s.scan /\ Scan(r) \subseteq Keys \ Orders
  <2>1. Scan(r) = s.scan
    BY DEF Scan
  <2>. QED  BY <2>1, StepIs, ScanIs
<1>4. s.id \in DOMAIN undo[r]
  BY <1>2 DEF KInv, Tidy, StepsReady, Ready
<1>5. \A f \in Scan(r) \cap Files : f \in used /\ home[f] = s.id
  BY <1>1, <1>2, <1>3 DEF AtWork, Placed
<1>6. \A f \in Scan(r) : rows[f].parent = s.id
  BY <1>3
<1>7. Execute(r, rows)
  OBVIOUS
<1>. HIDE DEF rows
<1>8. /\ \A k \in Keys : k \notin Scan(r) => table'[k] = table[k]
      /\ DOMAIN undo'[r] = DOMAIN undo[r] \cup Scan(r)
  <2>1. Scan(r) \subseteq Keys
    BY <1>3
  <2>. QED  BY <1>7, <2>1, ExecuteIs
<1>9. UNCHANGED disk
  BY DEF Execute
<1>10. /\ todo'[r] # <<>> => Joins(s, todo'[r][1])
       /\ todo'[r] = <<>> => ~Opens(s)
  BY <1>1, <1>8, NextStep
<1>11. ASSUME NEW f \in Files \ torn', home[f] \in DOMAIN undo'[r]
       PROVE  On(home, f) <=> table[f] # Absent
  <2>1. ~Closes(home, Step(r), f) /\ Scan(r) \cap Orders = {}
    BY <1>3 DEF Closes
  <2>2. home[f] \in DOMAIN undo[r] \cup Scan(r)
    BY <1>8, <1>11
  <2>. QED  BY <1>11, <2>1, <2>2, DueBefore
<1>. HIDE DEF s
<1>12. Due(home, r)'
  <2>. SUFFICES ASSUME NEW f \in Files \ torn'
                PROVE  /\ todo'[r] # <<>> => HalfDone(home, todo[r][1], f)'
                       /\ home[f] \in DOMAIN undo'[r] =>
                            \/ On(home, f)' <=> table'[f] # Absent
                            \/ todo'[r] # <<>> /\ Closes(home, todo'[r][1], f)
    BY DEF Due, Closes
  <2>. DEFINE b == todo'[r][1]
  <2>1. CASE s.scan \cap Files = {}
    <3>1. ~Opens(s)
      BY <2>1 DEF Opens, s
    <3>2. todo'[r] # <<>> => HalfDone(home, todo[r][1], f)'
      BY <1>10, <3>1, AfterEnd DEF HalfDone
    <3>3. table'[f] = table[f] /\ (On(home, f)' <=> On(home, f))
      BY <1>3, <1>8, <1>9, <2>1, FilesAreKeys DEF On
    <3>. QED  BY <1>11, <3>2, <3>3
  <2>2. CASE s.scan \cap Files # {}
    <3>1. todo'[r] # <<>> /\ Joins(s, b) /\ s.op = "insert"
      BY <1>10, <2>2 DEF Opens, s
    <3>2. b.op = "write" /\ \A g \in s.scan \cap Files : b.file = g
      BY <2>2, <3>1 DEF Joins
    <3>3. HalfDone(home, todo[r][1], f)'
      BY <3>2 DEF HalfDone
    <3>4. f \in s.scan => Closes(home, b, f)
      BY <3>2 DEF Closes
    <3>5. f \notin s.scan => table'[f] = table[f] /\ (On(home, f)' <=> On(home, f))
      BY <1>3, <1>8, <1>9, FilesAreKeys DEF On
    <3>. QED  BY <1>11, <3>1, <3>3, <3>4, <3>5
  <2>. QED  BY <2>1, <2>2
<1>. QED  BY <1>3, <1>4, <1>5, <1>6, <1>7, <1>12, RelatedFiles

LEMMA RemoveRowFiles ==
  ASSUME IInv, IInv', NEW home, FInv(home), NEW r \in Requests, todo[r] # <<>>,
         Step(r).op = "remove", ~Blocked(r), Execute(r, [k \in Step(r).scan |-> Absent]),
         Continue(r, <<>>), UNCHANGED <<used, torn>>
  PROVE  FInv(home)'
<1>. DEFINE s == Step(r)
            rows == [k \in s.scan |-> Absent]
<1>1. Kin(home) /\ AtWork(home, r)
  BY DEF FInv
<1>2. s = todo[r][1] /\ 1 \in 1 .. Len(todo[r])
  BY FirstStep
<1>3. Scan(r) = s.scan /\ Scan(r) \subseteq Keys \ Orders
  <2>1. Scan(r) = s.scan
    BY DEF Scan
  <2>. QED  BY <2>1, StepIs, ScanIs
<1>4. \A f \in Scan(r) \cap Files : f \in used /\ home[f] \in DOMAIN undo[r]
  BY <1>1, <1>2, <1>3 DEF AtWork, Placed
<1>5. \A f \in Scan(r) : rows[f] = Absent
  BY <1>3
<1>6. Execute(r, rows)
  OBVIOUS
<1>. HIDE DEF rows
<1>7. /\ \A k \in Scan(r) : table'[k] = rows[k]
      /\ \A k \in Keys : k \notin Scan(r) => table'[k] = table[k]
      /\ DOMAIN undo'[r] = DOMAIN undo[r] \cup Scan(r)
  <2>1. Scan(r) \subseteq Keys
    BY <1>3
  <2>. QED  BY <1>6, <2>1, ExecuteIs
<1>8. UNCHANGED disk
  BY DEF Execute
<1>9. ~Opens(s) /\ (todo'[r] # <<>> => Joins(s, todo'[r][1]))
  BY <1>1, <1>7, NextStep DEF Opens
<1>10. Due(home, r)'
  <2>. SUFFICES ASSUME NEW f \in Files \ torn'
                PROVE  /\ todo'[r] # <<>> => HalfDone(home, todo[r][1], f)'
                       /\ home[f] \in DOMAIN undo'[r] =>
                            (On(home, f)' <=> table'[f] # Absent)
    BY DEF Due
  <2>1. todo'[r] # <<>> => HalfDone(home, todo[r][1], f)'
    BY <1>9, AfterEnd DEF HalfDone
  <2>2. On(home, f)' <=> On(home, f)
    BY <1>8 DEF On
  <2>3. CASE f \in Scan(r)
    <3>1. ~On(home, f)
      BY <1>1, <1>2, <1>3, <2>3 DEF AtWork, Due, HalfDone
    <3>. QED  BY <1>5, <1>7, <2>1, <2>2, <2>3, <3>1
  <2>4. CASE f \notin Scan(r)
    <3>1. ~Closes(home, Step(r), f) /\ Scan(r) \cap Orders = {}
      BY <1>3, <2>4 DEF Closes
    <3>2. home[f] \in DOMAIN undo'[r] => home[f] \in DOMAIN undo[r] \cup Scan(r)
      BY <1>7
    <3>3. home[f] \in DOMAIN undo'[r] => (On(home, f) <=> table[f] # Absent)
      BY <3>1, <3>2, DueBefore
    <3>. QED  BY <1>7, <2>1, <2>2, <2>4, <3>3, FilesAreKeys
  <2>. QED  BY <2>3, <2>4
<1>. QED  BY <1>3, <1>4, <1>5, <1>6, <1>10, RelatedFiles

LEMMA KeepRowFiles ==
  ASSUME IInv, IInv', NEW home, FInv(home), NEW r \in Requests, todo[r] # <<>>,
         Step(r).op = "keep", ~Blocked(r), Execute(r, [k \in Step(r).scan |-> table[k]]),
         Continue(r, <<>>), UNCHANGED <<used, torn>>
  PROVE  FInv(home)'
<1>. DEFINE s == Step(r)
            rows == [k \in s.scan |-> table[k]]
<1>1. Kin(home) /\ AtWork(home, r)
  BY DEF FInv
<1>2. /\ Scan(r) \subseteq Keys \ Orders /\ Scan(r) \cap Files = {} /\ Scan(r) \cap Orders = {}
  <2>1. Scan(r) = s.scan /\ s \in AnyStep
    BY StepIs DEF Scan
  <2>2. s.scan \subseteq Children
    BY <2>1 DEF AnyStep
  <2>. QED  BY <2>1, <2>2, DataStoreAssumption DEF Keys
<1>3. Execute(r, rows)
  OBVIOUS
<1>. HIDE DEF rows
<1>4. /\ \A k \in Keys : k \notin Scan(r) => table'[k] = table[k]
      /\ DOMAIN undo'[r] = DOMAIN undo[r] \cup Scan(r)
  <2>1. Scan(r) \subseteq Keys
    BY <1>2
  <2>. QED  BY <1>3, <2>1, ExecuteIs
<1>5. UNCHANGED disk
  BY DEF Execute
<1>6. ~Opens(s) /\ (todo'[r] # <<>> => Joins(s, todo'[r][1]))
  BY <1>1, <1>4, NextStep DEF Opens
<1>7. Due(home, r)'
  <2>. SUFFICES ASSUME NEW f \in Files \ torn'
                PROVE  /\ todo'[r] # <<>> => HalfDone(home, todo[r][1], f)'
                       /\ home[f] \in DOMAIN undo'[r] => (On(home, f)' <=> table'[f] # Absent)
    BY DEF Due
  <2>1. todo'[r] # <<>> => HalfDone(home, todo[r][1], f)'
    BY <1>6, AfterEnd DEF HalfDone
  <2>2. table'[f] = table[f] /\ (On(home, f)' <=> On(home, f))
    BY <1>2, <1>4, <1>5, FilesAreKeys DEF On
  <2>3. ~Closes(home, Step(r), f)
    BY DEF Closes
  <2>4. home[f] \in DOMAIN undo'[r] => (On(home, f) <=> table[f] # Absent)
    BY <1>2, <1>4, <2>3, DueBefore
  <2>. QED  BY <2>1, <2>2, <2>4
<1>. QED  BY <1>2, <1>3, <1>7, RelatedFiles

LEMMA DropRelatedFiles ==
  ASSUME IInv, IInv', NEW home, FInv(home), NEW r \in Requests, DropRelated(r)
  PROVE  FInv(home)'
<1>. DEFINE s == Step(r)
            rows == [k \in Scan(r) |-> IF Belongs(table[k], s.ids) THEN Absent ELSE table[k]]
<1>1. /\ todo[r] # <<>> /\ s.op = "drop" /\ ~Blocked(r) /\ Execute(r, rows)
      /\ Continue(r, <<>>) /\ UNCHANGED <<used, torn>>
  BY DEF DropRelated, Running
<1>2. Kin(home) /\ AtWork(home, r)
  BY DEF FInv
<1>3. s = todo[r][1] /\ 1 \in 1 .. Len(todo[r])
  BY <1>1, FirstStep
<1>4. Scan(r) \subseteq Keys \ Orders
  BY <1>1, StepIs, ScanIs
<1>5. Scan(r) = {k \in Class(s.class) :
                   \/ Belongs(table[k], s.ids)
                   \/ \E q \in Requests \ {r} : k \in DOMAIN undo[q] /\ Belongs(undo[q][k], s.ids)}
  BY <1>1 DEF Scan
<1>6. s.ids \subseteq DOMAIN undo[r]
  BY <1>1, <1>2, <1>3 DEF AtWork, Placed
<1>7. \A k \in Scan(r) : rows[k] = Absent \/ rows[k] = table[k]
  OBVIOUS
<1>8. \A k \in Scan(r) : Belongs(table[k], s.ids) => rows[k] = Absent
  OBVIOUS
<1>. HIDE DEF rows
<1>9. /\ \A k \in Scan(r) : table'[k] = rows[k]
      /\ \A k \in Keys : k \notin Scan(r) => table'[k] = table[k]
      /\ DOMAIN undo'[r] = DOMAIN undo[r] \cup Scan(r)
  <2>1. Scan(r) \subseteq Keys
    BY <1>4
  <2>. QED  BY <1>1, <2>1, ExecuteIs
<1>10. UNCHANGED disk
  BY <1>1 DEF Execute
<1>11. /\ todo'[r] # <<>> => Joins(s, todo'[r][1])
       /\ todo'[r] = <<>> => ~Opens(s)
  BY <1>1, <1>2, <1>9, NextStep
<1>12. ASSUME NEW f \in Files, f \in Scan(r)
       PROVE  s.class = "files" /\ f \in used /\ home[f] \in s.ids
  <2>1. s.class = "files"
    <3>1. s.class \in {"tags", "children", "files"}
      BY <1>1, StepIs DEF AnyStep
    <3>2. f \in Class(s.class)
      BY <1>5, <1>12
    <3>. QED  BY <3>1, <3>2, DataStoreAssumption DEF Class
  <2>2. CASE Belongs(table[f], s.ids)
    BY <1>2, <2>1, <2>2 DEF Belongs, Kin
  <2>3. CASE \E q \in Requests \ {r} : f \in DOMAIN undo[q] /\ Belongs(undo[q][f], s.ids)
    BY <1>2, <2>1, <2>3 DEF Belongs, Kin
  <2>. QED  BY <1>5, <1>12, <2>2, <2>3
<1>13. \A f \in Scan(r) \cap Files :
         /\ f \in used /\ home[f] \in DOMAIN undo[r]
         /\ rows[f] # Absent => rows[f].parent = home[f]
  BY <1>2, <1>6, <1>7, <1>12 DEF Kin
<1>14. ASSUME NEW f \in Files, s.class = "files", home[f] \in s.ids
       PROVE  table'[f] = Absent
  <2>1. CASE table[f] = Absent
    BY <1>7, <1>9, <2>1, FilesAreKeys
  <2>2. CASE table[f] # Absent
    <3>1. Belongs(table[f], s.ids)
      BY <1>2, <1>14, <2>2 DEF Kin, Belongs
    <3>2. f \in Scan(r)
      BY <1>5, <1>14, <3>1 DEF Class
    <3>. QED  BY <1>8, <1>9, <3>1, <3>2
  <2>. QED  BY <2>1, <2>2
<1>15. \A f \in Files \ torn' :
         home[f] \in DOMAIN undo'[r] => (On(home, f) <=> table[f] # Absent)
  BY <1>1, <1>4, <1>9, DueBefore DEF Closes
<1>. HIDE DEF s
<1>16. Due(home, r)'
  <2>. SUFFICES ASSUME NEW f \in Files \ torn'
                PROVE  /\ todo'[r] # <<>> => HalfDone(home, todo[r][1], f)'
                       /\ home[f] \in DOMAIN undo'[r] =>
                            \/ On(home, f)' <=> table'[f] # Absent
                            \/ todo'[r] # <<>> /\ Closes(home, todo'[r][1], f)
    BY DEF Due, Closes
  <2>. DEFINE b == todo'[r][1]
  <2>1. f \notin Scan(r) => table'[f] = table[f] /\ (On(home, f)' <=> On(home, f))
    BY <1>9, <1>10, FilesAreKeys DEF On
  <2>2. CASE s.class = "files"
    <3>1. todo'[r] # <<>> /\ b.op = "sweep" /\ b.ids = s.ids
      BY <1>1, <1>11, <2>2 DEF Opens, Joins
    <3>2. HalfDone(home, todo[r][1], f)'
      BY <1>14, <2>2, <3>1 DEF HalfDone
    <3>3. f \in Scan(r) => Closes(home, b, f)
      BY <1>12, <3>1 DEF Closes
    <3>. QED  BY <1>15, <2>1, <3>1, <3>2, <3>3
  <2>3. CASE s.class # "files"
    <3>1. ~Opens(s)
      BY <1>1, <2>3 DEF Opens
    <3>2. todo'[r] # <<>> => HalfDone(home, todo[r][1], f)'
      BY <1>11, <3>1, AfterEnd DEF HalfDone
    <3>. QED  BY <1>12, <1>15, <2>1, <2>3, <3>2
  <2>. QED  BY <2>2, <2>3
<1>. QED  BY <1>1, <1>4, <1>13, <1>16, RelatedFiles DEF s

\* A write leaves the content of its file under its name, or the file to chance.
LEMMA WriteFiles ==
  ASSUME IInv, NEW home, FInv(home), NEW r \in Requests, todo[r] # <<>>, Step(r).op = "write",
         NEW lost, NEW steps \in {<<>>, <<Plain("fail")>>},
         OnDisk(r, {}, {Named(r)}, lost, steps), Misnamed(r) \subseteq lost,
         table[Step(r).file] = Absent => Step(r).file \in lost
  PROVE  FInv(home)'
<1>. DEFINE s == Step(r)
<1>0. PICK e : e = <<s.id, s.file, s.name>>
  OBVIOUS
<1>. DEFINE new == {e}
<1>1. Kin(home) /\ AtWork(home, r)
  BY DEF FInv
<1>2. s \in AnyStep /\ s = todo[r][1] /\ 1 \in 1 .. Len(todo[r])
  BY StepIs, FirstStep
<1>3. s.name \in Names
  BY <1>2 DEF AnyStep
<1>4. s.file \in used /\ home[s.file] = s.id /\ s.id \in DOMAIN undo[r] /\ s.file \in Files
  BY <1>1, <1>2 DEF AtWork, Placed, IInv, Types
<1>5. OnDisk(r, {}, new, lost, steps)
  BY <1>0 DEF Named
<1>6. /\ disk' = (disk \ {}) \cup new /\ UNCHANGED <<table, undo, used>> /\ Continue(r, steps)
      /\ torn' = torn \cup lost
  BY <1>5 DEF OnDisk
<1>7. s.name = "other" \/ table[s.file] = Absent => s.file \in torn'
  BY <1>6 DEF Misnamed
<1>8. ~Opens(s) /\ (todo'[r] # <<>> => Joins(s, todo'[r][1]))
  <2>1. ~Opens(Step(r))
    BY DEF Opens
  <2>. QED  BY <1>1, <1>6, <2>1, NextStep
<1>9. Due(home, r)'
  <2>. SUFFICES ASSUME NEW f \in Files \ torn'
                PROVE  /\ todo'[r] # <<>> => HalfDone(home, todo[r][1], f)'
                       /\ home[f] \in DOMAIN undo'[r] => (On(home, f)' <=> table'[f] # Absent)
    BY DEF Due
  <2>1. todo'[r] # <<>> => HalfDone(home, todo[r][1], f)'
    BY <1>8, AfterEnd DEF HalfDone
  <2>2. CASE f = s.file
    <3>1. s.name = "own" /\ table[f] # Absent
      BY <1>3, <1>7, <2>2 DEF Names
    <3>2. e \in disk' /\ e = <<home[f], f, "own">>
      BY <1>0, <1>4, <1>6, <2>2, <3>1
    <3>. QED  BY <1>6, <2>1, <3>1, <3>2 DEF On
  <2>3. CASE f # s.file
    <3>1. On(home, f)' <=> On(home, f)
      BY <1>0, <1>6, <2>3 DEF On
    <3>2. home[f] \in DOMAIN undo[r] => (On(home, f) <=> table[f] # Absent)
      BY <1>6, <2>3, DueNow DEF Closes
    <3>. QED  BY <1>6, <2>1, <3>1, <3>2
  <2>. QED  BY <2>2, <2>3
<1>10. e[2] = s.file /\ e[3] = s.name /\ KinEntry(home, e)'
  BY <1>0, <1>3, <1>4, <1>6, <1>7 DEF KinEntry, Names
<1>11. \A x \in {} \cup new : x[2] \in used /\ (x[2] \notin torn' => home[x[2]] \in DOMAIN undo[r])
  BY <1>4, <1>10
<1>12. \A x \in new : KinEntry(home, x)'
  BY <1>10
<1>. HIDE DEF new
<1>. QED  BY <1>5, <1>8, <1>9, <1>11, <1>12, DiskFiles

\* Removing a file comes before writing it anew or removing its row.
LEMMA UnlinkFiles ==
  ASSUME IInv, NEW home, FInv(home), NEW r \in Requests, todo[r] # <<>>, Step(r).op = "unlink",
         NEW gone \in SUBSET {Named(r)}, NEW lost, OnDisk(r, gone, {}, lost, <<>>),
         Step(r).file \in lost \/ (gone = {Named(r)} /\ Step(r).name = "own")
  PROVE  FInv(home)'
<1>. DEFINE s == Step(r)
<1>1. Kin(home) /\ AtWork(home, r)
  BY DEF FInv
<1>2. s = todo[r][1] /\ 1 \in 1 .. Len(todo[r])
  BY FirstStep
<1>3. s.file \in used /\ home[s.file] = s.id /\ s.id \in DOMAIN undo[r] /\ s.file \in Files
  BY <1>1, <1>2 DEF AtWork, Placed, IInv, Types
<1>4. /\ disk' = (disk \ gone) \cup {} /\ UNCHANGED <<table, undo, used>> /\ Continue(r, <<>>)
      /\ torn' = torn \cup lost
  BY DEF OnDisk
<1>5. /\ todo'[r] # <<>> => Joins(s, todo'[r][1])
      /\ todo'[r] = <<>> => ~Opens(s)
  BY <1>1, <1>4, NextStep
<1>. DEFINE b == todo'[r][1]
<1>6. /\ todo'[r] # <<>>
      /\ \/ b.op = "write" /\ b.file = s.file
         \/ b.op = "remove" /\ b.scan = {s.file}
  <2>1. todo'[r] # <<>> /\ Joins(s, b) /\ s.op = "unlink"
    BY <1>5 DEF Opens
  <2>. HIDE DEF s, b
  <2>. QED  BY <2>1 DEF Joins
<1>7. \A f \in Files \ torn' : f = s.file => ~On(home, f)'
  BY <1>3, <1>4 DEF On, Named
<1>8. \A e \in gone : e = <<s.id, s.file, s.name>> /\ e[2] = s.file
  BY DEF Named
<1>9. Due(home, r)'
  <2>. SUFFICES ASSUME NEW f \in Files \ torn'
                PROVE  /\ HalfDone(home, todo[r][1], f)'
                       /\ home[f] \in DOMAIN undo'[r] =>
                            \/ On(home, f)' <=> table'[f] # Absent
                            \/ todo'[r] # <<>> /\ Closes(home, b, f)
    BY DEF Due, Closes
  <2>1. HalfDone(home, todo[r][1], f)'
    BY <1>6, <1>7 DEF HalfDone
  <2>2. CASE f = s.file
    <3>1. Closes(home, b, f)
      BY <1>6, <2>2 DEF Closes
    <3>. QED  BY <1>6, <2>1, <3>1
  <2>3. CASE f # s.file
    <3>1. On(home, f)' <=> On(home, f)
      BY <1>4, <1>8, <2>3 DEF On
    <3>2. home[f] \in DOMAIN undo[r] => (On(home, f) <=> table[f] # Absent)
      BY <1>4, <2>3, DueNow DEF Closes
    <3>. QED  BY <1>4, <2>1, <3>1, <3>2
  <2>. QED  BY <2>2, <2>3
<1>10. \A e \in gone \cup {} : e[2] \in used /\ (e[2] \notin torn' => home[e[2]] \in DOMAIN undo[r])
  BY <1>3, <1>8
<1>. QED  BY <1>9, <1>10, DiskFiles

\* A sweep takes the files of its orders, or leaves them to chance, and what it
\* takes of other orders it leaves to chance as well.
LEMMA SweepsFiles ==
  ASSUME IInv, NEW home, FInv(home), NEW r \in Requests, todo[r] # <<>>, Step(r).op = "sweep",
         NEW gone \in SUBSET disk, NEW lost, OnDisk(r, gone, {}, lost, <<>>),
         \A e \in gone : e[1] \in Step(r).ids \/ e[2] \in lost,
         \A e \in disk : e[1] \in Step(r).ids => e \in gone \/ e[2] \in lost
  PROVE  FInv(home)'
<1>. DEFINE s == Step(r)
<1>1. Kin(home) /\ AtWork(home, r)
  BY DEF FInv
<1>2. s = todo[r][1] /\ 1 \in 1 .. Len(todo[r])
  BY FirstStep
<1>3. s.ids \subseteq DOMAIN undo[r]
  BY <1>1, <1>2 DEF AtWork, Placed
<1>4. /\ disk' = (disk \ gone) \cup {} /\ UNCHANGED <<table, undo, used>> /\ Continue(r, <<>>)
      /\ torn' = torn \cup lost
  BY DEF OnDisk
<1>5. ~Opens(s) /\ (todo'[r] # <<>> => Joins(s, todo'[r][1]))
  BY <1>1, <1>4, NextStep DEF Opens
<1>6. ASSUME NEW f \in Files \ torn'
      PROVE  <<home[f], f, "own">> \in gone <=> On(home, f) /\ home[f] \in s.ids
  <2>. DEFINE e == <<home[f], f, "own">>
  <2>1. e[1] = home[f] /\ e[2] = f /\ f \notin lost
    BY <1>4
  <2>. HIDE DEF e
  <2>2. e \in gone <=> e \in disk /\ home[f] \in s.ids
    BY <2>1
  <2>. QED  BY <2>2 DEF e, On
<1>7. \A e \in gone \cup {} :
        e[2] \in used /\ (e[2] \notin torn' => home[e[2]] \in DOMAIN undo[r])
  <2>. SUFFICES ASSUME NEW e \in gone
                PROVE  e[2] \in used /\ (e[2] \notin torn' => home[e[2]] \in DOMAIN undo[r])
    OBVIOUS
  <2>1. e[2] \in used /\ e[1] = home[e[2]]
    BY <1>1 DEF Kin, KinEntry
  <2>. QED  BY <1>3, <1>4, <2>1
<1>8. Due(home, r)'
  <2>. SUFFICES ASSUME NEW f \in Files \ torn'
                PROVE  /\ todo'[r] # <<>> => HalfDone(home, todo[r][1], f)'
                       /\ home[f] \in DOMAIN undo'[r] => (On(home, f)' <=> table'[f] # Absent)
    BY DEF Due
  <2>1. todo'[r] # <<>> => HalfDone(home, todo[r][1], f)'
    BY <1>5, AfterEnd DEF HalfDone
  <2>2. On(home, f)' <=> On(home, f) /\ home[f] \notin s.ids
    BY <1>4, <1>6 DEF On
  <2>3. CASE home[f] \in s.ids
    <3>1. table[f] = Absent
      BY <1>1, <1>2, <1>4, <2>3 DEF AtWork, Due, HalfDone
    <3>. QED  BY <1>4, <2>1, <2>2, <2>3, <3>1
  <2>4. CASE home[f] \notin s.ids
    <3>1. home[f] \in DOMAIN undo[r] => (On(home, f) <=> table[f] # Absent)
      BY <1>4, <2>4, DueNow DEF Closes
    <3>. QED  BY <1>4, <2>1, <2>2, <2>4, <3>1
  <2>. QED  BY <2>3, <2>4
<1>. QED  BY <1>7, <1>8, DiskFiles

LEMMA FileActionFiles ==
  ASSUME IInv, NEW home, FInv(home), NEW r \in Requests,
         \/ WriteFile(r) \/ WriteBreaks(r) \/ UnlinkFile(r) \/ SweepFiles(r) \/ RemovalFails(r)
  PROVE  FInv(home)'
<1>1. CASE WriteFile(r)
  <2>. DEFINE lost == Misnamed(r) \cup
                        (IF table[Step(r).file] = Absent THEN {Step(r).file} ELSE {})
  <2>1. todo[r] # <<>> /\ Step(r).op = "write" /\ OnDisk(r, {}, {Named(r)}, lost, <<>>)
    BY <1>1 DEF WriteFile, Running
  <2>. QED  BY <2>1, WriteFiles
<1>2. CASE WriteBreaks(r)
  <2>. DEFINE lost == {Step(r).file}
              steps == <<Plain("fail")>>
  <2>1. todo[r] # <<>> /\ Step(r).op = "write" /\ OnDisk(r, {}, {Named(r)}, lost, steps)
    BY <1>2 DEF WriteBreaks, Running
  <2>2. Misnamed(r) \subseteq lost
    BY DEF Misnamed
  <2>3. steps \in {<<>>, <<Plain("fail")>>} /\ Step(r).file \in lost
    OBVIOUS
  <2>. HIDE DEF lost, steps
  <2>. QED  BY <2>1, <2>2, <2>3, WriteFiles
<1>3. CASE UnlinkFile(r)
  <2>1. todo[r] # <<>> /\ Step(r).op = "unlink" /\ OnDisk(r, {Named(r)}, {}, Misnamed(r), <<>>)
    BY <1>3 DEF UnlinkFile, Running
  <2>2. Step(r).file \in Misnamed(r) \/ Step(r).name = "own"
    BY DEF Misnamed
  <2>. QED  BY <2>1, <2>2, UnlinkFiles
<1>4. CASE SweepFiles(r)
  <2>. DEFINE ids == Step(r).ids
              lost == {e[2] : e \in {e \in Swept(ids) : e[1] \notin ids}}
  <2>1. todo[r] # <<>> /\ Step(r).op = "sweep" /\ OnDisk(r, Swept(ids), {}, lost, <<>>)
    BY <1>4 DEF SweepFiles, Running
  <2>2. /\ Swept(ids) \in SUBSET disk
        /\ \A e \in disk : e[1] \in ids => e \in Swept(ids)
    BY DEF Swept
  <2>3. \A e \in Swept(ids) : e[1] \in ids \/ e[2] \in lost
    OBVIOUS
  <2>. HIDE DEF lost
  <2>. QED  BY <2>1, <2>2, <2>3, SweepsFiles
<1>5. CASE RemovalFails(r) /\ Running(r, "unlink")
  <2>1. todo[r] # <<>> /\ Step(r).op = "unlink" /\ OnDisk(r, {}, {}, {Step(r).file}, <<>>)
    BY <1>5 DEF RemovalFails, Running
  <2>. QED  BY <2>1, UnlinkFiles
<1>6. CASE RemovalFails(r) /\ Running(r, "sweep")
  <2>. DEFINE ids == Step(r).ids
              lost == {e[2] : e \in {e \in disk : e[1] \in ids}}
  <2>1. todo[r] # <<>> /\ Step(r).op = "sweep" /\ OnDisk(r, {}, {}, lost, <<>>)
    BY <1>6 DEF RemovalFails, Running
  <2>2. \A e \in disk : e[1] \in ids => e[2] \in lost
    OBVIOUS
  <2>. HIDE DEF lost
  <2>. QED  BY <2>1, <2>2, SweepsFiles
<1>. QED  BY <1>1, <1>2, <1>3, <1>4, <1>5, <1>6 DEF RemovalFails

\* The end of a transaction: its files are as it leaves the rows, or torn.
LEMMA ReleaseFiles ==
  ASSUME IInv, IInv', NEW home, FInv(home), NEW r \in Requests, Release(r),
         \/ table' = RolledBack(r) /\ torn' = torn \cup dirty[r]
         \/ table' = table /\ todo[r] = <<>> /\ torn \subseteq torn'
  PROVE  FInv(home)'
<1>1. Kin(home) /\ Settled(home) /\ AtWork(home, r)
  BY DEF FInv
<1>2. /\ DOMAIN undo'[r] = {} /\ todo'[r] = <<>>
      /\ \A q \in Requests : q # r => undo'[q] = undo[q] /\ todo'[q] = todo[q]
      /\ \A k \in Keys : k \notin DOMAIN undo[r] =>
           table'[k] = table[k] /\ Committed(k)' = Committed(k)
      /\ \A k \in Keys : k \in DOMAIN undo[r] =>
           /\ table'[k] \in {table[k], undo[r][k]}
           /\ table' = RolledBack(r) => table'[k] = undo[r][k]
           /\ Committed(k)' = table'[k] /\ Committed(k) = undo[r][k]
  BY ReleaseCommits
<1>3. UNCHANGED <<disk, used, view>> /\ dirty' = [dirty EXCEPT ![r] = {}] /\ torn \subseteq torn'
  BY DEF Release, clients
<1>4. /\ dirty' \in [Requests -> SUBSET Files] /\ dirty'[r] = {}
      /\ \A q \in Requests : q # r => dirty'[q] = dirty[q]
  BY <1>1, <1>3 DEF Kin
<1>5. Files \subseteq Keys
  BY FilesAreKeys
<1>6. Kin(home)'
  <2>1. ASSUME NEW f \in Files, table'[f] # Absent
        PROVE  f \in used /\ table'[f].parent = home[f]
    BY <1>1, <1>2, <1>5, <2>1 DEF Kin
  <2>2. ASSUME NEW q \in Requests, NEW f \in Files, f \in DOMAIN undo'[q]
        PROVE  /\ f \in used /\ home[f] \in DOMAIN undo'[q]
               /\ undo'[q][f] # Absent => undo'[q][f].parent = home[f]
    <3>1. q # r /\ undo'[q] = undo[q]
      BY <1>2, <2>2
    <3>. QED  BY <1>1, <2>2, <3>1 DEF Kin
  <2>3. ASSUME NEW q \in Requests, NEW f \in dirty'[q]
        PROVE  f \in used /\ home[f] \in DOMAIN undo'[q]
    <3>1. q # r /\ undo'[q] = undo[q] /\ dirty'[q] = dirty[q]
      BY <1>2, <1>4, <2>3
    <3>. QED  BY <1>1, <2>3, <3>1 DEF Kin
  <2>. QED  BY <1>1, <1>3, <1>4, <2>1, <2>2, <2>3 DEF Kin, KinEntry
<1>7. Settled(home)'
  <2>. SUFFICES ASSUME NEW f \in Files, f \notin torn', \A q \in Requests : f \notin dirty'[q]
                PROVE  On(home, f)' <=> Committed(f)' # Absent
    BY DEF Settled
  <2>1. On(home, f)' <=> On(home, f)
    BY <1>3 DEF On
  <2>2. f \notin dirty[r] => \A q \in Requests : f \notin dirty[q]
    BY <1>4
  <2>3. f \notin dirty[r] => (On(home, f) <=> Committed(f) # Absent)
    BY <1>1, <1>3, <2>2 DEF Settled
  <2>4. CASE table' = RolledBack(r) /\ torn' = torn \cup dirty[r]
    <3>1. Committed(f)' = Committed(f)
      BY <1>2, <1>5, <2>4
    <3>. QED  BY <2>1, <2>3, <2>4, <3>1
  <2>5. CASE table' = table /\ todo[r] = <<>> /\ home[f] \in DOMAIN undo[r]
    <3>1. On(home, f) <=> table[f] # Absent
      BY <1>1, <1>3, <2>5 DEF AtWork, Due
    <3>2. Committed(f)' = table[f]
      <4>1. CASE f \in DOMAIN undo[r]
        BY <1>2, <1>5, <2>5, <4>1
      <4>2. CASE f \notin DOMAIN undo[r]
        <5>1. \A q \in Requests : f \notin DOMAIN undo[q]
          BY <1>1, <2>5, <4>2 DEF Kin, IInv, Types, LocksApart
        <5>2. Committed(f) = table[f]
          BY <1>5, <5>1, CommittedAt DEF IInv
        <5>. QED  BY <1>2, <1>5, <4>2, <5>2
      <4>. QED  BY <4>1, <4>2
    <3>. QED  BY <2>1, <3>1, <3>2
  <2>6. CASE home[f] \notin DOMAIN undo[r]
    <3>1. f \notin DOMAIN undo[r] /\ f \notin dirty[r]
      BY <1>1, <2>6 DEF Kin
    <3>. QED  BY <1>2, <1>5, <2>1, <2>3, <3>1
  <2>. QED  BY <2>4, <2>5, <2>6
<1>8. ASSUME NEW q \in Requests, q # r PROVE AtWork(home, q)'
  <2>1. /\ AtWork(home, q) /\ todo[q] \in Seq(AnyStep) /\ todo'[q] = todo[q]
        /\ undo'[q] = undo[q]
    BY <1>2, <1>8 DEF FInv, IInv, Types
  <2>2. ASSUME NEW f \in Files, home[f] \in DOMAIN undo[q] PROVE f \notin DOMAIN undo[r]
    <3>1. home[f] \in Keys /\ home[f] \notin DOMAIN undo[r]
      BY <1>8, <2>2 DEF IInv, Types, LocksApart
    <3>. QED  BY <1>1, <3>1 DEF Kin
  <2>. QED  BY <1>2, <1>3, <1>5, <2>1, <2>2, OthersAtWork DEF On
<1>9. AtWork(home, r)'
  <2>1. 1 .. Len(todo'[r]) = {}
    BY <1>2
  <2>. QED  BY <1>2, <2>1 DEF AtWork, Paired, Due
<1>. QED  BY <1>6, <1>7, <1>8, <1>9 DEF FInv

LEMMA AbortFiles ==
  ASSUME IInv, IInv', NEW home, FInv(home), NEW r \in Requests, Abort(r)
  PROVE  FInv(home)'
BY ReleaseFiles DEF Abort

LEMMA EndFiles ==
  ASSUME IInv, IInv', NEW home, FInv(home), NEW r \in Requests,
         Commit(r) \/ Fail(r) \/ LockTimeout(r) \/ StepFails(r) \/ CommitFails(r)
  PROVE  FInv(home)'
<1>1. CASE Commit(r) \/ CommitFails(r)
  BY <1>1, ReleaseFiles DEF Commit, CommitFails
<1>2. CASE Fail(r) \/ LockTimeout(r) \/ StepFails(r)
  BY <1>2, AbortFiles DEF Fail, LockTimeout, StepFails
<1>. QED  BY <1>1, <1>2

-----------------------------------------------------------------------------
(* The steps requests are made of.                                           *)

LEMMA LateIsPlain ==
  ASSUME NEW s, s.op \notin Early
  PROVE  ~Opens(s) /\ ~Ends(s)
BY DEF Early, Opens, Ends

LEMMA PairedLate ==
  ASSUME NEW steps \in Seq(AnyStep), \A i \in 1 .. Len(steps) : steps[i].op \notin Early
  PROVE  Paired(steps) /\ (steps # <<>> => ~Ends(steps[1]))
BY LateIsPlain, PairedPlain

\* The fields of a row come after its statement.
LEMMA FieldsPaired ==
  ASSUME NEW f \in AnyStep, f.op = "fields"
  PROVE  /\ <<f>> \in Seq(AnyStep) /\ Paired(<<f>>) /\ ~Ends(<<f>>[1])
         /\ \A i \in 1 .. Len(<<f>>) : <<f>>[i] = f
<1>1. ~Opens(f) /\ ~Ends(f)
  BY DEF Opens, Ends
<1>. DEFINE steps == <<f>>
<1>2. steps \in Seq(AnyStep) /\ Len(steps) = 1 /\ steps[1] = f
      /\ \A i \in 1 .. Len(steps) : steps[i] = f
  OBVIOUS
<1>. HIDE DEF steps
<1>3. Paired(steps)
  BY <1>1, <1>2, PairedPlain
<1>. QED  BY <1>1, <1>2, <1>3 DEF steps

\* The files go right after their rows.
LEMMA ReleatedPaired ==
  ASSUME NEW ids \in SUBSET Orders
  PROVE  /\ DeleteReleated(ids) \in Seq(AnyStep) /\ Paired(DeleteReleated(ids))
         /\ ~Ends(DeleteReleated(ids)[1])
         /\ \A j \in 1 .. Len(DeleteReleated(ids)) :
              /\ DeleteReleated(ids)[j].op \in {"drop", "sweep"}
              /\ DeleteReleated(ids)[j].ids = ids
<1>. DEFINE d(c) == [op |-> "drop", class |-> c, ids |-> ids]
            w == [op |-> "sweep", ids |-> ids, scan |-> {}]
            s == DeleteReleated(ids)
<1>1. s \in Seq(AnyStep)
  BY ReleatedSteps DEF StepsOf
<1>2. s = <<d("tags"), d("children"), d("files"), w>>
  BY DEF DeleteReleated
<1>3. Len(s) = 4 /\ s[1] = d("tags") /\ s[2] = d("children") /\ s[3] = d("files") /\ s[4] = w
  BY <1>2
<1>4. \A c : d(c).op = "drop" /\ d(c).class = c /\ d(c).ids = ids
  OBVIOUS
<1>5. w.op = "sweep" /\ w.ids = ids
  OBVIOUS
<1>. HIDE DEF d, w, s
<1>6. /\ ~Opens(d("tags")) /\ ~Opens(d("children")) /\ ~Opens(w)
      /\ ~Ends(d("tags")) /\ ~Ends(d("children")) /\ ~Ends(d("files"))
  BY <1>4, <1>5 DEF Opens, Ends
<1>7. Joins(s[1], s[2]) /\ Joins(s[2], s[3])
  BY <1>3, <1>6, JoinsPlain
<1>8. Joins(s[3], s[4])
  BY <1>3, <1>4, <1>5 DEF Joins, Opens
<1>9. ASSUME NEW i \in 1 .. Len(s)
      PROVE  (Opens(s[i]) => i < Len(s)) /\ (i < Len(s) => Joins(s[i], s[i + 1]))
  <2>1. i = 1 \/ i = 2 \/ i = 3 \/ i = 4
    BY <1>3
  <2>2. CASE i = 1
    BY <1>3, <1>7, <2>2
  <2>3. CASE i = 2
    BY <1>3, <1>7, <2>3
  <2>4. CASE i = 3
    BY <1>3, <1>8, <2>4
  <2>5. CASE i = 4
    BY <1>3, <1>6, <2>5
  <2>. QED  BY <2>1, <2>2, <2>3, <2>4, <2>5
<1>10. Paired(s)
  BY <1>9 DEF Paired
<1>11. \A j \in 1 .. Len(s) : s[j].op \in {"drop", "sweep"} /\ s[j].ids = ids
  <2>1. \A j \in 1 .. Len(s) : j = 1 \/ j = 2 \/ j = 3 \/ j = 4
    BY <1>3
  <2>. QED  BY <1>3, <1>4, <1>5, <2>1
<1>. QED  BY <1>1, <1>3, <1>6, <1>10, <1>11 DEF s

\* One related field: a file is inserted and written, or removed and written
\* anew, or removed with its row; other rows have no files.
LEMMA FieldStepsPaired ==
  ASSUME IInv, NEW home, NEW r \in Requests, NEW s, s.id \in Orders, s.id \in DOMAIN undo[r],
         s.seen \in SUBSET Files, \A f \in s.seen : f \in used /\ home[f] = s.id,
         NEW u, NEW x \in Related, x.op = "addFile" => Files \ used # {},
         NEW steps \in FieldSteps(u, s, x),
         x.op = "addFile" => NextFile \in Files /\ NextFile \in used' /\ home[NextFile] = s.id,
         used \subseteq used', UNCHANGED undo
  PROVE  \/ \E a : /\ steps = <<a>> /\ ~Opens(a) /\ ~Ends(a)
                   /\ Placed(home, r, a)'
         \/ \E a, b : /\ steps = <<a, b>> /\ Joins(a, b) /\ ~Opens(b) /\ ~Ends(a)
                      /\ Placed(home, r, a)' /\ Placed(home, r, b)'
<1>. DEFINE o == s.id
            Free(a) == ~Opens(a) /\ ~Ends(a) /\ Placed(home, r, a)'
<1>1. o \in Orders /\ o \in DOMAIN undo'[r]
  OBVIOUS
<1>2. ASSUME NEW a, a.op \in {"insert", "remove"} => a.scan \cap Files = {},
             a.op \in {"insert", "remove", "keep", "childQuery", "badField"}
      PROVE  Free(a)
  BY <1>2 DEF Opens, Ends, Placed
<1>3. ASSUME NEW k, k \notin Files
      PROVE  Free(Insert(k, o)) /\ Free(Keep(k)) /\ \A must : Free(Remove(k, must))
  <2>1. {k} \cap Files = {}
    BY <1>3
  <2>2. /\ Insert(k, o).op = "insert" /\ Insert(k, o).scan = {k} /\ Keep(k).op = "keep"
        /\ \A must : Remove(k, must).op = "remove" /\ Remove(k, must).scan = {k}
    BY DEF Insert, Keep, Remove
  <2>. HIDE DEF Free
  <2>. QED  BY <1>2, <2>1, <2>2
<1>4. Free(Plain("childQuery")) /\ Free(Plain("badField"))
  <2>1. Plain("childQuery").op = "childQuery" /\ Plain("badField").op = "badField"
    BY DEF Plain
  <2>. HIDE DEF Free
  <2>. QED  BY <1>2, <2>1
<1>5. ASSUME NEW a, Free(a), steps = <<a>> \/ steps = <<Plain("childQuery"), a>>
      PROVE  \/ \E c : steps = <<c>> /\ Free(c)
             \/ \E c, d : steps = <<c, d>> /\ Joins(c, d) /\ Free(c) /\ Free(d)
  <2>1. CASE steps = <<a>>
    BY <1>5, <2>1
  <2>2. CASE steps = <<Plain("childQuery"), a>>
    <3>1. Joins(Plain("childQuery"), a)
      BY <1>4, <1>5, JoinsPlain
    <3>. HIDE DEF Free
    <3>. QED  BY <1>4, <1>5, <2>2, <3>1
  <2>. QED  BY <1>5, <2>1, <2>2
<1>6. ASSUME NEW f \in Files, f \in used', home[f] = o, NEW n
      PROVE  /\ Placed(home, r, Insert(f, o))' /\ ~Ends(Insert(f, o))
             /\ Placed(home, r, Write(o, f, n))' /\ ~Opens(Write(o, f, n)) /\ ~Ends(Write(o, f, n))
             /\ Placed(home, r, Unlink(o, f, n))' /\ ~Ends(Unlink(o, f, n))
             /\ Placed(home, r, Remove(f, FALSE))' /\ ~Opens(Remove(f, FALSE))
             /\ Joins(Insert(f, o), Write(o, f, n)) /\ Joins(Unlink(o, f, n), Write(o, f, n))
             /\ Joins(Unlink(o, f, n), Remove(f, FALSE))
  <2>. DEFINE a == Insert(f, o)  b == Write(o, f, n)  c == Unlink(o, f, n)  d == Remove(f, FALSE)
  <2>1. /\ a.op = "insert" /\ a.scan = {f} /\ a.id = o
        /\ b.op = "write" /\ b.id = o /\ b.file = f
        /\ c.op = "unlink" /\ c.id = o /\ c.file = f
        /\ d.op = "remove" /\ d.scan = {f}
    BY DEF Insert, Write, Unlink, Remove
  <2>. HIDE DEF a, b, c, d, o
  <2>2. Placed(home, r, a)' /\ Placed(home, r, b)' /\ Placed(home, r, c)' /\ Placed(home, r, d)'
    BY <1>1, <1>6, <2>1 DEF Placed
  <2>3. ~Ends(a) /\ ~Opens(b) /\ ~Ends(b) /\ ~Ends(c) /\ ~Opens(d) /\ Opens(c)
    BY <2>1 DEF Opens, Ends
  <2>4. Joins(a, b) /\ Joins(c, b) /\ Joins(c, d)
    BY <2>1, <2>3 DEF Joins
  <2>. QED  BY <2>2, <2>3, <2>4 DEF a, b, c, d
<1>7. FieldCase(u, s, x, steps)
  BY FieldCases
<1>8. CASE \E t \in Tags : \/ steps = <<Insert(<<o, t>>, o)>>
                           \/ steps = <<Remove(<<o, t>>, FALSE)>>
  <2>1. PICK t \in Tags : \/ steps = <<Insert(<<o, t>>, o)>>
                          \/ steps = <<Remove(<<o, t>>, FALSE)>>
    BY <1>8
  <2>2. <<o, t>> \notin Files
    BY <1>1, DataStoreAssumption DEF Links
  <2>. QED  BY <1>3, <2>1, <2>2
<1>9. CASE \E c \in Children : \E a \in {Insert(c, o), Keep(c), Remove(c, TRUE)} :
             steps = ChildSteps(u, a)
  <2>1. PICK c \in Children : \E a \in {Insert(c, o), Keep(c), Remove(c, TRUE)} :
                                steps = ChildSteps(u, a)
    BY <1>9
  <2>2. PICK a \in {Insert(c, o), Keep(c), Remove(c, TRUE)} : steps = ChildSteps(u, a)
    BY <2>1
  <2>3. c \notin Files
    BY DataStoreAssumption
  <2>4. Free(a)
    BY <1>3, <2>3
  <2>5. steps = <<a>> \/ steps = <<Plain("childQuery"), a>>
    BY <2>2 DEF ChildSteps
  <2>6. \/ \E d : steps = <<d>> /\ Free(d)
        \/ \E d, e : steps = <<d, e>> /\ Joins(d, e) /\ Free(d) /\ Free(e)
    BY <1>5, <2>4, <2>5
  <2>. QED  BY <2>6
<1>10. CASE x.op = "addFile" /\ steps = <<Insert(NextFile, o), Write(o, NextFile, "own")>>
  BY <1>6, <1>10
<1>11. CASE \E f \in s.seen, n \in Names : \/ steps = <<Unlink(o, f, n), Write(o, f, n)>>
                                           \/ steps = <<Unlink(o, f, n), Remove(f, FALSE)>>
  <2>1. PICK f \in s.seen, n \in Names : \/ steps = <<Unlink(o, f, n), Write(o, f, n)>>
                                         \/ steps = <<Unlink(o, f, n), Remove(f, FALSE)>>
    BY <1>11
  <2>2. f \in Files /\ f \in used' /\ home[f] = o
    OBVIOUS
  <2>. QED  BY <1>6, <2>1, <2>2
<1>12. CASE steps = <<Plain("badField")>>
  BY <1>4, <1>12
<1>. QED  BY <1>7, <1>8, <1>9, <1>10, <1>11, <1>12 DEF FieldCase

\* A file ID that nobody has used yet may get any home.
LEMMA HomeFree ==
  ASSUME IInv, NEW home \in Homes, FInv(home), NEW g \in Files, g \notin used, NEW o \in Orders
  PROVE  \E to \in Homes : FInv(to) /\ to[g] = o /\ \A f \in Files : f # g => to[f] = home[f]
<1>1. PICK to \in Homes : to[g] = o /\ \A f \in Files : f # g => to[f] = home[f]
  <2>. DEFINE h == [home EXCEPT ![g] = o]
  <2>1. h \in Homes /\ h[g] = o /\ \A f \in Files : f # g => h[f] = home[f]
    BY DEF Homes
  <2>. QED  BY <2>1
<1>2. Kin(home) /\ used \subseteq Files
  BY DEF FInv, IInv, Types
<1>3. \A f \in used : to[f] = home[f]
  BY <1>1, <1>2
<1>4. Kin(to)
  BY <1>2, <1>3 DEF Kin, KinEntry
<1>5. \A f \in Files : On(to, f) <=> On(home, f)
  <2>1. ASSUME NEW h, Kin(h), On(h, g) PROVE FALSE
    <3>. DEFINE e == <<h[g], g, "own">>
    <3>1. e \in disk /\ e[2] = g
      BY <2>1 DEF On
    <3>. HIDE DEF e
    <3>. QED  BY <2>1, <3>1 DEF Kin, KinEntry
  <2>. QED  BY <1>1, <1>2, <1>4, <2>1 DEF On
<1>6. Settled(to)
  BY <1>5 DEF FInv, Settled
<1>7. ASSUME NEW r \in Requests PROVE AtWork(to, r)
  <2>1. AtWork(home, r) /\ todo[r] \in Seq(AnyStep)
    BY DEF FInv, IInv, Types
  <2>2. ASSUME NEW i \in 1 .. Len(todo[r]) PROVE Placed(to, r, todo[r][i])
    <3>. DEFINE s == todo[r][i]
    <3>1. Placed(home, r, s)
      BY <2>1 DEF AtWork
    <3>. HIDE DEF s
    <3>2. Placed(to, r, s)
      BY <1>3, <3>1 DEF Placed
    <3>. QED  BY <3>2 DEF s
  <2>3. Due(to, r)
    <3>. SUFFICES ASSUME NEW f \in Files \ torn
                  PROVE  /\ todo[r] # <<>> => HalfDone(to, todo[r][1], f)
                         /\ to[f] \in DOMAIN undo[r] =>
                              \/ On(to, f) <=> table[f] # Absent
                              \/ todo[r] # <<>> /\ Closes(to, todo[r][1], f)
      BY DEF Due
    <3>1. CASE f = g
      <4>1. table[f] = Absent /\ ~On(to, f)
        <5>1. ~On(home, f)
          <6>. DEFINE e == <<home[f], f, "own">>
          <6>1. e[2] = f
            OBVIOUS
          <6>. HIDE DEF e
          <6>2. e \notin disk
            BY <1>2, <3>1, <6>1 DEF Kin, KinEntry
          <6>. QED  BY <6>2 DEF On, e
        <5>. QED  BY <1>2, <1>5, <3>1, <5>1 DEF Kin
      <4>. QED  BY <4>1 DEF HalfDone
    <3>2. CASE f # g
      <4>1. to[f] = home[f]
        BY <1>1, <3>2
      <4>. QED  BY <1>5, <2>1, <4>1 DEF AtWork, Due, HalfDone, Closes
    <3>. QED  BY <3>1, <3>2
  <2>. QED  BY <2>1, <2>2, <2>3 DEF AtWork
<1>. QED  BY <1>1, <1>4, <1>6, <1>7 DEF FInv

LEMMA PairedThenFields ==
  ASSUME NEW f, f.op = "fields", NEW steps,
         \/ \E a : steps = <<a>> /\ ~Opens(a) /\ ~Ends(a)
         \/ \E a, b : steps = <<a, b>> /\ Joins(a, b) /\ ~Opens(b) /\ ~Ends(a)
  PROVE  Paired(steps \o <<f>>) /\ ~Ends((steps \o <<f>>)[1])
<1>1. ~Opens(f) /\ ~Ends(f)
  BY DEF Opens, Ends
<1>2. CASE \E a : steps = <<a>> /\ ~Opens(a) /\ ~Ends(a)
  <2>1. PICK a : steps = <<a>> /\ ~Opens(a) /\ ~Ends(a)
    BY <1>2
  <2>. DEFINE all == steps \o <<f>>
  <2>2. Len(all) = 2 /\ all[1] = a /\ all[2] = f
    <3>1. steps \in Seq({a, f}) /\ <<f>> \in Seq({a, f})
      BY <2>1
    <3>2. Len(steps) = 1 /\ steps[1] = a /\ Len(<<f>>) = 1 /\ <<f>>[1] = f
      BY <2>1
    <3>3. /\ Len(all) = Len(steps) + Len(<<f>>)
          /\ \A i \in 1 .. Len(steps) + Len(<<f>>) :
               all[i] = IF i <= Len(steps) THEN steps[i] ELSE <<f>>[i - Len(steps)]
      BY <3>1, ConcatProperties
    <3>. HIDE DEF all
    <3>4. Len(all) = 2 /\ all[1] = steps[1] /\ all[2] = <<f>>[1]
      BY <3>2, <3>3
    <3>. QED  BY <3>2, <3>4
  <2>. HIDE DEF all
  <2>3. Joins(a, f)
    BY <1>1, <2>1, JoinsPlain
  <2>4. ASSUME NEW i \in 1 .. 2
        PROVE  (Opens(all[i]) => i < 2) /\ (i < 2 => Joins(all[i], all[i + 1]))
    <3>1. i = 1 \/ i = 2
      OBVIOUS
    <3>2. CASE i = 1
      BY <2>2, <2>3, <3>2
    <3>3. CASE i = 2
      BY <1>1, <2>2, <3>3
    <3>. QED  BY <3>1, <3>2, <3>3
  <2>. QED  BY <2>1, <2>2, <2>4 DEF Paired, all
<1>3. CASE \E a, b : steps = <<a, b>> /\ Joins(a, b) /\ ~Opens(b) /\ ~Ends(a)
  <2>1. PICK a, b : steps = <<a, b>> /\ Joins(a, b) /\ ~Opens(b) /\ ~Ends(a)
    BY <1>3
  <2>. DEFINE all == steps \o <<f>>
  <2>2. Len(all) = 3 /\ all[1] = a /\ all[2] = b /\ all[3] = f
    <3>1. steps \in Seq({a, b, f}) /\ <<f>> \in Seq({a, b, f})
      BY <2>1
    <3>2. Len(steps) = 2 /\ steps[1] = a /\ steps[2] = b /\ Len(<<f>>) = 1 /\ <<f>>[1] = f
      BY <2>1
    <3>3. /\ Len(all) = Len(steps) + Len(<<f>>)
          /\ \A i \in 1 .. Len(steps) + Len(<<f>>) :
               all[i] = IF i <= Len(steps) THEN steps[i] ELSE <<f>>[i - Len(steps)]
      BY <3>1, ConcatProperties
    <3>. HIDE DEF all
    <3>4. Len(all) = 3 /\ all[1] = steps[1] /\ all[2] = steps[2] /\ all[3] = <<f>>[1]
      BY <3>2, <3>3
    <3>. QED  BY <3>2, <3>4
  <2>. HIDE DEF all
  <2>3. Joins(b, f)
    BY <1>1, <2>1, JoinsPlain
  <2>4. ASSUME NEW i \in 1 .. 3
        PROVE  (Opens(all[i]) => i < 3) /\ (i < 3 => Joins(all[i], all[i + 1]))
    <3>1. i = 1 \/ i = 2 \/ i = 3
      OBVIOUS
    <3>2. CASE i = 1
      BY <2>1, <2>2, <3>2
    <3>3. CASE i = 2
      BY <2>2, <2>3, <3>3
    <3>4. CASE i = 3
      BY <1>1, <2>2, <3>4
    <3>. QED  BY <3>1, <3>2, <3>3, <3>4
  <2>. QED  BY <2>1, <2>2, <2>4 DEF Paired, all
<1>. QED  BY <1>2, <1>3

-----------------------------------------------------------------------------
(* The actions.                                                              *)

LEMMA InitFiles == Init => \E home \in Homes : FInv(home)
<1>. SUFFICES ASSUME Init PROVE \E home \in Homes : FInv(home)
  OBVIOUS
<1>. DEFINE home == [f \in Files |-> IF Start[f] = Absent THEN Absent ELSE Start[f].parent]
<1>1. /\ table = Start /\ IsTable(Start) /\ used = {f \in Files : Start[f] # Absent}
      /\ disk = {<<Start[f].parent, f, "own">> : f \in used} /\ torn = {}
      /\ \A r \in Requests : DOMAIN undo[r] = {} /\ todo[r] = <<>> /\ dirty[r] = {}
      /\ dirty \in [Requests -> SUBSET Files]
      /\ \A u \in Users, f \in Files : view[u][f] = Absent
  BY DataStoreAssumption DEF Init
<1>2. \A f \in Files : Start[f] = Absent \/ Start[f].parent \in Orders
  BY <1>1, FilesAreKeys DEF IsTable, RelatedRow
<1>3. home \in Homes /\ \A f \in Files : Start[f] # Absent => home[f] = Start[f].parent
  BY <1>2 DEF Homes
<1>. HIDE DEF home
<1>4. \A e \in disk : KinEntry(home, e)
  BY <1>1, <1>3 DEF KinEntry, Names
<1>5. Kin(home)
  BY <1>1, <1>2, <1>3, <1>4 DEF Kin
<1>6. \A f \in Files : On(home, f) <=> table[f] # Absent
  <2>1. ASSUME NEW f \in Files, Start[f] # Absent PROVE On(home, f)
    BY <1>1, <1>3, <2>1 DEF On
  <2>2. ASSUME NEW f \in Files, On(home, f) PROVE Start[f] # Absent
    <3>. DEFINE e == <<home[f], f, "own">>
    <3>1. e \in disk /\ e[2] = f
      BY <2>2 DEF On
    <3>. HIDE DEF e
    <3>. QED  BY <1>1, <1>4, <3>1 DEF KinEntry
  <2>. QED  BY <1>1, <2>1, <2>2
<1>7. \A f : Committed(f) = table[f]
  BY <1>1 DEF Committed
<1>8. Settled(home)
  BY <1>6, <1>7 DEF Settled
<1>9. \A r \in Requests : AtWork(home, r)
  <2>1. \A r \in Requests : 1 .. Len(todo[r]) = {}
    BY <1>1
  <2>. QED  BY <1>1, <2>1 DEF AtWork, Paired, Due
<1>10. FInv(home)
  BY <1>5, <1>8, <1>9 DEF FInv
<1>. QED  BY <1>3, <1>10

LEMMA QueryFiles ==
  ASSUME IInv, NEW home, FInv(home), NEW u \in Users, Query(u)
  PROVE  FInv(home)'
<1>1. /\ view' = [view EXCEPT ![u] = [k \in Orders \cup Files |-> Committed(k)]]
      /\ UNCHANGED <<table, undo, todo, disk, used, dirty, torn>>
  BY DEF Query, history
<1>2. Kin(home) /\ Settled(home) /\ DOMAIN view = Users
  BY DEF FInv, IInv, Types
<1>3. \A v \in Users, f \in Files : view'[v][f] = view[v][f] \/ view'[v][f] = Committed(f)
  BY <1>1, <1>2
<1>4. \A v \in Users, f \in Files : view'[v][f] # Absent => f \in used /\ view'[v][f].parent = home[f]
  BY <1>2, <1>3, CommittedKin DEF Kin
<1>5. Kin(home)'
  BY <1>1, <1>2, <1>4 DEF Kin, KinEntry
<1>6. \A x : Committed(x)' = Committed(x)
  BY <1>1 DEF Committed
<1>7. Settled(home)'
  BY <1>1, <1>2, <1>6, SettledKept DEF On
<1>8. ASSUME NEW q \in Requests PROVE AtWork(home, q)'
  <2>1. AtWork(home, q) /\ todo[q] \in Seq(AnyStep)
    BY DEF FInv, IInv, Types
  <2>. QED  BY <1>1, <2>1, OthersAtWork DEF On
<1>. QED  BY <1>5, <1>7, <1>8 DEF FInv

\* Nothing that the invariant speaks of changes.
LEMMA IdleFiles ==
  ASSUME IInv, NEW home, FInv(home),
         UNCHANGED <<table, undo, todo, disk, used, view, dirty, torn>>
  PROVE  FInv(home)'
<1>1. \A x : Committed(x)' = Committed(x)
  BY DEF Committed
<1>2. Kin(home)'
  BY DEF FInv, Kin, KinEntry
<1>3. Settled(home)'
  BY <1>1, SettledKept DEF FInv, On
<1>4. ASSUME NEW q \in Requests PROVE AtWork(home, q)'
  <2>1. AtWork(home, q) /\ todo[q] \in Seq(AnyStep)
    BY DEF FInv, IInv, Types
  <2>. QED  BY <2>1, OthersAtWork DEF On
<1>. QED  BY <1>2, <1>3, <1>4 DEF FInv

LEMMA CrashFiles ==
  ASSUME IInv, NEW home, FInv(home), Crash
  PROVE  FInv(home)'
<1>1. /\ table' = [k \in Keys |-> Committed(k)]
      /\ undo' = [r \in Requests |-> <<>>] /\ todo' = [r \in Requests |-> <<>>]
      /\ torn' = torn \cup UNION {dirty[r] : r \in Requests}
      /\ dirty' = [r \in Requests |-> {}] /\ UNCHANGED <<disk, used, view>>
  BY DEF Crash, clients
<1>2. Kin(home) /\ Settled(home) /\ Files \subseteq Keys
  BY FilesAreKeys DEF FInv
<1>3. \A r \in Requests : DOMAIN undo'[r] = {} /\ todo'[r] = <<>> /\ dirty'[r] = {}
  BY <1>1
<1>4. \A f \in Files : table'[f] = Committed(f) /\ Committed(f)' = Committed(f)
  <2>1. \A f \in Files : Committed(f)' = table'[f]
    BY <1>3 DEF Committed
  <2>. QED  BY <1>1, <1>2, <2>1
<1>5. Kin(home)'
  <2>1. \A f \in Files : table'[f] # Absent => f \in used /\ table'[f].parent = home[f]
    BY <1>2, <1>4, CommittedKin
  <2>2. dirty' \in [Requests -> SUBSET Files]
    BY <1>1
  <2>3. \A r \in Requests : DOMAIN undo'[r] = {} /\ dirty'[r] = {}
    BY <1>3
  <2>4. /\ \A f \in used : home[f] \in Orders
        /\ \A u \in Users, f \in Files :
             view[u][f] # Absent => f \in used /\ view[u][f].parent = home[f]
        /\ \A e \in disk : KinEntry(home, e)
    BY <1>2 DEF Kin
  <2>5. UNCHANGED <<disk, used, view>>
    BY <1>1
  <2>6. \A e \in disk : KinEntry(home, e)'
    BY <1>1, <2>4, <2>5 DEF KinEntry
  <2>. QED  BY <2>1, <2>2, <2>3, <2>4, <2>5, <2>6 DEF Kin
<1>6. Settled(home)'
  <2>1. \A f \in Files : f \notin torn' => \A r \in Requests : f \notin dirty[r]
    BY <1>1
  <2>. QED  BY <1>1, <1>2, <1>4, <2>1, SettledKept DEF On
<1>7. ASSUME NEW r \in Requests PROVE AtWork(home, r)'
  <2>1. 1 .. Len(todo'[r]) = {}
    BY <1>3
  <2>. QED  BY <1>3, <2>1 DEF AtWork, Paired, Due
<1>. QED  BY <1>5, <1>6, <1>7 DEF FInv

\* What a save knows of the files of a row, its user has seen.
Seen(u, s) ==
  s.op \in {"create", "update", "delete"} =>
    \A f \in s.seen : f \in Files /\ Belongs(view[u][f], {s.id})

LEMMA SentSeen ==
  ASSUME IInv, NEW u \in Users, NEW b \in Bodies, CanSend(u, b),
         NEW i \in 1 .. Len(Steps(u, b))
  PROVE  Seen(u, Steps(u, b)[i])
<1>. DEFINE f == FilterSteps(u)
<1>1. ASSUME NEW s, s.op \notin {"create", "update", "delete"} PROVE Seen(u, s)
  BY <1>1 DEF Seen
<1>2. f \in Seq(AnyStep) /\ \A j \in 1 .. Len(f) : Seen(u, f[j])
  <2>1. f \in Seq(AnyStep)
    BY FilterStepsAre DEF StepsOf
  <2>. DEFINE s == Plain("query")
  <2>2. s.op \notin {"create", "update", "delete"}
    BY DEF Plain
  <2>. HIDE DEF s
  <2>3. f = <<>> \/ f = <<s>>
    BY DEF FilterSteps, s
  <2>. HIDE DEF f
  <2>. QED  BY <1>1, <2>1, <2>2, <2>3
<1>. HIDE DEF f
<1>3. ASSUME NEW s \in AnyStep, s.op \notin {"create", "update", "delete"},
             Steps(u, b) = f \o <<s>>
      PROVE  Seen(u, Steps(u, b)[i])
  <2>1. <<s>> \in Seq(AnyStep) /\ \A j \in 1 .. Len(<<s>>) : <<s>>[j] = s
    OBVIOUS
  <2>. QED  BY <1>1, <1>2, <1>3, <2>1, ConcatElements
<1>4. CASE b.op = "save" /\ b.rows \in Seq(RowBody)
  <2>. DEFINE rows == [j \in 1 .. Len(b.rows) |-> RowStep(u, b.rows[j])]
  <2>1. Len(b.rows) \in Nat /\ \A j \in 1 .. Len(b.rows) : RowStep(u, b.rows[j]) \in AnyStep
    BY <1>4, RowStepIs
  <2>2. rows \in Seq(AnyStep) /\ Len(rows) = Len(b.rows)
        /\ \A j \in 1 .. Len(b.rows) : rows[j] = RowStep(u, b.rows[j])
    BY <2>1
  <2>3. ASSUME NEW j \in 1 .. Len(b.rows) PROVE Seen(u, rows[j])
    <3>. DEFINE row == b.rows[j]  a == RowStep(u, row)
    <3>1. row.type # "badRow" => a.seen = {g \in Files : Belongs(view[u][g], {a.id})}
      BY DEF RowStep
    <3>2. row.type = "badRow" => a.op \notin {"create", "update", "delete"}
      BY DEF RowStep, Plain
    <3>3. rows[j] = a
      BY <2>2
    <3>. HIDE DEF rows, a, row
    <3>. QED  BY <3>1, <3>2, <3>3 DEF Seen
  <2>4. Steps(u, b) = f \o rows
    BY <1>4 DEF Steps, f
  <2>. HIDE DEF rows
  <2>. QED  BY <1>2, <2>2, <2>3, <2>4, ConcatElements
<1>5. CASE b.op = "update" /\ b.ids \in SUBSET Orders /\ b.owner \in Users
  <2>. DEFINE s == [op |-> "updateWhere", scan |-> b.ids, owner |-> b.owner]
  <2>1. s \in AnyStep /\ s.op \notin {"create", "update", "delete"}
    BY <1>5 DEF AnyStep
  <2>2. Steps(u, b) = f \o <<s>>
    BY <1>5 DEF Steps, f
  <2>. HIDE DEF s
  <2>. QED  BY <1>3, <2>1, <2>2
<1>6. CASE b.op = "batchDelete" /\ b.ids \in SUBSET Orders
  <2>. DEFINE s == [op |-> "deleteWhere", scan |-> b.ids]
  <2>1. s \in AnyStep /\ s.op \notin {"create", "update", "delete"}
    BY <1>6 DEF AnyStep
  <2>2. Steps(u, b) = f \o <<s>>
    BY <1>6 DEF Steps, f
  <2>. HIDE DEF s
  <2>. QED  BY <1>3, <2>1, <2>2
<1>7. CASE /\ b.op = "delete" /\ b.ids \in SUBSET Orders /\ (u \in Filtered \/ b.all)
           /\ ~(u \in Filtered /\ b.all /\ ~b.filter)
  <2>. DEFINE s == [op |-> "select", scan |-> {}, ids |-> Asked(b)]
  <2>1. s \in AnyStep /\ s.op \notin {"create", "update", "delete"}
    BY <1>7 DEF AnyStep, Asked
  <2>2. Steps(u, b) = f \o <<s>>
    BY <1>7 DEF Steps, f
  <2>. HIDE DEF s
  <2>. QED  BY <1>3, <2>1, <2>2
<1>9. CASE b.op = "delete" /\ u \in Filtered /\ b.all /\ ~b.filter
  <2>. DEFINE s == Plain("badFilter")
  <2>1. s \in AnyStep /\ s.op \notin {"create", "update", "delete"}
    BY PlainIs DEF Bad
  <2>2. Steps(u, b) = f \o <<s>>
    BY <1>9 DEF Steps, f
  <2>. HIDE DEF s
  <2>. QED  BY <1>3, <2>1, <2>2
<1>8. CASE b.op = "delete" /\ b.ids \in SUBSET Orders /\ ~(u \in Filtered \/ b.all)
  <2>. DEFINE s == DeleteStep(b.ids, [o \in Orders |-> NoVersion])
  <2>1. s.op \notin {"create", "update", "delete"}
    BY DEF DeleteStep
  <2>2. Steps(u, b) = <<s>>
    BY <1>8 DEF Steps
  <2>. HIDE DEF s
  <2>. QED  BY <1>1, <2>1, <2>2
<1>. QED  BY <1>4, <1>5, <1>6, <1>7, <1>8, <1>9, BodyIs

LEMMA SendFiles ==
  ASSUME IInv, NEW home, FInv(home),
         NEW r \in Requests, NEW u \in Users, NEW b \in Bodies, Send(r, u, b)
  PROVE  FInv(home)'
<1>. DEFINE steps == Steps(u, b)
<1>1. /\ UNCHANGED <<table, undo, disk, used, view, dirty, torn>> /\ pc[r] = "idle"
      /\ CanSend(u, b) /\ todo' = [todo EXCEPT ![r] = steps]
  BY DEF Send, history
<1>2. todo'[r] = steps /\ \A q \in Requests : q # r => todo'[q] = todo[q]
  BY <1>1 DEF IInv, Types
<1>3. /\ steps \in Seq(AnyStep)
      /\ \A i \in 1 .. Len(steps) : steps[i].op \notin Early /\ Seen(u, steps[i])
  BY <1>1, SentSteps, SentLate, SentSeen DEF StepsOf
<1>. HIDE DEF steps
<1>4. Kin(home) /\ Settled(home)
  BY DEF FInv
<1>5. Kin(home)'
  BY <1>1, <1>4 DEF Kin, KinEntry
<1>6. \A x : Committed(x)' = Committed(x)
  BY <1>1 DEF Committed
<1>7. Settled(home)'
  BY <1>1, <1>4, <1>6, SettledKept DEF On
<1>8. ASSUME NEW q \in Requests, q # r PROVE AtWork(home, q)'
  <2>1. AtWork(home, q) /\ todo[q] \in Seq(AnyStep) /\ todo'[q] = todo[q]
    BY <1>2, <1>8 DEF FInv, IInv, Types
  <2>. QED  BY <1>1, <2>1, OthersAtWork DEF On
<1>9. DOMAIN undo'[r] = {}
  BY <1>1 DEF IInv, LocksHeld
<1>10. Paired(steps) /\ (steps # <<>> => ~Ends(steps[1]))
  BY <1>3, PairedLate
<1>11. ASSUME NEW i \in 1 .. Len(steps) PROVE Placed(home, r, todo[r][i])'
  <2>0. PICK s : s = steps[i] /\ s = todo'[r][i]
    BY <1>2
  <2>1. s.op \notin Early /\ Seen(u, s)
    BY <1>3, <2>0
  <2>2. s.op \in {"create", "update", "delete"} => \A f \in s.seen : f \in used' /\ home[f] = s.id
    BY <1>1, <1>4, <2>1 DEF Seen, Belongs, Kin
  <2>3. Placed(home, r, s)'
    BY <2>1, <2>2 DEF Placed, Early
  <2>. QED  BY <2>0, <2>3
<1>12. \A f \in Files : steps # <<>> => HalfDone(home, todo[r][1], f)'
  BY <1>2, <1>10, NotEnding DEF HalfDone
<1>13. Due(home, r)'
  BY <1>2, <1>9, <1>12 DEF Due
<1>14. Paired(todo[r])'
  BY <1>2, <1>10 DEF Paired
<1>15. AtWork(home, r)'
  BY <1>2, <1>11, <1>13, <1>14 DEF AtWork
<1>. QED  BY <1>5, <1>7, <1>8, <1>15 DEF FInv

LEMMA QueryFilterDataFiles ==
  ASSUME IInv, NEW home, FInv(home), NEW r \in Requests, QueryFilterData(r)
  PROVE  FInv(home)'
<1>1. /\ todo[r] # <<>> /\ Continue(r, <<>>) /\ Step(r).op \in {"query", "childQuery"}
      /\ UNCHANGED <<table, undo, view, disk, dirty, torn, used>>
  BY DEF QueryFilterData, Running, clients, history
<1>. DEFINE none == <<>>
<1>2. none \in Seq(AnyStep) /\ \A j \in 1 .. Len(none) : FALSE
  OBVIOUS
<1>3. Continue(r, none) /\ none = <<>>
  BY <1>1
<1>. HIDE DEF none
<1>4. Paired(none)
  BY <1>2 DEF Paired
<1>5. \A f \in used' : home[f] \in Orders
  BY <1>1 DEF FInv, Kin
<1>. QED  BY <1>1, <1>2, <1>3, <1>4, <1>5, PlanFiles

LEMMA GetPermissionIdsFiles ==
  ASSUME IInv, IInv', NEW home, FInv(home), NEW r \in Requests, GetPermissionIds(r)
  PROVE  FInv(home)'
<1>1. todo[r] # <<>> /\ Step(r).op = "select"
  BY DEF GetPermissionIds, Running
<1>2. CASE Abort(r)
  BY <1>2, AbortFiles
<1>3. CASE /\ Continue(r, <<SelectedStep(r)>>)
           /\ UNCHANGED <<table, undo, view, disk, dirty, torn, used>>
  <2>1. PICK s : s = SelectedStep(r) /\ <<s>> \in Seq(AnyStep) /\ s.op = "deleteIds"
    BY <1>1, SelectedStepIs DEF NewSteps, StepsOf
  <2>2. PICK steps : steps = <<s>> /\ \A j \in 1 .. Len(steps) : steps[j] = s
    <3>1. \A j \in 1 .. Len(<<s>>) : <<s>>[j] = s
      OBVIOUS
    <3>. QED  BY <3>1
  <2>3. steps \in Seq(AnyStep) /\ Continue(r, steps)
    BY <1>3, <2>1, <2>2
  <2>4. Paired(steps) /\ (steps # <<>> => ~Ends(steps[1]))
    BY <2>1, <2>2, <2>3, PairedLate DEF Early
  <2>5. \A j \in 1 .. Len(steps) : Placed(home, r, steps[j])'
    BY <2>1, <2>2 DEF Placed
  <2>6. \A f \in used' : home[f] \in Orders
    BY <1>3 DEF FInv, Kin
  <2>. QED  BY <1>1, <1>3, <2>3, <2>4, <2>5, <2>6, PlanFiles
<1>. QED  BY <1>2, <1>3 DEF GetPermissionIds, SelectedStep, history, clients

\* A new file gets its home when its ID is drawn.
LEMMA SaveRelatedFieldFiles ==
  ASSUME IInv, KInv, NEW old \in Homes, FInv(old), NEW r \in Requests, SaveRelatedField(r)
  PROVE  \E home \in Homes : FInv(home)'
<1>1. PICK s : s = Step(r)
  OBVIOUS
<1>2. /\ todo[r] # <<>> /\ s.op = "fields" /\ Step(r).op \in {"query", "select", "fields"}
      /\ UNCHANGED <<table, undo, view, disk, dirty, torn>>
  BY <1>1 DEF SaveRelatedField, Running, clients, history
<1>3. s \in AnyStep /\ s = todo[r][1] /\ 1 \in 1 .. Len(todo[r])
  BY <1>1, <1>2, StepIs, FirstStep
<1>4. s.id \in Orders /\ s.rel \in SUBSET Related /\ s.seen \in SUBSET Files
  BY <1>2, <1>3 DEF AnyStep
<1>5. s.id \in DOMAIN undo[r]
  BY <1>2, <1>3 DEF KInv, Tidy, StepsReady, Ready
<1>6. \/ Continue(r, <<>>) /\ UNCHANGED used
      \/ \E x \in s.rel : \E steps \in FieldSteps(user[r], s, x) :
           /\ x.op = "addFile" => Files \ used # {}
           /\ Continue(r, steps \o <<Fields(s, s.rel \ {x})>>)
           /\ used' = IF x.op = "addFile" THEN used \cup {NextFile} ELSE used
  BY <1>1 DEF SaveRelatedField
<1>7. CASE Continue(r, <<>>) /\ UNCHANGED used
  <2>. DEFINE none == <<>>
  <2>1. none \in Seq(AnyStep) /\ \A j \in 1 .. Len(none) : FALSE
    OBVIOUS
  <2>2. Continue(r, none) /\ none = <<>>
    BY <1>7
  <2>. HIDE DEF none
  <2>3. Paired(none)
    BY <2>1 DEF Paired
  <2>4. used \subseteq used' /\ \A f \in used' : old[f] \in Orders
    BY <1>7 DEF FInv, Kin
  <2>5. FInv(old)'
    BY <1>2, <2>1, <2>2, <2>3, <2>4, PlanFiles
  <2>. QED  BY <2>5
<1>8. ASSUME NEW x \in s.rel, NEW steps \in FieldSteps(user[r], s, x),
             x.op = "addFile" => Files \ used # {},
             Continue(r, steps \o <<Fields(s, s.rel \ {x})>>),
             used' = IF x.op = "addFile" THEN used \cup {NextFile} ELSE used
      PROVE  \E home \in Homes : FInv(home)'
  <2>1. PICK home \in Homes :
          /\ FInv(home)
          /\ x.op = "addFile" => NextFile \in Files /\ home[NextFile] = s.id
    <3>1. CASE x.op = "addFile"
      <4>1. NextFile \in Files /\ NextFile \notin used
        BY <1>8, <3>1 DEF NextFile
      <4>. QED  BY <1>4, <4>1, HomeFree
    <3>. QED  BY <3>1
  <2>2. x \in Related /\ s.rel \ {x} \in SUBSET Related
    BY <1>4
  <2>3. used \subseteq used' /\ (x.op = "addFile" => NextFile \in used')
    BY <1>8
  <2>4. Placed(home, r, s) /\ Kin(home)
    BY <1>3, <2>1 DEF FInv, AtWork
  <2>5. \A f \in s.seen : f \in used /\ home[f] = s.id
    BY <1>2, <2>4 DEF Placed
  <2>6. PICK f : f = Fields(s, s.rel \ {x})
    OBVIOUS
  <2>7. f.op = "fields" /\ f.id = s.id /\ f.seen = s.seen
    BY <2>6 DEF Fields
  <2>8. steps \in Seq(AnyStep) /\ <<f>> \in Seq(AnyStep)
    BY <1>4, <1>8, <2>2, <2>6, FieldStepsAre, FieldsIs DEF StepsOf
  <2>9. \/ \E a : /\ steps = <<a>> /\ ~Opens(a) /\ ~Ends(a)
                  /\ Placed(home, r, a)'
        \/ \E a, b : /\ steps = <<a, b>> /\ Joins(a, b) /\ ~Opens(b) /\ ~Ends(a)
                     /\ Placed(home, r, a)' /\ Placed(home, r, b)'
    BY <1>2, <1>4, <1>5, <1>8, <2>1, <2>2, <2>3, <2>5, FieldStepsPaired
  <2>10. PICK all : all = steps \o <<f>>
    OBVIOUS
  <2>11. Paired(all) /\ ~Ends(all[1])
    BY <2>7, <2>9, <2>10, PairedThenFields
  <2>12. \A i \in 1 .. Len(steps) : Placed(home, r, steps[i])'
    <3>1. CASE \E a : steps = <<a>> /\ Placed(home, r, a)'
      <4>1. PICK a : steps = <<a>> /\ Placed(home, r, a)'
        BY <3>1
      <4>2. \A i \in 1 .. Len(steps) : steps[i] = a
        BY <4>1
      <4>. QED  BY <4>1, <4>2
    <3>2. CASE \E a, b : steps = <<a, b>> /\ Placed(home, r, a)' /\ Placed(home, r, b)'
      <4>1. PICK a, b : steps = <<a, b>> /\ Placed(home, r, a)' /\ Placed(home, r, b)'
        BY <3>2
      <4>2. \A i \in 1 .. Len(steps) : steps[i] = a \/ steps[i] = b
        BY <4>1
      <4>. QED  BY <4>1, <4>2
    <3>. QED  BY <2>9, <3>1, <3>2
  <2>13. Placed(home, r, f)'
    BY <2>3, <2>5, <2>7 DEF Placed
  <2>14. /\ all \in Seq(AnyStep)
         /\ \A j \in 1 .. Len(all) : all[j] = f \/ \E i \in 1 .. Len(steps) : all[j] = steps[i]
    <3>1. \A j \in 1 .. Len(<<f>>) : <<f>>[j] = f
      OBVIOUS
    <3>. QED  BY <2>8, <2>10, <3>1, ConcatElements
  <2>15. \A j \in 1 .. Len(all) : Placed(home, r, all[j])'
    BY <2>12, <2>13, <2>14
  <2>16. Continue(r, all)
    BY <1>8, <2>6, <2>10
  <2>17. \A g \in used' : home[g] \in Orders
    BY <1>4, <1>8, <2>1, <2>4 DEF Kin
  <2>18. FInv(home)'
    BY <1>2, <2>1, <2>3, <2>11, <2>14, <2>15, <2>16, <2>17, PlanFiles
  <2>. QED  BY <2>1, <2>18
<1>. QED  BY <1>6, <1>7, <1>8

\* The statements of a save that its fields follow.
LEMMA ThenFieldsFiles ==
  ASSUME IInv, IInv', NEW home, FInv(home), NEW r \in Requests, todo[r] # <<>>,
         Step(r).op \in {"create", "update"}, ~Blocked(r), NEW rows, Execute(r, rows),
         Continue(r, <<Fields(Step(r), Step(r).rel)>>), UNCHANGED <<used, torn>>
  PROVE  FInv(home)'
<1>1. PICK s : s = Step(r) /\ s \in AnyStep /\ s.scan = {s.id}
  BY StepIs DEF NamesItself
<1>2. /\ s.id \in Orders /\ s.rel \in SUBSET Related /\ s.seen \in SUBSET Files
      /\ Scan(r) \subseteq Orders
  BY <1>1, ScanIs
<1>3. Placed(home, r, s)
  BY <1>1, FirstStep DEF FInv, AtWork
<1>4. \A g \in s.seen : g \in used /\ home[g] = s.id
  BY <1>1, <1>3 DEF Placed
<1>5. PICK f : f = Fields(s, s.rel)
  OBVIOUS
<1>6. f.op = "fields" /\ f.id = s.id /\ f.seen = s.seen
  BY <1>5 DEF Fields
<1>7. <<f>> \in Seq(AnyStep) /\ f \in AnyStep
  <2>1. <<f>> \in Seq(AnyStep)
    BY <1>2, <1>5, FieldsIs DEF StepsOf
  <2>2. 1 \in 1 .. Len(<<f>>) /\ <<f>>[1] = f
    OBVIOUS
  <2>. QED  BY <2>1, <2>2
<1>8. PICK steps : steps = <<f>>
  OBVIOUS
<1>9. /\ <<f>> \in Seq(AnyStep) /\ Paired(<<f>>) /\ ~Ends(<<f>>[1])
      /\ \A i \in 1 .. Len(<<f>>) : <<f>>[i] = f
  BY <1>6, <1>7, FieldsPaired
<1>10. /\ steps \in Seq(AnyStep) /\ Paired(steps) /\ ~Ends(steps[1])
       /\ \A i \in 1 .. Len(steps) : steps[i] = f
  BY <1>8, <1>9
<1>11. Placed(home, r, f)'
  BY <1>4, <1>6 DEF Placed
<1>12. \A j \in 1 .. Len(steps) : Placed(home, r, steps[j])'
  BY <1>10, <1>11
<1>13. Continue(r, steps)
  BY <1>1, <1>5, <1>8
<1>14. Step(r).op \notin Early
  BY DEF Early
<1>. QED  BY <1>2, <1>10, <1>12, <1>13, <1>14, OrdersFiles

\* The statements of deletes that DeleteReleated follows.
LEMMA ThenReleatedFiles ==
  ASSUME IInv, IInv', NEW home, FInv(home), NEW r \in Requests, todo[r] # <<>>,
         Step(r).op \in {"delete", "deleteIds"}, ~Blocked(r), NEW rows, Execute(r, rows),
         Continue(r, DeleteReleated(Scan(r))), UNCHANGED <<used, torn>>
  PROVE  FInv(home)'
<1>1. PICK ids \in SUBSET Orders : ids = Scan(r)
  <2>1. Step(r) \in AnyStep /\ NamesItself(Step(r))
    BY StepIs
  <2>2. Scan(r) \subseteq Orders
    BY <2>1, ScanIs DEF NamesItself
  <2>. QED  BY <2>2
<1>2. PICK steps : /\ steps = DeleteReleated(ids) /\ steps \in Seq(AnyStep) /\ Paired(steps)
                   /\ ~Ends(steps[1])
                   /\ \A j \in 1 .. Len(steps) :
                        steps[j].op \in {"drop", "sweep"} /\ steps[j].ids = ids
  BY ReleatedPaired
<1>3. ids \subseteq DOMAIN undo'[r]
  <2>1. Scan(r) \subseteq Keys
    BY <1>1, FilesAreKeys
  <2>. QED  BY <1>1, <2>1, ExecuteIs
<1>4. ASSUME NEW j \in 1 .. Len(steps) PROVE Placed(home, r, steps[j])'
  <2>1. PICK s : s = steps[j] /\ s.op \in {"drop", "sweep"} /\ s.ids = ids
    BY <1>2
  <2>2. Placed(home, r, s)'
    BY <1>3, <2>1 DEF Placed
  <2>. QED  BY <2>1, <2>2
<1>5. Continue(r, steps) /\ Scan(r) \subseteq Orders
  BY <1>1, <1>2
<1>6. Step(r).op \notin Early
  BY DEF Early
<1>. QED  BY <1>2, <1>4, <1>5, <1>6, OrdersFiles

\* The statements that nothing follows.
LEMMA ThenNothingFiles ==
  ASSUME IInv, IInv', NEW home, FInv(home), NEW r \in Requests, todo[r] # <<>>,
         Step(r).op \in {"updateWhere", "deleteWhere"}, ~Blocked(r), NEW rows, Execute(r, rows),
         Continue(r, <<>>), UNCHANGED <<used, torn>>
  PROVE  FInv(home)'
<1>. DEFINE none == <<>>
<1>1. none \in Seq(AnyStep) /\ \A j \in 1 .. Len(none) : FALSE
  OBVIOUS
<1>2. Continue(r, none) /\ none = <<>>
  OBVIOUS
<1>. HIDE DEF none
<1>3. Paired(none)
  BY <1>1 DEF Paired
<1>4. Scan(r) \subseteq Orders
  BY StepIs, ScanIs
<1>5. Step(r).op \notin Early
  BY DEF Early
<1>. QED  BY <1>1, <1>2, <1>3, <1>4, <1>5, OrdersFiles

LEMMA OrdersActionFiles ==
  ASSUME IInv, IInv', NEW home, FInv(home), NEW r \in Requests,
         \/ CreateRow(r) \/ UpdateRow(r) \/ DeleteRow(r)
         \/ DeleteIds(r) \/ UpdateWhere(r) \/ DeleteWhere(r)
  PROVE  FInv(home)'
<1>1. CASE Abort(r)
  BY <1>1, AbortFiles
<1>2. CASE CreateRow(r) /\ ~Abort(r)
  <2>1. /\ todo[r] # <<>> /\ Step(r).op \in {"create", "update"} /\ ~Blocked(r)
        /\ Continue(r, <<Fields(Step(r), Step(r).rel)>>) /\ UNCHANGED <<used, torn>>
    BY <1>2 DEF CreateRow, Running
  <2>2. PICK rows : Execute(r, rows)
    BY <1>2 DEF CreateRow
  <2>. QED  BY <2>1, <2>2, ThenFieldsFiles
<1>3. CASE UpdateRow(r) /\ ~Abort(r)
  <2>1. /\ todo[r] # <<>> /\ Step(r).op \in {"create", "update"} /\ ~Blocked(r)
        /\ Continue(r, <<Fields(Step(r), Step(r).rel)>>) /\ UNCHANGED <<used, torn>>
    BY <1>3 DEF UpdateRow, Running
  <2>2. PICK rows : Execute(r, rows)
    BY <1>3 DEF UpdateRow
  <2>. QED  BY <2>1, <2>2, ThenFieldsFiles
<1>4. CASE DeleteRow(r) /\ ~Abort(r)
  <2>1. /\ todo[r] # <<>> /\ Step(r).op = "delete" /\ ~Blocked(r)
        /\ Continue(r, DeleteReleated({Step(r).id})) /\ UNCHANGED <<used, torn>>
    BY <1>4 DEF DeleteRow, Running
  <2>2. PICK rows : Execute(r, rows)
    BY <1>4 DEF DeleteRow
  <2>3. Scan(r) = {Step(r).id}
    BY <2>1, StepIs, ScanIs DEF NamesItself
  <2>. QED  BY <2>1, <2>2, <2>3, ThenReleatedFiles
<1>5. CASE DeleteIds(r)
  <2>1. /\ todo[r] # <<>> /\ Step(r).op = "deleteIds" /\ ~Blocked(r)
        /\ Continue(r, DeleteReleated(Step(r).scan)) /\ UNCHANGED <<used, torn>>
    BY <1>5 DEF DeleteIds, Running
  <2>2. PICK rows : Execute(r, rows)
    BY <1>5 DEF DeleteIds
  <2>3. Scan(r) = Step(r).scan
    BY <2>1, StepIs, ScanIs
  <2>. QED  BY <2>1, <2>2, <2>3, ThenReleatedFiles
<1>6. CASE UpdateWhere(r) \/ DeleteWhere(r)
  <2>1. /\ todo[r] # <<>> /\ Step(r).op \in {"updateWhere", "deleteWhere"} /\ ~Blocked(r)
        /\ Continue(r, <<>>) /\ UNCHANGED <<used, torn>>
    BY <1>6 DEF UpdateWhere, DeleteWhere, Running
  <2>2. PICK rows : Execute(r, rows)
    BY <1>6 DEF UpdateWhere, DeleteWhere
  <2>. QED  BY <2>1, <2>2, ThenNothingFiles
<1>. QED  BY <1>1, <1>2, <1>3, <1>4, <1>5, <1>6

LEMMA RowActionFiles ==
  ASSUME IInv, IInv', KInv, NEW home, FInv(home), NEW r \in Requests,
         InsertRow(r) \/ RemoveRow(r) \/ KeepRow(r)
  PROVE  FInv(home)'
<1>1. CASE Abort(r)
  BY <1>1, AbortFiles
<1>2. CASE InsertRow(r) /\ ~Abort(r)
  BY <1>2, InsertRowFiles DEF InsertRow, Running
<1>3. CASE RemoveRow(r) /\ ~Abort(r)
  BY <1>3, RemoveRowFiles DEF RemoveRow, Running
<1>4. CASE KeepRow(r) /\ ~Abort(r)
  BY <1>4, KeepRowFiles DEF KeepRow, Running
<1>. QED  BY <1>1, <1>2, <1>3, <1>4

-----------------------------------------------------------------------------
(* The theorem.                                                              *)

LEMMA NextFiles ==
  IInv /\ IInv' /\ KInv /\ FileInvariant /\ [Next]_vars => FileInvariant'
<1>. SUFFICES ASSUME IInv, IInv', KInv, NEW home \in Homes, FInv(home), [Next]_vars
              PROVE  \E new \in Homes : FInv(new)'
  BY DEF FileInvariant, Homes
<1>1. ASSUME NEW u \in Users, Query(u) PROVE FInv(home)'
  BY <1>1, QueryFiles
<1>2. ASSUME NEW r \in Requests, NEW u \in Users, NEW b \in Bodies, Send(r, u, b)
      PROVE  FInv(home)'
  BY <1>2, SendFiles
<1>3. ASSUME NEW r \in Requests, Begin(r) PROVE FInv(home)'
  BY <1>3, IdleFiles DEF Begin, clients, history
<1>4. ASSUME NEW r \in Requests, Proceed(r), ~SaveRelatedField(r) PROVE FInv(home)'
  BY <1>4, QueryFilterDataFiles, GetPermissionIdsFiles, OrdersActionFiles, RowActionFiles,
     DropRelatedFiles, FileActionFiles, EndFiles, IdleFiles DEF Proceed, Panic, clients, history
<1>5. ASSUME NEW r \in Requests, SaveRelatedField(r) PROVE \E new \in Homes : FInv(new)'
  BY <1>5, SaveRelatedFieldFiles
<1>6. ASSUME NEW r \in Requests,
             LockTimeout(r) \/ StepFails(r) \/ WriteBreaks(r) \/ RemovalFails(r) \/ CommitFails(r)
      PROVE  FInv(home)'
  BY <1>6, EndFiles, FileActionFiles
<1>7. ASSUME Crash PROVE FInv(home)'
  BY <1>7, CrashFiles
<1>8. ASSUME UNCHANGED vars PROVE FInv(home)'
  BY <1>8, IdleFiles DEF vars
<1>. QED  BY <1>1, <1>2, <1>3, <1>4, <1>5, <1>6, <1>7, <1>8 DEF Next

LEMMA FilesMatch == IInv /\ KInv /\ FileInvariant => FilesMatchRows
<1>. SUFFICES ASSUME IInv, KInv, NEW home \in Homes, FInv(home), NEW f \in Files \ torn,
                     \A r \in Requests : f \notin dirty[r] /\ f \notin DOMAIN undo[r]
              PROVE  {e \in disk : e[2] = f} =
                       IF table[f] = Absent THEN {} ELSE {<<table[f].parent, f, "own">>}
  BY DEF FileInvariant, FilesMatchRows
<1>1. f \in Keys \ Orders
  BY FilesAreKeys
<1>2. On(home, f) <=> table[f] # Absent
  <2>1. Committed(f) = table[f]
    BY <1>1, CommittedAt DEF IInv
  <2>. QED  BY <2>1 DEF FInv, Settled
<1>3. \A e \in disk : e[2] = f => e = <<home[f], f, "own">>
  BY DEF FInv, Kin, KinEntry, Names
<1>4. CASE table[f] = Absent
  BY <1>2, <1>3, <1>4 DEF On
<1>5. CASE table[f] # Absent
  <2>1. table[f].parent = home[f] /\ home[f] \in Orders
    BY <1>5 DEF FInv, Kin
  <2>. DEFINE own == <<home[f], f, "own">>
  <2>2. own[2] = f /\ own \in disk
    BY <1>2, <1>5 DEF On
  <2>3. \A e \in disk : e[2] = f => e = own
    BY <1>3
  <2>. HIDE DEF own
  <2>4. {e \in disk : e[2] = f} = {own}
    BY <2>2, <2>3
  <2>. QED  BY <1>5, <2>1, <2>4 DEF own
<1>. QED  BY <1>4, <1>5

\* SaveFile and deleteFile: however saves and deletes overlap, wait or fail,
\* when no transaction is about to change a file its row and its content are
\* both there, under one order and one name, or both gone; left out are the
\* files that chance rules: those of transactions that failed after touching
\* them, those a client named otherwise than their row or whose row was gone,
\* those that could not be written or removed, and those that carry the mark of
\* a deleted order in their name.
THEOREM SpecFilesMatchRows == Spec => []FilesMatchRows
<1>1. Init => FileInvariant /\ KInv
  BY InitFiles, InitTidy DEF FileInvariant
<1>2. IInv /\ IInv' /\ KInv /\ [Next]_vars => KInv'
  BY NextTidy
<1>3. IInv /\ IInv' /\ KInv /\ FileInvariant /\ [Next]_vars => FileInvariant'
  BY NextFiles
<1>4. IInv /\ KInv /\ FileInvariant => FilesMatchRows
  BY FilesMatch
<1>. QED  BY <1>1, <1>2, <1>3, <1>4, SpecIInv, PTL DEF Spec
=============================================================================
