------------------------ MODULE OperationQueueProofs ------------------------
(***************************************************************************)
(* Proofs about OperationQueue, for any operations, chains of them, tabs,  *)
(* operations at login, and number of operations set.                      *)
(*                                                                         *)
(* An effect reads the state c that its render has closed over, and        *)
(* changes the state t of the moment, which reducers have moved on from c  *)
(* since.  The invariant is one of a single state (Good); Stale says what  *)
(* t still has to do with c, and that is enough for every effect.          *)
(***************************************************************************)
EXTENDS OperationQueue, SequenceTheorems, WellFoundedInduction, TLAPS

Words == Op \cup {NoOp}
Items == [op : Words, n : Nat, pending : BOOLEAN]
Queued == [op : Op, n : Nat, pending : {FALSE}]
Requests == [state : {"idle", "sent"} \cup Answer, for : Items]

States ==
  [current : Items, queue : Seq(Queued), needConfirm : BOOLEAN, failed : BOOLEAN,
   request : Requests, tabs : Seq(Key), active : Key \cup {NoOp}, lost : SUBSET Key,
   dialog : Words,
   screen : {"main", "login", "blank"}, sets : Nat, direct : SUBSET Nat, queued : SUBSET Nat,
   ran : SUBSET (Nat \X Words), again : BOOLEAN]

RanIn(t) == {x[1] : x \in t.ran}

\* Operations are numbered in the order they were accepted, from 1.
Numbers(t) ==
  /\ t.current.n <= t.sets
  /\ t.queued \subseteq 1 .. t.sets
  /\ RanIn(t) \subseteq 0 .. t.sets
  /\ \A i \in DOMAIN t.queue : t.queue[i].n \in t.queued
  /\ Idle(t) => t.current.n = 0 /\ ~t.current.pending

InOrder(t) ==
  /\ \A i, j \in DOMAIN t.queue : i < j => t.queue[i].n < t.queue[j].n
  /\ \A i \in DOMAIN t.queue : \A b \in t.queued \cap (RanIn(t) \cup {t.current.n}) : b < t.queue[i].n

Kept(t) ==
  \A n \in t.queued :
    n \in RanIn(t) \/ n = t.current.n \/ \E i \in DOMAIN t.queue : t.queue[i].n = n

Own(t) ==
  /\ t.request.state = "sent" => t.current.pending
  /\ t.current.pending =>
       /\ t.request.for.n = t.current.n /\ t.request.for.op = t.current.op
       /\ Type[t.current.op] = "request" /\ t.current.n \in RanIn(t)

TabsOf(t) ==
  /\ IsInjective(t.tabs)
  /\ t.tabs # <<>> => IsOpen(t.tabs, t.active) \/ t.active \in t.lost

Good(t) == t \in States /\ Numbers(t) /\ InOrder(t) /\ Kept(t) /\ Own(t) /\ TabsOf(t)

\* What the state t still has to do with the state c an effect has closed over.
Stale(c, t) ==
  /\ Opening(c) /\ IsOpen(c.tabs, KeyOf[c.current.op]) =>
       IsOpen(t.tabs, KeyOf[c.current.op]) \/ KeyOf[c.current.op] \in t.lost
  /\ c.request.state # "sent" => t.request = c.request
  /\ ~Idle(c) => t.current = c.current
  /\ Idle(c) => ~t.current.pending /\ t.current.n \notin t.queued

IInv == Good(store)

-----------------------------------------------------------------------------
(* Induction, and the loop over the operations of a login.                 *)

LEMMA Induction ==
  ASSUME NEW S, 0 \in S, \A n \in Nat : n \in S => n + 1 \in S
  PROVE  Nat \subseteq S
<1> DEFINE T == Nat \ S
           R == OpToRel(<, Nat)
<1>1. \A x, y \in Nat : x < y => <<x, y>> \in R
  BY DEF OpToRel
<1>2. IsWellFoundedOn(R, Nat)
  BY NatLessThanWellFounded
<1> HIDE DEF R
<1>3. SUFFICES ASSUME T # {} PROVE FALSE
  OBVIOUS
<1>4. PICK x \in T : \A y \in T : ~(<<y, x>> \in R)
  BY <1>2, <1>3, WFMin
<1>5. x \in Nat /\ x # 0
  BY <1>4
<1>6. x - 1 \in Nat /\ x - 1 < x /\ (x - 1) + 1 = x
  BY <1>5
<1>7. x - 1 \in T
  BY <1>4, <1>5, <1>6
<1>. QED  BY <1>1, <1>4, <1>5, <1>6, <1>7

\* What SetOperation keeps, the operations of a login keep.
LEMMA LoopKeeps ==
  ASSUME NEW P, NEW s \in P,
         \A t \in P, o \in Op, queenable \in BOOLEAN : SetOperation(t, o, queenable) \in P
  PROVE  RunInitOps(s) \in P
<1> DEFINE N == Len(InitOps)
           Step(t, k) == SetOperation(t, InitOps[k], InitOps[k] \in Queenable)
           IsAfter(g, n) == g = [k \in 0 .. n |-> IF k = 0 THEN s ELSE Step(g[k - 1], k)]
           S == {n \in Nat : \E g : IsAfter(g, n)}
<1>1. N \in Nat /\ \A k \in 1 .. N : InitOps[k] \in Op
  BY OpAssumption
<1>2. 0 \in S
  <2> DEFINE g == [k \in 0 .. 0 |-> s]
  <2>1. g = [k \in 0 .. 0 |-> IF k = 0 THEN s ELSE Step(g[k - 1], k)]
    OBVIOUS
  <2>. QED  BY <2>1
<1>3. ASSUME NEW n \in Nat, n \in S
      PROVE  n + 1 \in S
  <2>1. PICK g : IsAfter(g, n)
    BY <1>3
  <2> HIDE DEF Step
  <2> DEFINE h == [k \in 0 .. n + 1 |-> IF k = n + 1 THEN Step(g[n], n + 1) ELSE g[k]]
  <2>2. ASSUME NEW k \in 0 .. n + 1
        PROVE  h[k] = IF k = 0 THEN s ELSE Step(h[k - 1], k)
    <3>1. CASE k = n + 1
      <4>1. k # 0 /\ k - 1 = n /\ n \in 0 .. n + 1 /\ n # n + 1
        BY <3>1
      <4>2. h[k - 1] = g[n] /\ h[k] = Step(g[n], n + 1)
        BY <3>1, <4>1
      <4>. QED  BY <3>1, <4>1, <4>2
    <3>2. CASE k # n + 1
      <4>1. k \in 0 .. n
        BY <3>2
      <4>2. g[k] = IF k = 0 THEN s ELSE Step(g[k - 1], k)
        BY <2>1, <4>1
      <4>3. h[k] = g[k]
        BY <3>2
      <4>4. k # 0 => k - 1 \in 0 .. n + 1 /\ k - 1 # n + 1
        BY <4>1
      <4>5. k # 0 => h[k - 1] = g[k - 1]
        BY <4>4
      <4>. QED  BY <4>2, <4>3, <4>5
    <3>. QED  BY <3>1, <3>2
  <2>3. h = [k \in 0 .. n + 1 |-> h[k]]
    OBVIOUS
  <2>. HIDE DEF h
  <2>4. h = [k \in 0 .. n + 1 |-> IF k = 0 THEN s ELSE Step(h[k - 1], k)]
    BY <2>2, <2>3
  <2>. QED  BY <2>4 DEF Step
<1>4. N \in S
  <2>. HIDE DEF S, N
  <2>. QED  BY <1>1, <1>2, <1>3, Induction
<1>5. PICK after : IsAfter(after, N) /\ RunInitOps(s) = after[N]
  <2>1. RunInitOps(s) = (CHOOSE g : IsAfter(g, N))[N]
    BY DEF RunInitOps
  <2>2. IsAfter((CHOOSE g : IsAfter(g, N)), N)
    <3>1. \E g : IsAfter(g, N)
      BY <1>4
    <3>. HIDE DEF IsAfter
    <3>. QED  BY <3>1
  <2>. HIDE DEF IsAfter
  <2>. QED  BY <2>1, <2>2
<1> DEFINE U == {n \in Nat : n <= N => after[n] \in P}
<1>6. 0 \in U
  BY <1>1, <1>5
<1>7. ASSUME NEW n \in Nat, n \in U
      PROVE  n + 1 \in U
  <2> SUFFICES ASSUME n + 1 <= N PROVE after[n + 1] \in P
    OBVIOUS
  <2>1. n + 1 \in 0 .. N /\ n + 1 # 0 /\ (n + 1) - 1 = n /\ n + 1 \in 1 .. N /\ n <= N
    BY <1>1
  <2>2. after[n + 1] = Step(after[n], n + 1)
    <3>. HIDE DEF Step, N
    <3>. QED  BY <1>5, <2>1
  <2>3. after[n] \in P
    BY <1>7, <2>1
  <2>4. InitOps[n + 1] \in Op /\ (InitOps[n + 1] \in Queenable) \in BOOLEAN
    BY <1>1, <2>1
  <2>5. SetOperation(after[n], InitOps[n + 1], InitOps[n + 1] \in Queenable) \in P
    BY <2>3, <2>4, Zenon
  <2>. QED  BY <2>2, <2>5
<1>8. N \in U
  <2>. HIDE DEF U, N
  <2>. QED  BY <1>1, <1>6, <1>7, Induction
<1>. QED  BY <1>1, <1>5, <1>8

-----------------------------------------------------------------------------
(* The reducers.                                                           *)

\* The invariant does not speak of the other slices.
LEMMA SameCore ==
  ASSUME NEW t, Good(t), NEW u \in States,
         u.current = t.current, u.queue = t.queue, u.request = t.request, u.tabs = t.tabs,
         u.active = t.active /\ u.lost = t.lost, u.sets = t.sets, u.queued = t.queued, u.ran = t.ran
  PROVE  Good(u)
BY DEF Good, Numbers, InOrder, Kept, Own, TabsOf, RanIn, Idle

\* The parts of a state.
LEMMA StateParts ==
  ASSUME NEW t \in States
  PROVE  /\ t.current \in Items /\ t.queue \in Seq(Queued) /\ t.request \in Requests
         /\ t.tabs \in Seq(Key) /\ t.active \in Key \cup {NoOp} /\ t.lost \subseteq Key /\ t.sets \in Nat
         /\ t.queued \subseteq Nat /\ t.ran \subseteq Nat \X Words /\ RanIn(t) \subseteq Nat
         /\ t.screen \in {"main", "login", "blank"} /\ t.direct \subseteq Nat
<1>1. /\ t.current \in Items /\ t.queue \in Seq(Queued) /\ t.request \in Requests
      /\ t.tabs \in Seq(Key) /\ t.active \in Key \cup {NoOp} /\ t.lost \subseteq Key /\ t.sets \in Nat
      /\ t.queued \subseteq Nat /\ t.ran \subseteq Nat \X Words
      /\ t.screen \in {"main", "login", "blank"} /\ t.direct \subseteq Nat
  BY DEF States
<1>2. RanIn(t) \subseteq Nat
  BY <1>1 DEF RanIn
<1>. QED  BY <1>1, <1>2

LEMMA ItemFacts ==
  ASSUME NEW o \in Words, NEW n \in Nat
  PROVE  /\ Item(o, n) \in Items /\ Item(o, n).op = o /\ Item(o, n).n = n /\ ~Item(o, n).pending
         /\ o \in Op => Item(o, n) \in Queued
         /\ NoItem \in Items /\ NoItem.op = NoOp /\ NoItem.n = 0 /\ ~NoItem.pending
BY DEF Item, NoItem, Items, Queued, Words

\* The current operation is replaced, when there is none or when it has been
\* executed: by none, by one that follows it, or by a new one.
LEMMA ReplaceCurrent ==
  ASSUME NEW t, Good(t), t.request.state # "sent",
         t.current.n \notin t.queued \/ t.current.n \in RanIn(t),
         NEW u \in States,
         u.current.n \in {0, t.current.n} \/ (u.current.n = u.sets /\ u.current.n = t.sets + 1),
         Idle(u) => u.current.n = 0, ~u.current.pending,
         u.sets \in {t.sets, t.sets + 1},
         u.queue = t.queue, u.request = t.request, u.tabs = t.tabs,
         u.active = t.active /\ u.lost = t.lost, u.queued = t.queued, u.ran = t.ran
  PROVE  Good(u)
<1>1. t \in States /\ RanIn(u) = RanIn(t)
  BY DEF Good, RanIn
<1>2. t.sets \in Nat /\ t.queued \subseteq 1 .. t.sets /\ t.current.n \in 0 .. t.sets /\ RanIn(t) \subseteq 0 .. t.sets
  <2>1. t.current.n \in Nat
    BY <1>1, StateParts DEF Items
  <2>. QED  BY <1>1, <2>1, StateParts DEF Good, Numbers
<1>3. u.current.n \in 0 .. u.sets /\ (u.current.n \in u.queued => u.current.n = t.current.n)
  BY <1>2
<1>4. Numbers(u)
  BY <1>1, <1>2, <1>3 DEF Good, Numbers
<1>5. InOrder(u)
  BY <1>1, <1>3 DEF Good, InOrder
<1>6. Kept(u)
  BY <1>1 DEF Good, Kept
<1>7. Own(u) /\ TabsOf(u)
  BY DEF Good, Own, TabsOf
<1>. QED  BY <1>4, <1>5, <1>6, <1>7 DEF Good

\* A new operation goes to the end of the queue.
LEMMA AddToQueue ==
  ASSUME NEW t, Good(t), NEW o \in Op, NEW u \in States,
         u.queue = Append(t.queue, Item(o, t.sets + 1)), u.sets = t.sets + 1,
         u.queued = t.queued \cup {t.sets + 1},
         u.current = t.current, u.request = t.request, u.tabs = t.tabs,
         u.active = t.active /\ u.lost = t.lost, u.ran = t.ran
  PROVE  Good(u)
<1>1. t \in States /\ RanIn(u) = RanIn(t)
  BY DEF Good, RanIn
<1>2. t.sets \in Nat /\ t.queued \subseteq 1 .. t.sets /\ t.current.n \in 0 .. t.sets /\ RanIn(t) \subseteq 0 .. t.sets
  <2>1. t.current.n \in Nat
    BY <1>1, StateParts DEF Items
  <2>. QED  BY <1>1, <2>1, StateParts DEF Good, Numbers
<1>3. PICK item \in Queued : item = Item(o, t.sets + 1) /\ item.n = t.sets + 1
  BY <1>2, ItemFacts DEF Words
<1>4. PICK q, l : q = t.queue /\ l = Len(q)
  OBVIOUS
<1>5. /\ q \in Seq(Queued) /\ l \in Nat /\ DOMAIN q = 1 .. l
      /\ DOMAIN u.queue = 1 .. l + 1
      /\ \A i \in 1 .. l : u.queue[i] = q[i]
      /\ u.queue[l + 1] = item
  <2>1. q \in Seq(Queued)
    BY <1>1, <1>4, StateParts
  <2>2. u.queue = Append(q, item)
    BY <1>3, <1>4
  <2>. QED  BY <1>4, <2>1, <2>2, AppendProperties, LenProperties
<1>6. \A i \in 1 .. l : q[i].n \in t.queued /\ q[i].n < item.n
  <2>1. \A i \in 1 .. l : q[i].n \in t.queued
    BY <1>4, <1>5 DEF Good, Numbers
  <2>2. \A b \in t.queued : b < item.n
    BY <1>2, <1>3
  <2>. QED  BY <2>1, <2>2
<1>7. Numbers(u)
  <2>1. u.current.n <= u.sets /\ u.queued \subseteq 1 .. u.sets /\ RanIn(u) \subseteq 0 .. u.sets
    BY <1>1, <1>2
  <2>2. \A i \in 1 .. l : u.queue[i].n \in u.queued
    BY <1>5, <1>6
  <2>3. u.queue[l + 1].n \in u.queued
    BY <1>3, <1>5
  <2>4. \A i \in 1 .. l + 1 : u.queue[i].n \in u.queued
    <3>1. \A i \in 1 .. l + 1 : i \in 1 .. l \/ i = l + 1
      BY <1>5
    <3>. QED  BY <2>2, <2>3, <3>1
  <2>5. Idle(u) => u.current.n = 0 /\ ~u.current.pending
    BY DEF Good, Numbers, Idle
  <2>. QED  BY <1>5, <2>1, <2>4, <2>5 DEF Numbers
<1>8. InOrder(u)
  <2>1. \A i, j \in 1 .. l + 1 : i < j => u.queue[i].n < u.queue[j].n
    <3>1. \A i, j \in 1 .. l : i < j => q[i].n < q[j].n
      BY <1>4, <1>5 DEF Good, InOrder
    <3>2. \A i, j \in 1 .. l + 1 : i < j => i \in 1 .. l /\ (j \in 1 .. l \/ j = l + 1)
      BY <1>5
    <3>. QED  BY <1>5, <1>6, <3>1, <3>2
  <2>2. ASSUME NEW i \in 1 .. l + 1, NEW b \in u.queued \cap (RanIn(u) \cup {u.current.n})
        PROVE  b < u.queue[i].n
    <3>1. b \in t.queued /\ b < item.n
      BY <1>1, <1>2, <1>3
    <3>2. CASE i \in 1 .. l
      BY <1>1, <1>4, <1>5, <3>1, <3>2 DEF Good, InOrder
    <3>3. CASE i = l + 1
      BY <1>5, <3>1, <3>3
    <3>. QED  BY <1>5, <3>2, <3>3
  <2>. QED  BY <1>5, <2>1, <2>2 DEF InOrder
<1>9. Kept(u)
  <2>1. l + 1 \in 1 .. l + 1 /\ \A i \in 1 .. l : i \in 1 .. l + 1
    BY <1>5
  <2>2. ASSUME NEW n \in u.queued
        PROVE  n \in RanIn(u) \/ n = u.current.n \/ \E i \in DOMAIN u.queue : u.queue[i].n = n
    <3>1. CASE n = t.sets + 1
      BY <1>3, <1>5, <2>1, <3>1
    <3>2. CASE n \in t.queued
      BY <1>1, <1>4, <1>5, <2>1, <3>2 DEF Good, Kept
    <3>. QED  BY <3>1, <3>2
  <2>. QED  BY <2>2 DEF Kept
<1>10. Own(u) /\ TabsOf(u)
  BY <1>1 DEF Good, Own, TabsOf
<1>. QED  BY <1>7, <1>8, <1>9, <1>10 DEF Good

LEMMA SetOperationKeeps ==
  ASSUME NEW t, Good(t), NEW c, Stale(c, t), NEW o \in Op, NEW queenable \in BOOLEAN
  PROVE  Good(SetOperation(t, o, queenable)) /\ Stale(c, SetOperation(t, o, queenable))
<1>1. PICK u : u = SetOperation(t, o, queenable)
  OBVIOUS
<1>2. t \in States /\ t.sets \in Nat /\ t.sets + 1 \in Nat /\ NoOp \notin Op
  BY StateParts, OpAssumption DEF Good
<1>3. t.queued \subseteq 1 .. t.sets /\ t.current.n <= t.sets
  BY DEF Good, Numbers
<1>4. PICK item \in Items : /\ item = Item(o, t.sets + 1) /\ item.op = o /\ item.n = t.sets + 1
                            /\ ~item.pending /\ item \in Queued
  BY <1>2, ItemFacts DEF Words
<1>5. CASE Idle(t)
  <2>1. u = [t EXCEPT !.current = item, !.failed = FALSE,
                      !.sets = t.sets + 1, !.direct = t.direct \cup {t.sets + 1}]
    BY <1>1, <1>2, <1>4, <1>5 DEF SetOperation, States
  <2>2. /\ u \in States /\ u.current = item /\ u.sets = t.sets + 1
        /\ u.queue = t.queue /\ u.request = t.request /\ u.tabs = t.tabs
        /\ u.active = t.active /\ u.lost = t.lost /\ u.queued = t.queued /\ u.ran = t.ran
    BY <1>2, <2>1 DEF States
  <2>3. t.current.n = 0 /\ ~t.current.pending /\ t.request.state # "sent" /\ t.current.n \notin t.queued
    BY <1>2, <1>3, <1>5 DEF Good, Numbers, Own
  <2>4. Good(u)
    <3>1. ~Idle(u) /\ ~u.current.pending /\ u.current.n = u.sets
      BY <1>2, <1>4, <2>2 DEF Idle
    <3>. QED  BY <1>4, <2>2, <2>3, <3>1, ReplaceCurrent
  <2>5. u.current.n \notin u.queued /\ ~u.current.pending
    BY <1>2, <1>3, <1>4, <2>2
  <2>6. Stale(c, u)
    BY <1>5, <2>2, <2>5 DEF Stale, Idle
  <2>. QED  BY <1>1, <2>4, <2>6
<1>6. CASE ~Idle(t) /\ queenable
  <2>1. u = [t EXCEPT !.queue = Append(t.queue, item), !.sets = t.sets + 1,
                      !.queued = t.queued \cup {t.sets + 1}]
    BY <1>1, <1>2, <1>4, <1>6 DEF SetOperation, States
  <2>2. Append(t.queue, item) \in Seq(Queued)
    BY <1>2, <1>4, StateParts, AppendProperties
  <2>3. /\ u \in States /\ u.queue = Append(t.queue, item) /\ u.sets = t.sets + 1
        /\ u.queued = t.queued \cup {t.sets + 1}
        /\ u.current = t.current /\ u.request = t.request /\ u.tabs = t.tabs
        /\ u.active = t.active /\ u.lost = t.lost /\ u.ran = t.ran
    BY <1>2, <2>1, <2>2 DEF States
  <2>4. Good(u)
    BY <1>4, <2>3, AddToQueue
  <2>5. t.current.n # t.sets + 1
    <3>1. t.current.n \in Nat
      BY <1>2, StateParts DEF Items
    <3>. QED  BY <1>2, <1>3, <3>1
  <2>6. Stale(c, u)
    BY <2>3, <2>5 DEF Stale
  <2>. QED  BY <1>1, <2>4, <2>6
<1>7. CASE ~Idle(t) /\ ~queenable
  BY <1>7 DEF SetOperation
<1>. QED  BY <1>5, <1>6, <1>7

\* The operations of a login change nothing else either.
LEMMA RunInitOpsKeeps ==
  ASSUME NEW t, Good(t), NEW c, Stale(c, t)
  PROVE  Good(RunInitOps(t)) /\ Stale(c, RunInitOps(t))
<1> DEFINE P == {u \in States : Good(u) /\ Stale(c, u)}
<1>1. t \in P
  BY DEF Good
<1>2. ASSUME NEW u \in P, NEW o \in Op, NEW queenable \in BOOLEAN
      PROVE  SetOperation(u, o, queenable) \in P
  <2>1. Good(SetOperation(u, o, queenable)) /\ Stale(c, SetOperation(u, o, queenable))
    BY SetOperationKeeps
  <2>. QED  BY <2>1 DEF Good
<1>3. RunInitOps(t) \in P
  <2>. HIDE DEF P
  <2>. QED  BY <1>1, <1>2, LoopKeeps
<1>. QED  BY <1>3

\* The current operation has been executed and no request is on its way.
Executed(t) ==
  Good(t) /\ ~Idle(t) /\ t.current.n \in RanIn(t) /\ t.request.state # "sent"

LEMMA FollowKeeps ==
  ASSUME NEW t, Executed(t), NEW o \in Words
  PROVE  Good(Follow(t, o))
<1>1. t \in States /\ t.current.n \in Nat /\ NoOp \notin Op
  BY StateParts, OpAssumption DEF Executed, Good, Items
<1>2. PICK item \in Items :
        /\ item = IF o = NoOp THEN NoItem ELSE Item(o, t.current.n)
        /\ item.n \in {0, t.current.n} /\ ~item.pending /\ (item.op = NoOp => item.n = 0)
  <2>1. CASE o = NoOp
    BY <1>1, <2>1, ItemFacts
  <2>2. CASE o # NoOp
    BY <1>1, <2>2, ItemFacts
  <2>. QED  BY <2>1, <2>2
<1>3. PICK u : u = Follow(t, o)
  OBVIOUS
<1>4. u = [t EXCEPT !.current = item]
  BY <1>2, <1>3 DEF Follow
<1>5. /\ u \in States /\ u.current = item /\ u.sets = t.sets
      /\ u.queue = t.queue /\ u.request = t.request /\ u.tabs = t.tabs
      /\ u.active = t.active /\ u.lost = t.lost /\ u.queued = t.queued /\ u.ran = t.ran
  BY <1>1, <1>4 DEF States
<1>6. Good(u)
  BY <1>2, <1>5, ReplaceCurrent DEF Executed, Idle
<1>. QED  BY <1>3, <1>6

\* Marks on a state that the invariant does not speak of.
LEMMA MarksKeep ==
  ASSUME NEW t, Good(t)
  PROVE  /\ \A failed, confirm \in BOOLEAN : Good([t EXCEPT !.failed = failed, !.needConfirm = confirm])
         /\ Good([t EXCEPT !.failed = TRUE])
         /\ \A o \in Words : Good([t EXCEPT !.dialog = o])
         /\ \A screen \in {"main", "login", "blank"} : Good([t EXCEPT !.screen = screen])
         /\ \A screen \in {"main", "login", "blank"} :
              Good([t EXCEPT !.dialog = NoOp, !.screen = screen])
<1>1. t \in States
  BY DEF Good
<1>2. ASSUME NEW failed \in BOOLEAN, NEW confirm \in BOOLEAN
      PROVE  Good([t EXCEPT !.failed = failed, !.needConfirm = confirm])
  <2>1. PICK u : u = [t EXCEPT !.failed = failed, !.needConfirm = confirm]
    OBVIOUS
  <2>2. /\ u \in States /\ u.current = t.current /\ u.queue = t.queue /\ u.request = t.request
        /\ u.tabs = t.tabs /\ u.active = t.active /\ u.lost = t.lost /\ u.sets = t.sets
        /\ u.queued = t.queued /\ u.ran = t.ran
    BY <1>1, <2>1 DEF States
  <2>. QED  BY <2>1, <2>2, SameCore
<1>3. Good([t EXCEPT !.failed = TRUE])
  <2>1. PICK u : u = [t EXCEPT !.failed = TRUE]
    OBVIOUS
  <2>2. /\ u \in States /\ u.current = t.current /\ u.queue = t.queue /\ u.request = t.request
        /\ u.tabs = t.tabs /\ u.active = t.active /\ u.lost = t.lost /\ u.sets = t.sets
        /\ u.queued = t.queued /\ u.ran = t.ran
    BY <1>1, <2>1 DEF States
  <2>. QED  BY <2>1, <2>2, SameCore
<1>4. ASSUME NEW o \in Words
      PROVE  Good([t EXCEPT !.dialog = o])
  <2>1. PICK u : u = [t EXCEPT !.dialog = o]
    OBVIOUS
  <2>2. /\ u \in States /\ u.current = t.current /\ u.queue = t.queue /\ u.request = t.request
        /\ u.tabs = t.tabs /\ u.active = t.active /\ u.lost = t.lost /\ u.sets = t.sets
        /\ u.queued = t.queued /\ u.ran = t.ran
    BY <1>1, <2>1 DEF States
  <2>. QED  BY <2>1, <2>2, SameCore
<1>5. ASSUME NEW screen \in {"main", "login", "blank"}
      PROVE  Good([t EXCEPT !.screen = screen])
  <2>1. PICK u : u = [t EXCEPT !.screen = screen]
    OBVIOUS
  <2>2. /\ u \in States /\ u.current = t.current /\ u.queue = t.queue /\ u.request = t.request
        /\ u.tabs = t.tabs /\ u.active = t.active /\ u.lost = t.lost /\ u.sets = t.sets
        /\ u.queued = t.queued /\ u.ran = t.ran
    BY <1>1, <2>1 DEF States
  <2>. QED  BY <2>1, <2>2, SameCore
<1>6. ASSUME NEW screen \in {"main", "login", "blank"}
      PROVE  Good([t EXCEPT !.dialog = NoOp, !.screen = screen])
  <2>1. PICK u : u = [t EXCEPT !.dialog = NoOp, !.screen = screen]
    OBVIOUS
  <2>2. /\ u \in States /\ u.current = t.current /\ u.queue = t.queue /\ u.request = t.request
        /\ u.tabs = t.tabs /\ u.active = t.active /\ u.lost = t.lost /\ u.sets = t.sets
        /\ u.queued = t.queued /\ u.ran = t.ran
    BY <1>1, <2>1 DEF States, Words
  <2>. QED  BY <2>1, <2>2, SameCore
<1>. QED  BY <1>2, <1>3, <1>4, <1>5, <1>6

LEMMA OperationDoneKeeps ==
  ASSUME NEW t, Executed(t), NEW result
  PROVE  Good(OperationDone(t, result))
<1>1. ASSUME NEW o \in Words
      PROVE  Good(FollowError(t, o))
  <2>1. PICK u : u = Follow(t, o) /\ Good(u)
    BY FollowKeeps
  <2>2. FollowError(t, o) = [u EXCEPT !.failed = TRUE, !.needConfirm = (o = NoOp)]
    BY <2>1 DEF FollowError
  <2>3. (o = NoOp) \in BOOLEAN /\ TRUE \in BOOLEAN
    OBVIOUS
  <2>4. Good([u EXCEPT !.failed = TRUE, !.needConfirm = (o = NoOp)])
    BY <2>1, <2>3, MarksKeep, Zenon
  <2>. QED  BY <2>2, <2>4
<1>2. ASSUME NEW o \in Words
      PROVE  Good(FollowSuccess(t, o))
  <2>1. CASE o = NoOp \/ Validation[o] = "valid"
    BY <2>1, FollowKeeps DEF FollowSuccess
  <2>2. CASE o # NoOp /\ Validation[o] = "invalid"
    <3>1. Error[o] \in Words
      BY <2>2, OpAssumption DEF Words
    <3>. QED  BY <1>1, <2>2, <3>1 DEF FollowSuccess
  <2>3. CASE ~(o = NoOp \/ Validation[o] = "valid" \/ Validation[o] = "invalid")
    <3>1. FollowSuccess(t, o) = [t EXCEPT !.screen = "blank"]
      BY <2>3 DEF FollowSuccess
    <3>2. Good(t)
      BY DEF Executed
    <3>. QED  BY <3>1, <3>2, MarksKeep
  <2>. QED  BY <2>1, <2>2, <2>3
<1>3. PICK o \in Op : o = t.current.op
  BY StateParts DEF Executed, Good, Idle, Items, Words
<1>4. /\ Success[o] \in Words /\ Returned[o] \in Words /\ Error[o] \in Words
      /\ Logout \in Words
  BY OpAssumption DEF Words
<1>5. ~Idle(t) /\ Good(t)
  BY DEF Executed
<1>6. CASE result = "ok"
  BY <1>2, <1>3, <1>4, <1>5, <1>6 DEF OperationDone
<1>7. CASE result = "operation"
  BY <1>2, <1>3, <1>4, <1>5, <1>7 DEF OperationDone
<1>8. CASE result = "expired"
  <2>1. OperationDone(t, result) = [Follow(t, Logout) EXCEPT !.failed = TRUE]
    BY <1>5, <1>8 DEF OperationDone
  <2>2. PICK u : u = Follow(t, Logout)
    OBVIOUS
  <2>. QED  BY <1>4, <2>1, <2>2, FollowKeeps, MarksKeep
<1>9. CASE result \notin {"ok", "operation", "expired"}
  BY <1>1, <1>3, <1>4, <1>5, <1>9 DEF OperationDone
<1>. QED  BY <1>6, <1>7, <1>8, <1>9

-----------------------------------------------------------------------------
(* Tabs.                                                                   *)

LEMMA OpenTabKeeps ==
  ASSUME NEW t, Good(t), NEW key \in Key
  PROVE  /\ Good(OpenTab(t, key))
         /\ IsOpen(t.tabs, key) \/ key \in t.lost => Good(SetActiveTab(t, key))
<1>1. t \in States /\ t.tabs \in Seq(Key) /\ t.lost \in SUBSET Key
  BY StateParts DEF Good
<1>2. ASSUME NEW tabs \in Seq(Key), IsInjective(tabs), NEW lost \in SUBSET Key,
             IsOpen(tabs, key) \/ key \in lost,
             NEW u, u = [t EXCEPT !.tabs = tabs, !.active = key, !.lost = lost]
      PROVE  Good(u)
  <2>1. /\ u \in States /\ u.tabs = tabs /\ u.active = key /\ u.lost = lost
        /\ u.current = t.current /\ u.queue = t.queue /\ u.request = t.request
        /\ u.sets = t.sets /\ u.queued = t.queued /\ u.ran = t.ran
    BY <1>1, <1>2 DEF States
  <2>2. Numbers(u) /\ InOrder(u) /\ Kept(u) /\ Own(u)
    BY <2>1 DEF Good, Numbers, InOrder, Kept, Own, RanIn, Idle
  <2>. QED  BY <1>2, <2>1, <2>2 DEF Good, TabsOf
<1>3. IsInjective(t.tabs)
  BY DEF Good, TabsOf
<1>4. ASSUME IsOpen(t.tabs, key) \/ key \in t.lost
      PROVE  Good(SetActiveTab(t, key))
  <2>1. SetActiveTab(t, key) = [t EXCEPT !.tabs = t.tabs, !.active = key, !.lost = t.lost]
    BY <1>1 DEF SetActiveTab, States
  <2>. QED  BY <1>1, <1>2, <1>3, <1>4, <2>1
<1>5. PICK lost \in SUBSET Key : lost = t.lost \ {key}
  BY <1>1
<1>6. CASE IsOpen(t.tabs, key)
  <2>1. OpenTab(t, key) = [t EXCEPT !.tabs = t.tabs, !.active = key, !.lost = lost]
    BY <1>1, <1>5, <1>6 DEF OpenTab, States
  <2>. QED  BY <1>1, <1>2, <1>3, <1>4, <1>6, <2>1
<1>7. CASE ~IsOpen(t.tabs, key)
  <2>1. PICK tabs \in Seq(Key) : tabs = Append(t.tabs, key)
    BY <1>1, AppendProperties
  <2>2. OpenTab(t, key) = [t EXCEPT !.tabs = tabs, !.active = key, !.lost = lost]
    BY <1>1, <1>5, <1>7, <2>1 DEF OpenTab, States
  <2>3. PICK l \in Nat : l = Len(t.tabs) /\ DOMAIN t.tabs = 1 .. l /\ DOMAIN tabs = 1 .. l + 1
                         /\ (\A i \in 1 .. l : tabs[i] = t.tabs[i]) /\ tabs[l + 1] = key
    BY <1>1, <2>1, AppendProperties, LenProperties
  <2>4. \A i \in 1 .. l : t.tabs[i] # key
    BY <1>7, <2>3 DEF IsOpen
  <2>5. \A i \in 1 .. l + 1 : i \in 1 .. l \/ i = l + 1
    OBVIOUS
  <2>6. IsInjective(tabs)
    BY <1>3, <2>3, <2>4, <2>5 DEF IsInjective
  <2>7. IsOpen(tabs, key)
    BY <2>3 DEF IsOpen
  <2>. QED  BY <1>2, <1>4, <2>2, <2>6, <2>7
<1>. QED  BY <1>4, <1>6, <1>7

\* A sequence without its i-th element.
LEMMA RemoveAtFacts ==
  ASSUME NEW S, NEW q \in Seq(S), NEW i \in 1 .. Len(q)
  PROVE  /\ RemoveAt(q, i) \in Seq(S) /\ Len(RemoveAt(q, i)) = Len(q) - 1
         /\ \A j \in 1 .. Len(q) - 1 : RemoveAt(q, i)[j] = IF j < i THEN q[j] ELSE q[j + 1]
<1>1. PICK l \in Nat : l = Len(q) /\ \A j \in 1 .. l : q[j] \in S
  BY LenProperties, ElementOfSeq
<1>2. PICK a, b : a = SubSeq(q, 1, i - 1) /\ b = SubSeq(q, i + 1, l)
  OBVIOUS
<1>3. a \in Seq(S) /\ Len(a) = i - 1 /\ \A j \in 1 .. i - 1 : a[j] = q[j]
  <2>1. i - 1 \in Int /\ 1 \in Int /\ \A j \in 1 .. i - 1 : q[j] \in S
    BY <1>1
  <2>. QED  BY <1>1, <1>2, <2>1, SubSeqProperties
<1>4. b \in Seq(S) /\ Len(b) = l - i /\ \A j \in 1 .. l - i : b[j] = q[i + j]
  <2>1. i + 1 \in Int /\ l \in Int /\ \A j \in i + 1 .. l : q[j] \in S
    BY <1>1
  <2>2. /\ b \in Seq(S) /\ Len(b) = IF i + 1 <= l THEN l - (i + 1) + 1 ELSE 0
        /\ \A j \in 1 .. l - (i + 1) + 1 : b[j] = q[(i + 1) + j - 1]
    BY <1>2, <2>1, SubSeqProperties
  <2>3. /\ l - (i + 1) + 1 = l - i /\ (IF i + 1 <= l THEN l - (i + 1) + 1 ELSE 0) = l - i
        /\ \A j \in 1 .. l - i : (i + 1) + j - 1 = i + j
    BY <1>1
  <2>. QED  BY <2>2, <2>3
<1>5. RemoveAt(q, i) = a \o b
  BY <1>1, <1>2 DEF RemoveAt
<1>6. /\ a \o b \in Seq(S) /\ Len(a \o b) = (i - 1) + (l - i)
      /\ \A j \in 1 .. (i - 1) + (l - i) :
           (a \o b)[j] = IF j <= i - 1 THEN a[j] ELSE b[j - (i - 1)]
  <2>1. /\ a \o b \in Seq(S) /\ Len(a \o b) = Len(a) + Len(b)
        /\ \A j \in 1 .. Len(a) + Len(b) : (a \o b)[j] = IF j <= Len(a) THEN a[j] ELSE b[j - Len(a)]
    BY <1>3, <1>4, ConcatProperties
  <2>. QED  BY <1>3, <1>4, <2>1
<1>7. (i - 1) + (l - i) = l - 1
  BY <1>1
<1>8. ASSUME NEW j \in 1 .. l - 1
      PROVE  (a \o b)[j] = IF j < i THEN q[j] ELSE q[j + 1]
  <2>1. CASE j < i
    BY <1>1, <1>3, <1>6, <1>7, <2>1
  <2>2. CASE ~(j < i)
    <3>1. j - (i - 1) \in 1 .. l - i /\ i + (j - (i - 1)) = j + 1 /\ ~(j <= i - 1)
      BY <1>1, <2>2
    <3>. QED  BY <1>4, <1>6, <1>7, <2>2, <3>1
  <2>. QED  BY <2>1, <2>2
<1>. QED  BY <1>1, <1>5, <1>6, <1>7, <1>8

\* Only the tabs differ.
SameRun(t, u) ==
  /\ u.current = t.current /\ u.request = t.request /\ u.queued = t.queued
  /\ u.ran = t.ran /\ u.again = t.again /\ u.screen = t.screen

\* Closing a tab keeps the other ones.
LEMMA CloseTabKeeps ==
  ASSUME NEW t, Good(t), NEW key
  PROVE  /\ Good(CloseTab(t, key))
         /\ \A other : other # key /\ IsOpen(t.tabs, other) => IsOpen(CloseTab(t, key).tabs, other)
         /\ SameRun(t, CloseTab(t, key)) /\ CloseTab(t, key).lost = t.lost
<1>1. PICK q : q = t.tabs
  OBVIOUS
<1>2. /\ t \in States /\ q \in Seq(Key) /\ IsInjective(q)
      /\ q # <<>> => IsOpen(q, t.active) \/ t.active \in t.lost
  BY <1>1, StateParts DEF Good, TabsOf
<1>3. CASE ~IsOpen(q, key)
  <2>1. CloseTab(t, key) = t
    BY <1>1, <1>3 DEF CloseTab
  <2>. QED  BY <2>1 DEF SameRun
<1>4. CASE IsOpen(q, key)
  <2>1. PICK i : i = CHOOSE k \in DOMAIN q : q[k] = key
    OBVIOUS
  <2>2. i \in DOMAIN q /\ q[i] = key
    <3>1. \E k \in DOMAIN q : q[k] = key
      BY <1>4 DEF IsOpen
    <3>. QED  BY <2>1, <3>1
  <2>3. PICK l \in Nat : l = Len(q) /\ DOMAIN q = 1 .. l /\ i \in 1 .. l
    BY <1>2, <2>2, LenProperties
  <2>4. PICK rest : rest = RemoveAt(q, i)
    OBVIOUS
  <2>5. /\ rest \in Seq(Key) /\ Len(rest) = l - 1 /\ DOMAIN rest = 1 .. l - 1
        /\ \A j \in 1 .. l - 1 : rest[j] = IF j < i THEN q[j] ELSE q[j + 1]
    <3>1. /\ rest \in Seq(Key) /\ Len(rest) = l - 1
          /\ \A j \in 1 .. l - 1 : rest[j] = IF j < i THEN q[j] ELSE q[j + 1]
      BY <1>2, <2>3, <2>4, RemoveAtFacts
    <3>. QED  BY <3>1, LenProperties
  <2>6. IsInjective(rest)
    <3> SUFFICES ASSUME NEW a \in 1 .. l - 1, NEW b \in 1 .. l - 1, rest[a] = rest[b]
                 PROVE  a = b
      BY <2>5 DEF IsInjective
    <3>1. PICK a2 \in 1 .. l : a2 = (IF a < i THEN a ELSE a + 1) /\ rest[a] = q[a2]
      BY <2>3, <2>5
    <3>2. PICK b2 \in 1 .. l : b2 = (IF b < i THEN b ELSE b + 1) /\ rest[b] = q[b2]
      BY <2>3, <2>5
    <3>3. a2 = b2
      BY <1>2, <2>3, <3>1, <3>2 DEF IsInjective
    <3>. QED  BY <2>3, <3>1, <3>2, <3>3
  <2>7. PICK active : active = CASE t.active # key -> t.active
                                 [] t.active = key /\ rest = <<>> -> NoOp
                                 [] OTHER -> rest[IF i > Len(rest) THEN Len(rest) ELSE i]
    OBVIOUS
  <2>8. PICK u : u = [t EXCEPT !.tabs = rest, !.active = active]
    OBVIOUS
  <2>9. CloseTab(t, key) = u
    BY <1>1, <1>2, <1>4, <2>1, <2>4, <2>7, <2>8 DEF CloseTab, States
  <2>0. ASSUME NEW other, other # key, IsOpen(q, other)
        PROVE  IsOpen(rest, other)
    <3>1. PICK k \in 1 .. l : q[k] = other
      BY <2>0, <2>3 DEF IsOpen
    <3>2. k # i
      BY <2>0, <2>2, <3>1
    <3>3. CASE k < i
      <4>1. k \in 1 .. l - 1
        BY <2>3, <3>3
      <4>. QED  BY <2>5, <3>1, <3>3, <4>1 DEF IsOpen
    <3>4. CASE k > i
      <4>1. k - 1 \in 1 .. l - 1 /\ ~(k - 1 < i) /\ (k - 1) + 1 = k
        BY <2>3, <3>4
      <4>2. rest[k - 1] = other
        BY <2>5, <3>1, <4>1
      <4>. QED  BY <2>5, <4>1, <4>2 DEF IsOpen
    <3>. QED  BY <2>3, <3>2, <3>3, <3>4
  <2>10. active \in Key \cup {NoOp} /\ (rest # <<>> => IsOpen(rest, active) \/ active \in t.lost)
    <3>1. CASE t.active # key
      <4>1. active = t.active /\ active \in Key \cup {NoOp}
        BY <1>2, <2>7, <3>1, StateParts
      <4>2. q # <<>>
        BY <2>3
      <4>. QED  BY <1>2, <2>0, <3>1, <4>1, <4>2
    <3>2. CASE t.active = key /\ rest = <<>>
      BY <2>7, <3>2
    <3>3. CASE t.active = key /\ rest # <<>>
      <4>1. PICK j : j = IF i > Len(rest) THEN Len(rest) ELSE i
        OBVIOUS
      <4>2. Len(rest) # 0
        BY <2>5, <3>3, EmptySeq
      <4>3. j \in 1 .. l - 1
        BY <2>3, <2>5, <4>1, <4>2
      <4>4. active = rest[j] /\ rest[j] \in Key
        <5>1. rest[j] \in Key
          BY <2>5, <4>3, ElementOfSeq
        <5>. QED  BY <2>7, <3>3, <4>1, <5>1
      <4>. QED  BY <2>5, <4>3, <4>4 DEF IsOpen
    <3>. QED  BY <3>1, <3>2, <3>3
  <2>11. /\ u \in States /\ u.tabs = rest /\ u.active = active /\ u.lost = t.lost
         /\ u.current = t.current /\ u.queue = t.queue /\ u.request = t.request
         /\ u.sets = t.sets /\ u.queued = t.queued /\ u.ran = t.ran
         /\ u.again = t.again /\ u.screen = t.screen
    BY <1>2, <2>5, <2>8, <2>10 DEF States
  <2>12. Numbers(u) /\ InOrder(u) /\ Kept(u) /\ Own(u)
    BY <2>11 DEF Good, Numbers, InOrder, Kept, Own, RanIn, Idle
  <2>13. Good(u)
    BY <2>6, <2>10, <2>11, <2>12 DEF Good, TabsOf
  <2>14. SameRun(t, u)
    BY <2>11 DEF SameRun
  <2>. QED  BY <1>1, <2>0, <2>9, <2>11, <2>13, <2>14
<1>. QED  BY <1>3, <1>4

\* The user closes a tab.
LEMMA UserKeeps ==
  ASSUME NEW t, Good(t), Stale(t, t), NEW key \in Key
  PROVE  LET u == [CloseTab(t, key) EXCEPT
                     !.lost = @ \cup {k \in {key} : Opening(t) /\ KeyOf[t.current.op] = k}]
         IN  Good(u) /\ Stale(t, u) /\ SameRun(t, u)
<1>1. PICK v : /\ v = CloseTab(t, key) /\ Good(v) /\ SameRun(t, v)
               /\ \A other : other # key /\ IsOpen(t.tabs, other) => IsOpen(v.tabs, other)
               /\ v.lost = t.lost
  BY CloseTabKeeps
<1>2. v \in States /\ v.lost \subseteq Key
  BY <1>1, StateParts DEF Good
<1>3. PICK lost \in SUBSET Key :
        lost = v.lost \cup {k \in {key} : Opening(t) /\ KeyOf[t.current.op] = k}
  BY <1>2
<1>4. PICK u : u = [v EXCEPT !.lost = lost]
  OBVIOUS
<1>5. u = [CloseTab(t, key) EXCEPT
             !.lost = @ \cup {k \in {key} : Opening(t) /\ KeyOf[t.current.op] = k}]
  BY <1>1, <1>2, <1>3, <1>4 DEF States
<1>6. /\ u \in States /\ u.tabs = v.tabs /\ u.active = v.active /\ u.lost = lost
      /\ u.current = v.current /\ u.queue = v.queue /\ u.request = v.request
      /\ u.sets = v.sets /\ u.queued = v.queued /\ u.ran = v.ran
      /\ u.again = v.again /\ u.screen = v.screen
  BY <1>2, <1>4 DEF States
<1>7. Numbers(u) /\ InOrder(u) /\ Kept(u) /\ Own(u)
  BY <1>1, <1>6 DEF Good, Numbers, InOrder, Kept, Own, RanIn, Idle
<1>8. TabsOf(u)
  BY <1>1, <1>3, <1>6 DEF Good, TabsOf
<1>9. ASSUME Opening(t), IsOpen(t.tabs, KeyOf[t.current.op])
      PROVE  IsOpen(u.tabs, KeyOf[t.current.op]) \/ KeyOf[t.current.op] \in u.lost
  BY <1>1, <1>3, <1>6, <1>9
<1>10. Stale(t, u)
  BY <1>1, <1>6, <1>9 DEF Stale, SameRun
<1>11. SameRun(t, u)
  BY <1>1, <1>6 DEF SameRun
<1>. QED  BY <1>5, <1>6, <1>7, <1>8, <1>10, <1>11 DEF Good

\* The user shows another tab.
LEMMA ActivateKeeps ==
  ASSUME NEW t, Good(t), Stale(t, t), NEW key \in Key, IsOpen(t.tabs, key)
  PROVE  Good(SetActiveTab(t, key)) /\ Stale(t, SetActiveTab(t, key)) /\ SameRun(t, SetActiveTab(t, key))
<1>1. PICK u : u = SetActiveTab(t, key) /\ Good(u)
  BY OpenTabKeeps
<1>2. /\ u.tabs = t.tabs /\ u.lost = t.lost /\ u.current = t.current /\ u.request = t.request
      /\ u.queued = t.queued /\ u.ran = t.ran /\ u.again = t.again /\ u.screen = t.screen
  BY <1>1 DEF SetActiveTab, Good, States
<1>3. Stale(t, u)
  BY <1>2 DEF Stale
<1>. QED  BY <1>1, <1>2, <1>3 DEF SameRun

-----------------------------------------------------------------------------
(* The effects.                                                            *)

\* The current operation of c is that of t, and is noted as executed.
LEMMA RanKeeps ==
  ASSUME NEW c, ~Idle(c), NEW t, Good(t), t.current = c.current
  PROVE  /\ Good(Ran(c, t)) /\ ~Idle(Ran(c, t)) /\ t.current.n \in RanIn(Ran(c, t))
         /\ Ran(c, t).current = t.current /\ Ran(c, t).request = t.request
         /\ Ran(c, t).tabs = t.tabs /\ Ran(c, t).lost = t.lost
<1>1. t \in States /\ t.current \in Items
  BY StateParts DEF Good
<1>2. PICK x \in Nat \X Words : x = <<c.current.n, c.current.op>> /\ x[1] = t.current.n
  <2>1. t.current.n \in Nat /\ t.current.op \in Words
    BY <1>1 DEF Items
  <2>2. <<t.current.n, t.current.op>> \in Nat \X Words
    BY <2>1
  <2>. QED  BY <2>2
<1>3. PICK again \in BOOLEAN : again = (t.again \/ x \in t.ran)
  <2>1. (t.again \/ x \in t.ran) \in BOOLEAN
    BY <1>1 DEF States
  <2>. QED  BY <2>1, Zenon
<1>4. PICK u : u = Ran(c, t)
  OBVIOUS
<1>5. u = [t EXCEPT !.again = (t.again \/ x \in t.ran), !.ran = t.ran \cup {x}]
  BY <1>1, <1>2, <1>4 DEF Ran, States
<1>6. u = [t EXCEPT !.again = again, !.ran = t.ran \cup {x}]
  BY <1>3, <1>5, Zenon
<1>7. /\ u \in States /\ u.ran = t.ran \cup {x}
      /\ u.current = t.current /\ u.queue = t.queue /\ u.request = t.request
      /\ u.tabs = t.tabs /\ u.active = t.active /\ u.lost = t.lost
      /\ u.sets = t.sets /\ u.queued = t.queued
  <2>1. t.ran \cup {x} \in SUBSET (Nat \X Words)
    BY <1>1, StateParts
  <2>. QED  BY <1>1, <1>6, <2>1 DEF States
<1>8. RanIn(u) = RanIn(t) \cup {t.current.n}
  BY <1>2, <1>7 DEF RanIn
<1>9. t.current.n \in 0 .. t.sets
  BY <1>1, StateParts DEF Good, Numbers, Items
<1>10. Numbers(u)
  BY <1>7, <1>8, <1>9 DEF Good, Numbers, Idle
<1>11. InOrder(u) /\ Kept(u)
  BY <1>7, <1>8 DEF Good, InOrder, Kept
<1>12. Own(u) /\ TabsOf(u)
  BY <1>7, <1>8 DEF Good, Own, TabsOf
<1>13. ~Idle(u)
  BY <1>7 DEF Idle
<1>. QED  BY <1>4, <1>7, <1>8, <1>10, <1>11, <1>12, <1>13 DEF Good

\* A request is sent, and its operation marked, in one step.
LEMMA SendKeeps ==
  ASSUME NEW c, ~Idle(c), c.current \in Items, NEW t, Good(t), t.current = c.current,
         Type[c.current.op] = "request"
  PROVE  Good(OperationPending([Ran(c, t) EXCEPT !.request = [state |-> "sent", for |-> c.current]]))
<1>1. PICK r : r = Ran(c, t)
  OBVIOUS
<1>2. Good(r) /\ ~Idle(r) /\ c.current.n \in RanIn(r) /\ r.current = c.current /\ r \in States
  BY <1>1, RanKeeps DEF Good
<1>3. PICK request \in Requests : request = [state |-> "sent", for |-> c.current]
  BY DEF Requests
<1>4. PICK item \in Items : item = [c.current EXCEPT !.pending = TRUE]
                            /\ item.n = c.current.n /\ item.op = c.current.op /\ item.pending
  <2>1. PICK i \in Items : i = c.current
    OBVIOUS
  <2>2. PICK e : e = [i EXCEPT !.pending = TRUE]
    OBVIOUS
  <2>3. e \in Items
    BY <2>2 DEF Items
  <2>4. e.n = i.n /\ e.op = i.op
    BY <2>2 DEF Items
  <2>5. e.pending
    BY <2>2 DEF Items
  <2>. QED  BY <2>1, <2>2, <2>3, <2>4, <2>5
<1>5. PICK u : u = OperationPending([r EXCEPT !.request = request])
  OBVIOUS
<1>6. u = [r EXCEPT !.request = request, !.current = item]
  BY <1>2, <1>4, <1>5 DEF OperationPending, States
<1>7. /\ u \in States /\ u.current = item /\ u.request = request
      /\ u.queue = r.queue /\ u.tabs = r.tabs /\ u.active = r.active /\ u.lost = r.lost
      /\ u.sets = r.sets /\ u.queued = r.queued /\ u.ran = r.ran
  BY <1>2, <1>6 DEF States
<1>8. Numbers(u) /\ InOrder(u) /\ Kept(u)
  BY <1>2, <1>4, <1>7 DEF Good, Numbers, InOrder, Kept, RanIn, Idle
<1>9. Own(u)
  BY <1>2, <1>3, <1>4, <1>7 DEF Own, RanIn
<1>10. TabsOf(u)
  BY <1>2, <1>7 DEF Good, TabsOf
<1>. QED  BY <1>1, <1>3, <1>5, <1>7, <1>8, <1>9, <1>10 DEF Good

LEMMA CloseAllTabKeeps ==
  ASSUME NEW t, Good(t)
  PROVE  Good(CloseAllTab(t))
<1>1. t \in States
  BY DEF Good
<1>2. PICK u : u = CloseAllTab(t)
  OBVIOUS
<1>3. /\ u \in States /\ u.tabs = <<>> /\ u.current = t.current /\ u.queue = t.queue
      /\ u.request = t.request /\ u.sets = t.sets /\ u.queued = t.queued /\ u.ran = t.ran
  BY <1>1, <1>2, EmptySeq DEF CloseAllTab, States
<1>4. Numbers(u) /\ InOrder(u) /\ Kept(u) /\ Own(u)
  BY <1>3 DEF Good, Numbers, InOrder, Kept, Own, RanIn, Idle
<1>5. TabsOf(u)
  BY <1>3 DEF TabsOf, IsInjective
<1>. QED  BY <1>2, <1>3, <1>4, <1>5 DEF Good

\* The effect that executes the current operation of c on t.
LEMMA ExecuteKeeps ==
  ASSUME NEW c, c \in States, Own(c), ~Idle(c), NEW t, Good(t), Stale(c, t)
  PROVE  Good(Execute(c, t))
<1>1. t.current = c.current /\ c.current \in Items
      /\ (c.request.state # "sent" => t.request = c.request)
  BY StateParts DEF Stale
<1>2. PICK o \in Op : o = c.current.op
  BY <1>1 DEF Idle, Items, Words
<1>3. KeyOf[o] \in Key
  BY DEF Key
<1>4. PICK r : r = Ran(c, t)
  OBVIOUS
<1>5. /\ Good(r) /\ ~Idle(r) /\ r.current.n \in RanIn(r) /\ r.current = c.current
      /\ r.request = t.request /\ r.tabs = t.tabs /\ r.lost = t.lost
  BY <1>1, <1>4, RanKeeps
<1>6. Type[o] # "request" => Executed(r)
  <2>1. Type[o] # "request" => ~r.current.pending
    BY <1>2, <1>5 DEF Good, Own
  <2>. QED  BY <1>5, <2>1 DEF Executed, Good, Own
<1>7. ASSUME NEW u, Good(u), u.current = r.current, u.request = r.request, u.ran = r.ran,
             Type[o] # "request", NEW result
      PROVE  Good(OperationDone(u, result))
  <2>1. Executed(u)
    BY <1>6, <1>7 DEF Executed, Idle, RanIn
  <2>. QED  BY <2>1, OperationDoneKeeps
<1>8. r \in States
  BY <1>5 DEF Good
<1>9. CASE Type[o] = "current"
  BY <1>2, <1>9 DEF Execute
<1>10. CASE Type[o] = "modal"
  <2>1. PICK u : u = [r EXCEPT !.dialog = o]
    OBVIOUS
  <2>2. Good(u) /\ u.current = r.current /\ u.request = r.request /\ u.ran = r.ran
    BY <1>5, <1>8, <2>1, MarksKeep DEF Words, States
  <2>3. Execute(c, t) = OperationDone(u, "ok")
    BY <1>2, <1>4, <1>10, <2>1 DEF Execute
  <2>. QED  BY <1>7, <1>10, <2>2, <2>3
<1>11. CASE Type[o] = "closeModal"
  <2>1. PICK u : u = [r EXCEPT !.dialog = NoOp]
    OBVIOUS
  <2>2. Good(u) /\ u.current = r.current /\ u.request = r.request /\ u.ran = r.ran
    BY <1>5, <1>8, <2>1, MarksKeep DEF Words, States
  <2>3. Execute(c, t) = OperationDone(u, "ok")
    BY <1>2, <1>4, <1>11, <2>1 DEF Execute
  <2>. QED  BY <1>7, <1>11, <2>2, <2>3
<1>12. CASE Type[o] = "tab"
  <2>1. PICK u : u = OpenTabFunc(c, r)
    OBVIOUS
  <2>2. u \in {OpenTab(r, KeyOf[o]), SetActiveTab(r, KeyOf[o]), r}
        /\ (u = SetActiveTab(r, KeyOf[o]) => IsOpen(c.tabs, KeyOf[o]) \/ u = OpenTab(r, KeyOf[o]) \/ u = r)
    BY <1>2, <2>1 DEF OpenTabFunc
  <2>3. Good(u)
    <3>1. IsOpen(c.tabs, KeyOf[o]) => IsOpen(r.tabs, KeyOf[o]) \/ KeyOf[o] \in r.lost
      BY <1>2, <1>5, <1>12 DEF Stale, Opening
    <3>. QED  BY <1>3, <1>5, <2>2, <3>1, OpenTabKeeps
  <2>4. u.current = r.current /\ u.request = r.request /\ u.ran = r.ran
    BY <1>8, <2>2 DEF OpenTab, SetActiveTab, States
  <2>5. Execute(c, t) = OperationDone(u, "ok")
    BY <1>2, <1>4, <1>12, <2>1 DEF Execute
  <2>. QED  BY <1>7, <1>12, <2>3, <2>4, <2>5
<1>13. CASE Type[o] = "closeTab"
  <2>1. PICK u : u = CloseTab(r, KeyOf[o])
    OBVIOUS
  <2>2. Good(u)
    BY <1>5, <2>1, CloseTabKeeps
  <2>3. u.current = r.current /\ u.request = r.request /\ u.ran = r.ran
    BY <1>8, <2>1 DEF CloseTab, States
  <2>4. Execute(c, t) = OperationDone(u, "ok")
    BY <1>2, <1>4, <1>13, <2>1 DEF Execute
  <2>. QED  BY <1>7, <1>13, <2>2, <2>3, <2>4
<1>14. CASE Type[o] = "request"
  <2>1. Execute(c, t) = DoRequest(c, t)
    BY <1>2, <1>14 DEF Execute
  <2>2. CASE c.request.state = "sent"
    BY <2>1, <2>2 DEF DoRequest
  <2>3. CASE c.request.state # "sent" /\ ~c.current.pending
    BY <1>1, <1>2, <1>14, <2>1, <2>3, SendKeeps DEF DoRequest
  <2>4. CASE c.request.state # "sent" /\ c.current.pending
    <3>1. DoRequest(c, t) = OperationDone(t, c.request.state)
      BY <2>4 DEF DoRequest
    <3>2. Executed(t)
      BY <1>1, <2>4 DEF Executed, Good, Own, Idle
    <3>. QED  BY <2>1, <3>1, <3>2, OperationDoneKeeps
  <2>. QED  BY <2>2, <2>3, <2>4
<1>15. CASE Type[o] = "badLink"
  <2>1. Execute(c, t) = OperationDone(r, "error")
    BY <1>2, <1>4, <1>15 DEF Execute
  <2>. QED  BY <1>5, <1>7, <1>15, <2>1
<1>16. CASE Type[o] = "logout"
  <2>1. PICK u : u = CloseAllTab(OperationDone(r, "ok"))
    OBVIOUS
  <2>2. Good(u)
    BY <1>5, <1>7, <1>16, <2>1, CloseAllTabKeeps
  <2>3. Execute(c, t) = [u EXCEPT !.dialog = NoOp, !.screen = "login"]
    BY <1>2, <1>4, <1>16, <2>1 DEF Execute, DoLogout
  <2>. QED  BY <2>2, <2>3, MarksKeep
<1>17. CASE Type[o] = "instant"
  <2>1. Execute(c, t) = OperationDone(r, "ok")
    BY <1>2, <1>4, <1>17 DEF Execute
  <2>. QED  BY <1>5, <1>7, <1>17, <2>1
<1>. QED  BY <1>9, <1>10, <1>11, <1>12, <1>13, <1>14, <1>15, <1>16, <1>17, OpAssumption DEF Kinds

\* The effect that takes the next operation changes t only if c had none.
LEMMA TakeNextKeeps ==
  ASSUME NEW c, NEW t, Good(t), Idle(c) => Stale(c, t)
  PROVE  Good(TakeNext(c, t))
<1>1. CASE ~(t.screen # "blank" /\ c.queue # <<>> /\ ~c.needConfirm /\ Idle(c)) \/ t.queue = <<>>
  BY <1>1 DEF TakeNext, DoNextOperation
<1>2. CASE Idle(c) /\ t.queue # <<>>
  <2>1. PICK q \in Seq(Queued) : q = t.queue /\ q # <<>>
    BY <1>2, StateParts DEF Good
  <2>2. t \in States /\ RanIn(t) \subseteq 0 .. t.sets /\ t.sets \in Nat
    BY StateParts DEF Good, Numbers
  <2>3. PICK u : u = [t EXCEPT !.current = Head(q), !.queue = Tail(q), !.needConfirm = FALSE, !.failed = FALSE]
    OBVIOUS
  <2>4. TakeNext(c, t) \in {u, t}
    BY <1>2, <2>1, <2>2, <2>3 DEF TakeNext, DoNextOperation, States
  <2>5. PICK l \in Nat : l = Len(q) /\ l # 0 /\ DOMAIN q = 1 .. l /\ \A i \in 1 .. l : q[i] \in Queued
    BY <2>1, LenProperties, EmptySeq, ElementOfSeq
  <2>6. PICK rest : /\ rest = Tail(q) /\ rest \in Seq(Queued) /\ DOMAIN rest = 1 .. l - 1
                    /\ \A i \in 1 .. l - 1 : rest[i] = q[i + 1]
    <3>1. /\ Tail(q) \in Seq(Queued) /\ Len(Tail(q)) = l - 1
          /\ \A i \in 1 .. Len(Tail(q)) : Tail(q)[i] = q[i + 1]
      BY <2>1, <2>5, HeadTailProperties
    <3>. QED  BY <3>1, LenProperties
  <2>7. PICK head \in Queued : head = Head(q) /\ head = q[1]
    BY <2>1, <2>5
  <2>8. head \in Items /\ head.op \in Op /\ ~head.pending /\ head.n \in Nat
    BY DEF Queued, Items, Words
  <2>9. /\ u \in States /\ u.current = head /\ u.queue = rest
        /\ u.request = t.request /\ u.tabs = t.tabs /\ u.active = t.active /\ u.lost = t.lost
        /\ u.sets = t.sets /\ u.queued = t.queued /\ u.ran = t.ran
    BY <2>2, <2>3, <2>6, <2>7, <2>8 DEF States
  <2>10. 1 \in 1 .. l /\ \A i \in 1 .. l - 1 : i + 1 \in 1 .. l /\ 1 < i + 1
    BY <2>5
  <2>11. RanIn(u) = RanIn(t) /\ ~Idle(u)
    BY <2>8, <2>9, OpAssumption DEF RanIn, Idle
  <2>12. \A i \in 1 .. l : q[i].n \in t.queued
    BY <2>1, <2>5 DEF Good, Numbers
  <2>13. Numbers(u)
    <3>1. t.queued \subseteq 1 .. t.sets
      BY DEF Good, Numbers
    <3>2. head.n <= t.sets
      BY <2>2, <2>7, <2>10, <2>12, <3>1
    <3>. QED  BY <2>2, <2>6, <2>9, <2>10, <2>11, <2>12, <3>1, <3>2 DEF Numbers
  <2>14. InOrder(u)
    <3>1. \A i, j \in 1 .. l : i < j => q[i].n < q[j].n
      BY <2>1, <2>5 DEF Good, InOrder
    <3>2. \A i, j \in 1 .. l - 1 : i < j => rest[i].n < rest[j].n
      <4>1. \A i, j \in 1 .. l - 1 : i < j => i + 1 < j + 1
        BY <2>5
      <4>. QED  BY <2>6, <2>10, <3>1, <4>1
    <3>3. ASSUME NEW i \in 1 .. l - 1, NEW b \in u.queued \cap (RanIn(u) \cup {u.current.n})
          PROVE  b < rest[i].n
      <4>1. CASE b = head.n
        BY <2>6, <2>7, <2>10, <3>1, <4>1
      <4>2. CASE b \in t.queued \cap RanIn(t)
        BY <2>1, <2>5, <2>6, <2>10, <4>2 DEF Good, InOrder
      <4>. QED  BY <2>9, <2>11, <4>1, <4>2
    <3>. QED  BY <2>6, <2>9, <3>2, <3>3 DEF InOrder
  <2>15. Kept(u)
    <3> SUFFICES ASSUME NEW n \in t.queued
                 PROVE  n \in RanIn(t) \/ n = head.n \/ \E i \in 1 .. l - 1 : rest[i].n = n
      <4>1. u.queued = t.queued /\ u.current = head /\ u.queue = rest /\ DOMAIN rest = 1 .. l - 1
        BY <2>6, <2>9
      <4>2. RanIn(u) = RanIn(t)
        BY <2>11
      <4>. QED  BY <4>1, <4>2, Zenon DEF Kept
    <3>1. t.current.n \notin t.queued
      BY <1>2 DEF Stale
    <3>2. CASE n \in RanIn(t)
      BY <3>2
    <3>3. CASE \E i \in 1 .. l : q[i].n = n
      <4>1. PICK i \in 1 .. l : q[i].n = n
        BY <3>3
      <4>2. CASE i = 1
        BY <2>7, <4>1, <4>2
      <4>3. CASE i # 1
        <5>1. i - 1 \in 1 .. l - 1 /\ (i - 1) + 1 = i
          BY <2>5, <4>3
        <5>. QED  BY <2>6, <4>1, <5>1
      <4>. QED  BY <4>2, <4>3
    <3>. QED  BY <2>1, <2>5, <3>1, <3>2, <3>3 DEF Good, Kept
  <2>16. Own(u)
    <3>1. ~t.current.pending
      BY <1>2 DEF Stale
    <3>. QED  BY <2>8, <2>9, <3>1 DEF Good, Own
  <2>17. TabsOf(u)
    BY <2>9 DEF Good, TabsOf
  <2>. QED  BY <2>4, <2>9, <2>13, <2>14, <2>15, <2>16, <2>17 DEF Good
<1>. QED  BY <1>1, <1>2

\* All effects of a render with the state of the store, run on t.
LEMMA RunEffectsKeeps ==
  ASSUME IInv, NEW t, Good(t), Stale(store, t)
  PROVE  Good(RunEffects(store, t))
<1>1. PICK u : u = (IF due = "mount" THEN RunInitOps(t) ELSE t) /\ Good(u) /\ Stale(store, u)
  BY RunInitOpsKeeps
<1>2. RunEffects(store, t) = TakeNext(store, Execute(store, u))
  BY <1>1 DEF RunEffects
<1>3. CASE Idle(store)
  <2>1. Execute(store, u) = u
    BY <1>3 DEF Execute
  <2>. QED  BY <1>1, <1>2, <2>1, TakeNextKeeps
<1>4. CASE ~Idle(store)
  <2>1. Good(Execute(store, u))
    BY <1>1, <1>4, ExecuteKeeps DEF IInv, Good
  <2>. QED  BY <1>2, <1>4, <2>1, TakeNextKeeps
<1>. QED  BY <1>3, <1>4

-----------------------------------------------------------------------------
(* The steps.                                                              *)

LEMMA FreshIsGood ==
  ASSUME NEW n \in Nat
  PROVE  Good(Fresh(n))
<1>1. NoItem \in Items /\ NoItem.op = NoOp /\ NoItem.n = 0 /\ ~NoItem.pending
  BY ItemFacts DEF Words
<1>2. PICK t : t = Fresh(n)
  OBVIOUS
<1>3. /\ t.current = NoItem /\ t.queue = <<>> /\ t.sets = n /\ t.queued = {} /\ t.ran = {}
      /\ t.tabs = <<>> /\ t.request = [state |-> "idle", for |-> NoItem]
  BY <1>2 DEF Fresh
<1>4. t \in States
  <2>1. <<>> \in Seq(Queued) /\ <<>> \in Seq(Key) /\ [state |-> "idle", for |-> NoItem] \in Requests
    BY <1>1, EmptySeq DEF Requests
  <2>. QED  BY <1>1, <1>2, <2>1 DEF Fresh, States, Words
<1>5. RanIn(t) = {} /\ DOMAIN t.queue = {}
  BY <1>3 DEF RanIn
<1>6. Numbers(t) /\ InOrder(t) /\ Kept(t) /\ Own(t)
  BY <1>1, <1>3, <1>5 DEF Numbers, InOrder, Kept, Own, Idle
<1>7. TabsOf(t)
  BY <1>3 DEF TabsOf, IsInjective
<1>. QED  BY <1>2, <1>4, <1>6, <1>7 DEF Good

LEMMA SelfStale ==
  ASSUME IInv
  PROVE  Stale(store, store)
<1>1. Idle(store) => ~store.current.pending /\ store.current.n = 0
  BY DEF IInv, Good, Numbers
<1>2. 0 \notin store.queued
  BY StateParts DEF IInv, Good, Numbers
<1>. QED  BY <1>1, <1>2 DEF Stale

LEMMA DispatchKeeps ==
  ASSUME IInv, NEW t, Good(t), Stale(store, t), Dispatch(t)
  PROVE  IInv'
BY RunEffectsKeeps DEF Dispatch, Render, IInv

LEMMA NextIInv ==
  ASSUME IInv, [Next]_vars
  PROVE  IInv'
<1>1. store \in States /\ Good(store) /\ Stale(store, store)
  BY SelfStale DEF IInv, Good
<1>2. CASE FlushEffects
  <2>1. Good(RunEffects(store, store))
    BY <1>1, RunEffectsKeeps
  <2>. QED  BY <1>1, <1>2, <2>1 DEF FlushEffects, Render, IInv
<1>3. ASSUME NEW o \in Op, Menu(o) \/ Notify(o) \/ FrameMessage(o)
      PROVE  IInv'
  <2>1. PICK queenable \in BOOLEAN : Dispatch(SetOperation(store, o, queenable))
    <3>1. TRUE \in BOOLEAN /\ (o \in Queenable) \in BOOLEAN
      OBVIOUS
    <3>2. Dispatch(SetOperation(store, o, TRUE)) \/ Dispatch(SetOperation(store, o, o \in Queenable))
      BY <1>3 DEF Menu, Notify, FrameMessage
    <3>. QED  BY <3>1, <3>2, Zenon
  <2>. QED  BY <1>1, <2>1, SetOperationKeeps, DispatchKeeps
<1>4. CASE TokenExpired
  <2>1. Dispatch(SetOperation(store, Logout, FALSE)) /\ Logout \in Op /\ FALSE \in BOOLEAN
    BY <1>4, OpAssumption DEF TokenExpired
  <2>. QED  BY <1>1, <2>1, SetOperationKeeps, DispatchKeeps
<1>5. ASSUME NEW r \in Answer, Respond(r)
      PROVE  IInv'
  <2>1. PICK t : t = [store EXCEPT !.request.state = r] /\ Dispatch(t)
    BY <1>5 DEF Respond
  <2>2. store.request \in Requests /\ store.request.state = "sent"
    BY <1>1, <1>5, StateParts DEF Respond
  <2>3. PICK request \in Requests : /\ request = [state |-> r, for |-> store.request.for]
                                    /\ request.for = store.request.for
    <3>1. PICK item \in Items : item = store.request.for
      BY <2>2 DEF Requests
    <3>2. [state |-> r, for |-> item] \in Requests
      BY DEF Requests
    <3>. QED  BY <3>1, <3>2
  <2>4. t = [store EXCEPT !.request = request]
    BY <1>1, <2>1, <2>2, <2>3 DEF States, Requests
  <2>5. /\ t \in States /\ t.current = store.current /\ t.queue = store.queue /\ t.request = request
        /\ t.tabs = store.tabs /\ t.active = store.active /\ t.lost = store.lost
        /\ t.sets = store.sets
        /\ t.queued = store.queued /\ t.ran = store.ran
    BY <1>1, <2>4 DEF States
  <2>6. Numbers(t) /\ InOrder(t) /\ Kept(t) /\ TabsOf(t)
    BY <1>1, <2>5 DEF Good, Numbers, InOrder, Kept, TabsOf, RanIn, Idle
  <2>7. Own(t)
    BY <1>1, <2>2, <2>3, <2>5 DEF Good, Own, RanIn
  <2>8. Stale(store, t)
    BY <1>1, <2>2, <2>5 DEF Stale
  <2>. QED  BY <2>1, <2>5, <2>6, <2>7, <2>8, DispatchKeeps DEF Good
<1>6. CASE Confirm
  <2>1. PICK t : t = Confirmed(store) /\ Dispatch(t) /\ Idle(store)
    BY <1>6 DEF Confirm
  <2>2. NoItem \in Items /\ NoItem.op = NoOp /\ NoItem.n = 0 /\ ~NoItem.pending
    BY ItemFacts DEF Words
  <2>3. /\ t \in States /\ t.current = NoItem /\ t.queue = store.queue /\ t.request = store.request
        /\ t.tabs = store.tabs /\ t.active = store.active /\ t.lost = store.lost
        /\ t.sets = store.sets
        /\ t.queued = store.queued /\ t.ran = store.ran
    BY <1>1, <2>1, <2>2 DEF Confirmed, States
  <2>4. store.current.n = 0 /\ ~store.current.pending /\ store.current.n \notin store.queued
    BY <1>1, <2>1 DEF Good, Numbers, Stale
  <2>5. store.request.state # "sent"
    BY <1>1, <2>4 DEF Good, Own
  <2>6. Good(t)
    BY <1>1, <2>2, <2>3, <2>4, <2>5, ReplaceCurrent
  <2>7. Stale(store, t)
    BY <2>1, <2>2, <2>3, <2>4 DEF Stale
  <2>. QED  BY <2>1, <2>6, <2>7, DispatchKeeps
<1>7. CASE Login
  BY <1>1, <1>7, MarksKeep DEF Login, IInv
<1>8. CASE Reload
  <2>1. store.sets \in Nat
    BY <1>1, StateParts
  <2>. QED  BY <1>8, <2>1, FreshIsGood DEF Reload, IInv
<1>9. CASE UNCHANGED vars
  BY <1>1, <1>9 DEF vars, IInv
<1>10. ASSUME NEW key \in Key, ActivateTab(key)
       PROVE  IInv'
  <2>1. IsOpen(store.tabs, key) /\ Dispatch(SetActiveTab(store, key))
    BY <1>10 DEF ActivateTab
  <2>. QED  BY <1>1, <2>1, ActivateKeeps, DispatchKeeps
<1>11. ASSUME NEW key \in Key, CloseTabByUser(key)
       PROVE  IInv'
  <2>1. PICK u : /\ u = [CloseTab(store, key) EXCEPT
                          !.lost = @ \cup {k \in {key} : Opening(store) /\ KeyOf[store.current.op] = k}]
                 /\ Dispatch(u)
    BY <1>11 DEF CloseTabByUser
  <2>2. Good(u) /\ Stale(store, u)
    BY <1>1, <2>1, UserKeeps
  <2>. QED  BY <2>1, <2>2, DispatchKeeps
<1>. QED  BY <1>2, <1>3, <1>4, <1>5, <1>6, <1>7, <1>8, <1>9, <1>10, <1>11 DEF Next, Event

\* Every reachable state of the slices is good (operationSlice.js,
\* requestSlice.js, tabSlice.js, OperationDialog.js), however the effects of a
\* render and the dispatches after it interleave.
THEOREM SpecIInv == Spec => []IInv
<1>1. Init => IInv
  BY FreshIsGood DEF Init, IInv
<1>2. IInv /\ [Next]_vars => IInv'
  BY NextIInv
<1>. QED  BY <1>1, <1>2, PTL DEF Spec

\* The queue is first in, first out, for any operations and any number of them
\* (setOperation and doNextOperation of operationSlice.js).
THEOREM SpecQueueInOrder == Spec => []QueueInOrder
<1>1. ASSUME IInv PROVE QueueInOrder
  <2>1. InOrder(store)
    BY <1>1 DEF IInv, Good
  <2>. QED  BY <2>1 DEF InOrder, QueueInOrder, Waiting, Begun, RanIn
<1>. QED  BY <1>1, SpecIInv, PTL

\* No queued operation is lost: it waits, is current, or has been executed
\* (OperationDialog.js takes the head of the queue only when it is idle).
THEOREM SpecQueuedIsKept == Spec => []QueuedIsKept
<1>1. ASSUME IInv PROVE QueuedIsKept
  <2>1. Kept(store)
    BY <1>1 DEF IInv, Good
  <2>. QED  BY <2>1 DEF Kept, QueuedIsKept, Waiting, Begun, RanIn
<1>. QED  BY <1>1, SpecIInv, PTL

\* The one request slice is never shared by two operations (doRequest).
THEOREM SpecAnswerIsOwn == Spec => []AnswerIsOwn
<1>1. ASSUME IInv PROVE AnswerIsOwn
  BY <1>1 DEF IInv, Good, Own, AnswerIsOwn
<1>. QED  BY <1>1, SpecIInv, PTL

\* Tabs have different keys and the active one is open, for any keys and any
\* interleaving of the operations, their late effects and the user on the tab
\* bar, unless the user closed it while an operation was about to show it
\* (tabSlice.js, OperationDialog.js:147-172, FrameTab/index.js:22-32).
THEOREM SpecTabsSound == Spec => []TabsSound
<1>1. ASSUME IInv PROVE TabsSound
  BY <1>1 DEF IInv, Good, TabsOf, TabsSound
<1>. QED  BY <1>1, SpecIInv, PTL

-----------------------------------------------------------------------------
(* Nothing is executed twice, if no chain of follow-ups comes back to an   *)
(* operation it has begun with (one that does executes it again, as it was *)
(* configured to).                                                         *)
(*                                                                         *)
(* The operations executed under the number of the current one come before *)
(* it in its chain, or it has itself been executed and waits for its       *)
(* answer.  A reducer that throws leaves the operation it has executed     *)
(* current, but unmounts the page and its effects with it.                 *)

\* Operation p may follow operation o: a request may be answered with an
\* operation, or with the end of the session.
Follows(o, p) ==
  \/ p \in {Success[o], Error[o]}
  \/ Type[o] = "request" /\ p \in {Returned[o], Logout}

\* rank grows along the chains.
Ranks(rank) == \A o, p \in Op : Follows(o, p) => rank[o] < rank[p]

Acyclic == \E rank \in [Op -> Nat] : Ranks(rank)
Rank == CHOOSE rank \in [Op -> Nat] : Ranks(rank)

Once(t) ==
  /\ ~t.again
  /\ \A x \in t.ran :
       /\ x[2] \in Op
       /\ t.screen # "blank" /\ ~Idle(t) /\ x[1] = t.current.n =>
            Rank[x[2]] < Rank[t.current.op] \/ (x[2] = t.current.op /\ t.current.pending)

\* What was executed in the chain of the current operation, itself included.
Past(t) ==
  /\ ~t.again
  /\ \A x \in t.ran :
       x[2] \in Op /\ (x[1] = t.current.n => Rank[x[2]] <= Rank[t.current.op])

OInv == Once(store) /\ (due # "no" => store.screen = "main")

LEMMA RankType ==
  ASSUME Acyclic
  PROVE  Rank \in [Op -> Nat] /\ Ranks(Rank)
BY DEF Acyclic, Rank

\* The current operation of t is replaced by one that may follow it, or none.
LEMMA NextOnce ==
  ASSUME Acyclic, NEW t, Past(t), t.current.op \in Op,
         NEW u, u.again = t.again, u.ran = t.ran,
         \/ Idle(u)
         \/ u.current.n = t.current.n /\ u.current.op \in Op /\ Rank[t.current.op] < Rank[u.current.op]
  PROVE  Once(u)
<1>1. CASE Idle(u)
  BY <1>1 DEF Past, Once
<1>2. CASE u.current.n = t.current.n /\ u.current.op \in Op /\ Rank[t.current.op] < Rank[u.current.op]
  <2>1. ASSUME NEW x \in t.ran, x[1] = t.current.n
        PROVE  Rank[x[2]] < Rank[u.current.op]
    <3>. PICK a, b, d : a = Rank[x[2]] /\ b = Rank[t.current.op] /\ d = Rank[u.current.op]
      OBVIOUS
    <3>1. a \in Nat /\ b \in Nat /\ d \in Nat
      BY <1>2, RankType DEF Past
    <3>2. a <= b /\ b < d
      BY <1>2, <2>1 DEF Past
    <3>. QED  BY <3>1, <3>2
  <2>. QED  BY <1>2, <2>1 DEF Past, Once
<1>. QED  BY <1>1, <1>2

LEMMA OperationDoneOnce ==
  ASSUME Acyclic, NEW t \in States, Past(t), ~Idle(t), NEW result,
         result \in {"operation", "expired"} => Type[t.current.op] = "request"
  PROVE  Once(OperationDone(t, result))
<1>1. PICK o \in Op : o = t.current.op
  BY StateParts DEF Idle, Items, Words
<1>2. /\ Success[o] \in Words /\ Returned[o] \in Words /\ Error[o] \in Words
      /\ Logout \in Op /\ NoOp \notin Op /\ t.current.n \in Nat
  BY OpAssumption, StateParts DEF Words, Items
<1>3. ASSUME NEW p \in Words, p = NoOp \/ Rank[o] < Rank[p]
      PROVE  /\ Once(Follow(t, p)) /\ Once(FollowError(t, p))
             /\ Once([Follow(t, p) EXCEPT !.failed = TRUE])
  <2>1. PICK item : item = IF p = NoOp THEN NoItem ELSE Item(p, t.current.n)
    OBVIOUS
  <2>2. item.op = NoOp \/ (item.n = t.current.n /\ item.op \in Op /\ Rank[o] < Rank[item.op])
    BY <1>3, <2>1 DEF NoItem, Item, Words
  <2>3. ASSUME NEW u, u.current = item, u.again = t.again, u.ran = t.ran
        PROVE  Once(u)
    BY <1>1, <2>2, <2>3, NextOnce DEF Idle
  <2>4. PICK u : u = Follow(t, p)
    OBVIOUS
  <2>5. u = [t EXCEPT !.current = item]
    BY <2>1, <2>4 DEF Follow
  <2>6. u.current = item /\ u.again = t.again /\ u.ran = t.ran
    BY <2>5 DEF States
  <2>7. PICK v, w : /\ v = [u EXCEPT !.failed = TRUE, !.needConfirm = (p = NoOp)]
                    /\ w = [u EXCEPT !.failed = TRUE]
    OBVIOUS
  <2>8. /\ v.current = item /\ v.again = t.again /\ v.ran = t.ran
        /\ w.current = item /\ w.again = t.again /\ w.ran = t.ran
    <3>1. v.current = item /\ v.again = t.again /\ v.ran = t.ran
      <4>1. v = [t EXCEPT !.current = item, !.failed = TRUE, !.needConfirm = (p = NoOp)]
        BY <2>5, <2>7 DEF States
      <4>. QED  BY <4>1 DEF States
    <3>2. w.current = item /\ w.again = t.again /\ w.ran = t.ran
      <4>1. w = [t EXCEPT !.current = item, !.failed = TRUE]
        BY <2>5, <2>7 DEF States
      <4>. QED  BY <4>1 DEF States
    <3>. QED  BY <3>1, <3>2
  <2>9. Once(u) /\ Once(v) /\ Once(w)
    BY <2>3, <2>6, <2>8
  <2>10. FollowError(t, p) = v
    BY <2>4, <2>7, Zenon DEF FollowError
  <2>. QED  BY <2>4, <2>7, <2>9, <2>10
<1>4. ASSUME NEW p \in Op, Follows(o, p)
      PROVE  Rank[o] < Rank[p]
  BY <1>4, RankType DEF Ranks
<1>5. ASSUME NEW p \in Words, p = NoOp \/ Follows(o, p)
      PROVE  Once(FollowSuccess(t, p))
  <2>1. p = NoOp \/ (p \in Op /\ Rank[o] < Rank[p])
    BY <1>4, <1>5 DEF Words
  <2>2. CASE p = NoOp \/ Validation[p] = "valid"
    BY <1>3, <2>1, <2>2 DEF FollowSuccess
  <2>3. CASE p # NoOp /\ Validation[p] = "invalid"
    <3>1. p \in Op /\ Error[p] \in Words
      BY <2>1, <2>3, OpAssumption DEF Words
    <3>2. Error[p] = NoOp \/ Rank[o] < Rank[Error[p]]
      <4>1. CASE Error[p] # NoOp
        <5>1. Error[p] \in Op /\ Follows(p, Error[p])
          BY <3>1, <4>1 DEF Words, Follows
        <5>. PICK a, b, d : a = Rank[o] /\ b = Rank[p] /\ d = Rank[Error[p]]
          OBVIOUS
        <5>2. a \in Nat /\ b \in Nat /\ d \in Nat /\ b < d
          BY <3>1, <5>1, RankType DEF Ranks
        <5>3. a < b
          BY <2>1, <2>3
        <5>. QED  BY <5>2, <5>3
      <4>. QED  BY <4>1
    <3>. QED  BY <1>3, <2>3, <3>1, <3>2 DEF FollowSuccess
  <2>4. CASE ~(p = NoOp \/ Validation[p] = "valid" \/ Validation[p] = "invalid")
    <3>1. PICK u : u = [t EXCEPT !.screen = "blank"]
      OBVIOUS
    <3>2. u.screen = "blank" /\ u.again = t.again /\ u.ran = t.ran
      BY <3>1 DEF States
    <3>3. FollowSuccess(t, p) = u
      BY <2>4, <3>1 DEF FollowSuccess
    <3>4. Once(u)
      BY <3>2 DEF Past, Once
    <3>. QED  BY <3>3, <3>4
  <2>. QED  BY <2>2, <2>3, <2>4
<1>6. CASE result = "ok"
  <2>1. OperationDone(t, result) = FollowSuccess(t, Success[o])
    BY <1>1, <1>6 DEF OperationDone
  <2>2. Follows(o, Success[o])
    BY DEF Follows
  <2>. QED  BY <1>2, <1>5, <2>1, <2>2
<1>7. CASE result = "operation"
  <2>1. OperationDone(t, result) = FollowSuccess(t, Returned[o])
    BY <1>1, <1>7 DEF OperationDone
  <2>2. Follows(o, Returned[o])
    BY <1>1, <1>7 DEF Follows
  <2>. QED  BY <1>2, <1>5, <2>1, <2>2
<1>8. CASE result = "expired"
  <2>1. OperationDone(t, result) = [Follow(t, Logout) EXCEPT !.failed = TRUE]
    BY <1>8 DEF OperationDone
  <2>2. Follows(o, Logout) /\ Logout \in Words
    BY <1>1, <1>2, <1>8 DEF Follows, Words
  <2>. QED  BY <1>2, <1>3, <1>4, <2>1, <2>2
<1>9. CASE result \notin {"ok", "operation", "expired"}
  <2>1. OperationDone(t, result) = FollowError(t, Error[o])
    BY <1>1, <1>9 DEF OperationDone
  <2>2. Error[o] = NoOp \/ (Error[o] \in Op /\ Follows(o, Error[o]))
    BY <1>2 DEF Follows, Words
  <2>. QED  BY <1>2, <1>3, <1>4, <2>1, <2>2
<1>. QED  BY <1>6, <1>7, <1>8, <1>9

\* An effect that executes the current operation executes it for the first time.
LEMMA RanPast ==
  ASSUME Acyclic, NEW c, ~Idle(c), NEW t, Good(t), t.current = c.current, Once(t),
         t.screen # "blank", ~t.current.pending
  PROVE  /\ Past(Ran(c, t))
         /\ \A x \in Ran(c, t).ran :
              x[1] = t.current.n => Rank[x[2]] < Rank[t.current.op] \/ x[2] = t.current.op
<1>1. t \in States /\ t.current \in Items
  BY StateParts DEF Good
<1>2. PICK o \in Op : o = t.current.op
  BY <1>1 DEF Idle, Items, Words
<1>3. PICK n \in Nat : n = t.current.n
  BY <1>1 DEF Items
<1>4. PICK u : u = Ran(c, t)
  OBVIOUS
<1>5. PICK x \in Nat \X Words : x = <<n, o>> /\ x[1] = n /\ x[2] = o
  <2>1. <<n, o>> \in Nat \X Words
    BY DEF Words
  <2>. QED  BY <2>1
<1>6. u = [t EXCEPT !.again = (t.again \/ x \in t.ran), !.ran = t.ran \cup {x}]
  BY <1>1, <1>2, <1>3, <1>4, <1>5 DEF Ran, States
<1>7. \A y \in t.ran : y[2] \in Op /\ (y[1] = n => Rank[y[2]] < Rank[o])
  BY <1>2, <1>3 DEF Once, Idle
<1>8. x \notin t.ran
  <2>1. PICK k \in Nat : k = Rank[o]
    BY RankType
  <2>2. ~(k < k)
    BY <2>1
  <2>. QED  BY <1>5, <1>7, <2>1, <2>2
<1>9. ~t.again
  BY DEF Once
<1>10. u = [t EXCEPT !.again = FALSE, !.ran = t.ran \cup {x}]
  <2>1. (t.again \/ x \in t.ran) = FALSE
    BY <1>8, <1>9, Zenon
  <2>. QED  BY <1>6, <2>1, Zenon
<1>11. ~u.again /\ u.ran = t.ran \cup {x} /\ u.current = t.current
  <2>1. u.again = FALSE
    BY <1>1, <1>10 DEF States
  <2>2. u.ran = t.ran \cup {x} /\ u.current = t.current
    BY <1>1, <1>10 DEF States
  <2>. QED  BY <2>1, <2>2
<1>12. \A y \in u.ran : y[2] \in Op /\ (y[1] = n => Rank[y[2]] < Rank[o] \/ y[2] = o)
  BY <1>5, <1>7, <1>11
<1>13. ASSUME NEW y \in u.ran, y[1] = n
       PROVE  Rank[y[2]] <= Rank[o]
  <2>1. PICK j \in Nat, k \in Nat : j = Rank[y[2]] /\ k = Rank[o]
    BY <1>12, RankType
  <2>2. j < k \/ j = k
    BY <1>12, <1>13, <2>1
  <2>3. j <= k
    BY <2>2
  <2>. QED  BY <2>1, <2>3
<1>14. Past(u)
  BY <1>2, <1>3, <1>11, <1>12, <1>13 DEF Past
<1>. QED  BY <1>2, <1>3, <1>4, <1>12, <1>14

LEMMA ExecuteOnce ==
  ASSUME Acyclic, NEW c, c \in States, Own(c), ~Idle(c), NEW t, Good(t), Stale(c, t),
         Once(t), t.screen # "blank"
  PROVE  Once(Execute(c, t))
<1>1. t.current = c.current /\ c.current \in Items /\ t \in States
  BY StateParts DEF Stale, Good
<1>2. PICK o \in Op : o = c.current.op
  BY <1>1 DEF Idle, Items, Words
<1>3. KeyOf[o] \in Key /\ Type[o] \in Kinds
  BY OpAssumption DEF Key
<1>4. PICK r : r = Ran(c, t)
  OBVIOUS
<1>5. Good(r) /\ r \in States /\ ~Idle(r) /\ r.current = c.current
  BY <1>1, <1>4, RanKeeps DEF Good
<1>6. ~t.current.pending =>
        Past(r) /\ \A x \in r.ran : x[1] = c.current.n => Rank[x[2]] < Rank[o] \/ x[2] = o
  BY <1>1, <1>2, <1>4, RanPast
<1>7. Type[o] # "request" => Past(r)
  <2>1. Type[o] # "request" => ~t.current.pending
    BY <1>1, <1>2 DEF Own
  <2>. QED  BY <1>6, <2>1
<1>8. ASSUME NEW u, Good(u), u.current = r.current, u.ran = r.ran, u.again = r.again,
             Type[o] # "request", NEW result, result \notin {"operation", "expired"}
      PROVE  Once(OperationDone(u, result))
  <2>1. Past(u)
    BY <1>7, <1>8 DEF Past
  <2>2. u \in States /\ ~Idle(u)
    BY <1>5, <1>8 DEF Good, Idle
  <2>. QED  BY <1>8, <2>1, <2>2, OperationDoneOnce
<1>9. CASE Type[o] = "current"
  BY <1>2, <1>9 DEF Execute
<1>10. CASE Type[o] = "modal"
  <2>1. PICK u : u = [r EXCEPT !.dialog = o]
    OBVIOUS
  <2>2. Good(u)
    BY <1>5, <2>1, MarksKeep DEF Words
  <2>3. u.current = r.current /\ u.ran = r.ran /\ u.again = r.again
    BY <1>5, <2>1 DEF States
  <2>4. Execute(c, t) = OperationDone(u, "ok")
    BY <1>2, <1>4, <1>10, <2>1 DEF Execute
  <2>. QED  BY <1>8, <1>10, <2>2, <2>3, <2>4
<1>11. CASE Type[o] = "closeModal"
  <2>1. PICK u : u = [r EXCEPT !.dialog = NoOp]
    OBVIOUS
  <2>2. Good(u)
    BY <1>5, <2>1, MarksKeep DEF Words
  <2>3. u.current = r.current /\ u.ran = r.ran /\ u.again = r.again
    BY <1>5, <2>1 DEF States
  <2>4. Execute(c, t) = OperationDone(u, "ok")
    BY <1>2, <1>4, <1>11, <2>1 DEF Execute
  <2>. QED  BY <1>8, <1>11, <2>2, <2>3, <2>4
<1>12. CASE Type[o] = "tab"
  <2>1. PICK u : u = OpenTabFunc(c, r)
    OBVIOUS
  <2>2. IsOpen(c.tabs, KeyOf[o]) => IsOpen(r.tabs, KeyOf[o]) \/ KeyOf[o] \in r.lost
    <3>1. r.tabs = t.tabs /\ r.lost = t.lost
      BY <1>1, <1>4, RanKeeps
    <3>. QED  BY <1>2, <1>12, <3>1 DEF Stale, Opening
  <2>3. u \in {OpenTab(r, KeyOf[o]), SetActiveTab(r, KeyOf[o]), r}
        /\ (u = SetActiveTab(r, KeyOf[o]) => IsOpen(c.tabs, KeyOf[o]) \/ u = OpenTab(r, KeyOf[o]) \/ u = r)
    BY <1>2, <2>1 DEF OpenTabFunc
  <2>4. Good(u)
    BY <1>3, <1>5, <2>2, <2>3, OpenTabKeeps
  <2>5. u.current = r.current /\ u.ran = r.ran /\ u.again = r.again
    BY <1>5, <2>3 DEF OpenTab, SetActiveTab, States
  <2>6. Execute(c, t) = OperationDone(u, "ok")
    BY <1>2, <1>4, <1>12, <2>1 DEF Execute
  <2>. QED  BY <1>8, <1>12, <2>4, <2>5, <2>6
<1>13. CASE Type[o] = "closeTab"
  <2>1. PICK u : u = CloseTab(r, KeyOf[o])
    OBVIOUS
  <2>2. Good(u)
    BY <1>5, <2>1, CloseTabKeeps
  <2>3. u.current = r.current /\ u.ran = r.ran /\ u.again = r.again
    BY <1>5, <2>1 DEF CloseTab, States
  <2>4. Execute(c, t) = OperationDone(u, "ok")
    BY <1>2, <1>4, <1>13, <2>1 DEF Execute
  <2>. QED  BY <1>8, <1>13, <2>2, <2>3, <2>4
<1>14. CASE Type[o] = "request"
  <2>1. Execute(c, t) = DoRequest(c, t)
    BY <1>2, <1>14 DEF Execute
  <2>2. CASE c.request.state = "sent"
    BY <2>1, <2>2 DEF DoRequest
  <2>3. CASE c.request.state # "sent" /\ ~c.current.pending
    <3>1. PICK item : /\ item = [c.current EXCEPT !.pending = TRUE]
                      /\ item.n = c.current.n /\ item.op = o /\ item.pending
      <4>1. PICK i \in Items : i = c.current
        BY <1>1
      <4>2. PICK e : e = [i EXCEPT !.pending = TRUE]
        OBVIOUS
      <4>3. e.n = i.n /\ e.op = i.op
        BY <4>2 DEF Items
      <4>4. e.pending
        BY <4>2 DEF Items
      <4>. QED  BY <1>2, <4>1, <4>2, <4>3, <4>4
    <3>2. PICK request : request = [state |-> "sent", for |-> c.current]
      OBVIOUS
    <3>3. PICK u : u = OperationPending([r EXCEPT !.request = request])
      OBVIOUS
    <3>4. u = [r EXCEPT !.request = request, !.current = item]
      BY <1>5, <3>1, <3>3 DEF OperationPending, States
    <3>5. u.current = item /\ u.ran = r.ran /\ u.again = r.again
      BY <1>5, <3>4 DEF States
    <3>6. Past(r) /\ \A x \in r.ran : x[1] = c.current.n => Rank[x[2]] < Rank[o] \/ x[2] = o
      BY <1>1, <1>6, <2>3
    <3>7. \A x \in r.ran : x[2] \in Op
      BY <3>6 DEF Past
    <3>8. ~r.again
      BY <3>6 DEF Past
    <3>9. Once(u)
      <4>1. u.current.n = c.current.n /\ u.current.op = o /\ u.current.pending
        BY <3>1, <3>5
      <4>2. ~u.again
        BY <3>5, <3>8, Zenon
      <4>3. \A x \in u.ran : x[2] \in Op
                /\ (x[1] = u.current.n =>
                      Rank[x[2]] < Rank[u.current.op] \/ (x[2] = u.current.op /\ u.current.pending))
        BY <3>5, <3>6, <3>7, <4>1, Zenon
      <4>. QED  BY <4>2, <4>3, Zenon DEF Once
    <3>10. DoRequest(c, t) = u
      BY <1>4, <2>3, <3>2, <3>3 DEF DoRequest
    <3>. QED  BY <2>1, <3>9, <3>10
  <2>4. CASE c.request.state # "sent" /\ c.current.pending
    <3>1. DoRequest(c, t) = OperationDone(t, c.request.state)
      BY <2>4 DEF DoRequest
    <3>2. ~Idle(t) /\ t.current.op = o
      BY <1>1, <1>2 DEF Idle
    <3>3. Past(t)
      <4>1. ASSUME NEW x \in t.ran
            PROVE  x[2] \in Op /\ (x[1] = t.current.n => Rank[x[2]] <= Rank[o])
        <5>1. x[2] \in Op
          BY DEF Once
        <5>2. PICK j \in Nat, k \in Nat : j = Rank[x[2]] /\ k = Rank[o]
          BY <5>1, RankType
        <5>3. x[1] = t.current.n => j < k \/ j = k
          BY <3>2, <5>2 DEF Once
        <5>4. x[1] = t.current.n => j <= k
          BY <5>3
        <5>. QED  BY <5>1, <5>2, <5>4
      <4>2. ~t.again
        BY DEF Once
      <4>. QED  BY <3>2, <4>1, <4>2 DEF Past
    <3>. QED  BY <1>1, <1>14, <2>1, <3>1, <3>2, <3>3, OperationDoneOnce
  <2>. QED  BY <2>2, <2>3, <2>4
<1>15. CASE Type[o] = "badLink"
  <2>1. Execute(c, t) = OperationDone(r, "error")
    BY <1>2, <1>4, <1>15 DEF Execute
  <2>. QED  BY <1>5, <1>8, <1>15, <2>1
<1>16. CASE Type[o] = "logout"
  <2>1. PICK d : d = Follow(r, NoOp)
    OBVIOUS
  <2>2. d = [r EXCEPT !.current = NoItem]
    BY <2>1 DEF Follow
  <2>3. OperationDone(r, "ok") = d
    <3>1. r.current.op = o /\ ~Idle(r) /\ Success[o] = NoOp
      BY <1>2, <1>5, <1>16, LogoutAssumption
    <3>2. OperationDone(r, "ok") = FollowSuccess(r, Success[o])
      BY <3>1 DEF OperationDone
    <3>. QED  BY <2>1, <3>1, <3>2 DEF FollowSuccess
  <2>4. PICK u : u = [d EXCEPT !.tabs = <<>>, !.active = NoOp, !.dialog = NoOp, !.screen = "login"]
    OBVIOUS
  <2>5. Execute(c, t) = u
    <3>1. Execute(c, t) = [CloseAllTab(d) EXCEPT !.dialog = NoOp, !.screen = "login"]
      BY <1>2, <1>4, <1>16, <2>3 DEF Execute, DoLogout
    <3>. QED  BY <1>5, <2>2, <2>4, <3>1 DEF CloseAllTab, States
  <2>6. u.current = NoItem /\ u.ran = r.ran /\ u.again = r.again
    BY <1>5, <2>2, <2>4 DEF States
  <2>7. Idle(u)
    BY <2>6 DEF Idle, NoItem, Item
  <2>8. Past(r) /\ r.current.op \in Op
    BY <1>2, <1>5, <1>7, <1>16
  <2>9. Once(u)
    BY <2>6, <2>7, <2>8, NextOnce
  <2>. QED  BY <2>5, <2>9
<1>17. CASE Type[o] = "instant"
  <2>1. Execute(c, t) = OperationDone(r, "ok")
    BY <1>2, <1>4, <1>17 DEF Execute
  <2>. QED  BY <1>5, <1>8, <1>17, <2>1
<1>. QED  BY <1>3, <1>9, <1>10, <1>11, <1>12, <1>13, <1>14, <1>15, <1>16, <1>17 DEF Kinds

\* The operation taken from the queue has not been executed.
LEMMA TakeNextOnce ==
  ASSUME NEW c, NEW t, Good(t), Once(t)
  PROVE  Once(TakeNext(c, t))
<1>1. CASE t.queue = <<>>
  BY <1>1 DEF TakeNext, DoNextOperation
<1>2. CASE t.queue # <<>>
  <2>1. PICK q \in Seq(Queued) : q = t.queue /\ q # <<>>
    BY <1>2, StateParts DEF Good
  <2>2. PICK u : u = [t EXCEPT !.current = Head(q), !.queue = Tail(q), !.needConfirm = FALSE, !.failed = FALSE]
    OBVIOUS
  <2>3. t \in States /\ TakeNext(c, t) \in {u, t}
    BY <2>1, <2>2 DEF TakeNext, DoNextOperation, States, Good
  <2>4. u.current = q[1] /\ u.ran = t.ran /\ u.again = t.again
    BY <2>1, <2>2, <2>3 DEF States
  <2>5. 1 \in DOMAIN q /\ q[1].n \in Nat
    <3>1. PICK l \in Nat : l = Len(q) /\ l # 0 /\ DOMAIN q = 1 .. l /\ \A i \in 1 .. l : q[i] \in Queued
      BY <2>1, LenProperties, EmptySeq, ElementOfSeq
    <3>2. 1 \in 1 .. l
      BY <3>1
    <3>. QED  BY <3>1, <3>2 DEF Queued
  <2>6. q[1].n \in t.queued
    BY <2>1, <2>5 DEF Good, Numbers
  <2>7. ASSUME NEW x \in t.ran
        PROVE  x[1] # q[1].n
    <3>1. x[1] \in RanIn(t)
      BY DEF RanIn
    <3>2. q[1].n \notin RanIn(t)
      <4>1. q[1].n \in RanIn(t) => q[1].n < q[1].n
        BY <2>1, <2>5, <2>6 DEF Good, InOrder
      <4>2. PICK k \in Nat : k = q[1].n
        BY <2>5
      <4>3. ~(k < k)
        OBVIOUS
      <4>. QED  BY <4>1, <4>2, <4>3
    <3>. QED  BY <3>1, <3>2
  <2>8. Once(u)
    BY <2>4, <2>7 DEF Once
  <2>. QED  BY <2>3, <2>8
<1>. QED  BY <1>1, <1>2

\* An operation that is set has not been executed either.
LEMMA SetOperationOnce ==
  ASSUME NEW t, Good(t), Once(t), NEW o \in Op, NEW queenable \in BOOLEAN
  PROVE  Once(SetOperation(t, o, queenable)) /\ SetOperation(t, o, queenable).screen = t.screen
<1>1. PICK u : u = SetOperation(t, o, queenable)
  OBVIOUS
<1>2. t \in States /\ t.sets \in Nat /\ t.sets + 1 \in Nat
  BY StateParts DEF Good
<1>3. PICK item : item = Item(o, t.sets + 1) /\ item.n = t.sets + 1
  BY <1>2, ItemFacts DEF Words
<1>4. CASE Idle(t)
  <2>1. u = [t EXCEPT !.current = item, !.failed = FALSE,
                      !.sets = t.sets + 1, !.direct = t.direct \cup {t.sets + 1}]
    BY <1>1, <1>2, <1>3, <1>4 DEF SetOperation, States
  <2>2. u.current = item /\ u.ran = t.ran /\ u.again = t.again /\ u.screen = t.screen
    BY <1>2, <2>1 DEF States
  <2>3. ASSUME NEW x \in t.ran
        PROVE  x[1] # item.n
    <3>1. x[1] \in RanIn(t) /\ RanIn(t) \subseteq 0 .. t.sets
      BY DEF RanIn, Good, Numbers
    <3>. QED  BY <1>2, <1>3, <3>1
  <2>4. Once(u)
    BY <2>2, <2>3 DEF Once
  <2>. QED  BY <1>1, <2>2, <2>4
<1>5. CASE ~Idle(t) /\ queenable
  <2>1. u = [t EXCEPT !.queue = Append(t.queue, item), !.sets = t.sets + 1,
                      !.queued = t.queued \cup {t.sets + 1}]
    BY <1>1, <1>2, <1>3, <1>5 DEF SetOperation, States
  <2>2. u.current = t.current /\ u.ran = t.ran /\ u.again = t.again /\ u.screen = t.screen
    BY <1>2, <2>1 DEF States
  <2>3. Once(u)
    BY <2>2 DEF Once, Idle
  <2>. QED  BY <1>1, <2>2, <2>3
<1>6. CASE ~Idle(t) /\ ~queenable
  BY <1>6 DEF SetOperation
<1>. QED  BY <1>4, <1>5, <1>6

LEMMA RunInitOpsOnce ==
  ASSUME NEW t, Good(t), NEW c, Stale(c, t), Once(t)
  PROVE  /\ Good(RunInitOps(t)) /\ Stale(c, RunInitOps(t))
         /\ Once(RunInitOps(t)) /\ RunInitOps(t).screen = t.screen
<1> DEFINE P == {u \in States : Good(u) /\ Stale(c, u) /\ Once(u) /\ u.screen = t.screen}
<1>1. t \in P
  BY DEF Good
<1>2. ASSUME NEW u \in P, NEW o \in Op, NEW queenable \in BOOLEAN
      PROVE  SetOperation(u, o, queenable) \in P
  <2>1. PICK v : v = SetOperation(u, o, queenable)
    OBVIOUS
  <2>2. Good(v) /\ Stale(c, v)
    BY <2>1, SetOperationKeeps
  <2>3. Once(v) /\ v.screen = t.screen
    BY <2>1, SetOperationOnce
  <2>. QED  BY <2>1, <2>2, <2>3 DEF Good
<1>3. RunInitOps(t) \in P
  <2>. HIDE DEF P
  <2>. QED  BY <1>1, <1>2, LoopKeeps
<1>. QED  BY <1>3

\* All effects of a render with the state of the store, run on t.
LEMMA RunEffectsOnce ==
  ASSUME Acyclic, IInv, NEW t, Good(t), Stale(store, t), Once(t), t.screen # "blank"
  PROVE  Once(RunEffects(store, t))
<1>1. PICK u : /\ u = (IF due = "mount" THEN RunInitOps(t) ELSE t)
               /\ Good(u) /\ Stale(store, u) /\ Once(u) /\ u.screen # "blank"
  BY RunInitOpsOnce
<1>2. RunEffects(store, t) = TakeNext(store, Execute(store, u))
  BY <1>1 DEF RunEffects
<1>3. CASE Idle(store)
  <2>1. Execute(store, u) = u
    BY <1>3 DEF Execute
  <2>. QED  BY <1>1, <1>2, <2>1, TakeNextOnce
<1>4. CASE ~Idle(store)
  <2>1. Good(Execute(store, u)) /\ Once(Execute(store, u))
    BY <1>1, <1>4, ExecuteKeeps, ExecuteOnce DEF IInv, Good
  <2>. QED  BY <1>2, <2>1, TakeNextOnce
<1>. QED  BY <1>3, <1>4

LEMMA DispatchOnce ==
  ASSUME Acyclic, IInv, OInv, NEW t, Good(t), Stale(store, t), Once(t), t.screen = store.screen,
         Dispatch(t)
  PROVE  OInv'
<1>1. CASE due = "no"
  BY <1>1 DEF Dispatch, Render, OInv
<1>2. CASE due # "no"
  <2>1. t.screen # "blank"
    BY <1>2 DEF OInv
  <2>2. Once(RunEffects(store, t))
    BY <2>1, RunEffectsOnce
  <2>. QED  BY <1>2, <2>2 DEF Dispatch, Render, OInv
<1>. QED  BY <1>1, <1>2

LEMMA NextOInv ==
  ASSUME Acyclic, IInv, OInv, [Next]_vars
  PROVE  OInv'
<1>1. store \in States /\ Good(store) /\ Stale(store, store) /\ Once(store)
  BY SelfStale DEF IInv, OInv, Good
<1>2. CASE FlushEffects
  <2>1. due # "no" /\ store.screen # "blank"
    BY <1>2 DEF FlushEffects, OInv
  <2>2. Once(RunEffects(store, store))
    BY <1>1, <2>1, RunEffectsOnce
  <2>. QED  BY <1>1, <1>2, <2>2 DEF FlushEffects, Render, OInv
<1>3. ASSUME NEW o \in Op, NEW queenable \in BOOLEAN, Dispatch(SetOperation(store, o, queenable))
      PROVE  OInv'
  <2>1. PICK t : t = SetOperation(store, o, queenable) /\ Dispatch(t)
    BY <1>3
  <2>2. Good(t) /\ Stale(store, t)
    BY <1>1, <2>1, SetOperationKeeps
  <2>3. Once(t) /\ t.screen = store.screen
    BY <1>1, <2>1, SetOperationOnce
  <2>. QED  BY <2>1, <2>2, <2>3, DispatchOnce
<1>4. ASSUME NEW o \in Op, Menu(o) \/ Notify(o) \/ FrameMessage(o)
      PROVE  OInv'
  <2>1. TRUE \in BOOLEAN /\ (o \in Queenable) \in BOOLEAN
    OBVIOUS
  <2>2. Dispatch(SetOperation(store, o, TRUE)) \/ Dispatch(SetOperation(store, o, o \in Queenable))
    BY <1>4 DEF Menu, Notify, FrameMessage
  <2>. QED  BY <1>3, <2>1, <2>2, Zenon
<1>5. CASE TokenExpired
  <2>1. Dispatch(SetOperation(store, Logout, FALSE)) /\ Logout \in Op /\ FALSE \in BOOLEAN
    BY <1>5, OpAssumption DEF TokenExpired
  <2>. QED  BY <1>3, <2>1
<1>6. ASSUME NEW r \in Answer, Respond(r)
      PROVE  OInv'
  <2>1. PICK t : t = [store EXCEPT !.request.state = r] /\ Dispatch(t) /\ store.request.state = "sent"
    BY <1>6 DEF Respond
  <2>2. store.request \in Requests
    BY <1>1, StateParts
  <2>3. PICK request \in Requests : /\ request = [state |-> r, for |-> store.request.for]
                                    /\ request.for = store.request.for
    <3>1. PICK item \in Items : item = store.request.for
      BY <2>2 DEF Requests
    <3>2. [state |-> r, for |-> item] \in Requests
      BY DEF Requests
    <3>. QED  BY <3>1, <3>2
  <2>4. t = [store EXCEPT !.request = request]
    BY <1>1, <2>1, <2>2, <2>3 DEF States, Requests
  <2>5. /\ t \in States /\ t.current = store.current /\ t.queue = store.queue /\ t.request = request
        /\ t.tabs = store.tabs /\ t.active = store.active /\ t.lost = store.lost
        /\ t.sets = store.sets
        /\ t.queued = store.queued /\ t.ran = store.ran
        /\ t.again = store.again /\ t.screen = store.screen
    BY <1>1, <2>4 DEF States
  <2>6. Numbers(t) /\ InOrder(t) /\ Kept(t) /\ TabsOf(t)
    BY <1>1, <2>5 DEF Good, Numbers, InOrder, Kept, TabsOf, RanIn, Idle
  <2>7. Own(t)
    BY <1>1, <2>1, <2>3, <2>5 DEF Good, Own, RanIn
  <2>8. Stale(store, t)
    BY <1>1, <2>1, <2>5 DEF Stale
  <2>9. Once(t)
    BY <1>1, <2>5 DEF Once, Idle
  <2>. QED  BY <2>1, <2>5, <2>6, <2>7, <2>8, <2>9, DispatchOnce DEF Good
<1>7. CASE Confirm
  <2>1. PICK t : t = Confirmed(store) /\ Dispatch(t) /\ Idle(store)
    BY <1>7 DEF Confirm
  <2>2. NoItem \in Items /\ NoItem.op = NoOp /\ NoItem.n = 0 /\ ~NoItem.pending
    BY ItemFacts DEF Words
  <2>3. /\ t \in States /\ t.current = NoItem /\ t.queue = store.queue /\ t.request = store.request
        /\ t.tabs = store.tabs /\ t.active = store.active /\ t.lost = store.lost
        /\ t.sets = store.sets
        /\ t.queued = store.queued /\ t.ran = store.ran
        /\ t.again = store.again /\ t.screen = store.screen
    BY <1>1, <2>1, <2>2 DEF Confirmed, States
  <2>4. store.current.n = 0 /\ ~store.current.pending /\ store.current.n \notin store.queued
    BY <1>1, <2>1 DEF Good, Numbers, Stale
  <2>5. store.request.state # "sent"
    BY <1>1, <2>4 DEF Good, Own
  <2>6. Good(t)
    BY <1>1, <2>2, <2>3, <2>4, <2>5, ReplaceCurrent
  <2>7. Stale(store, t)
    BY <2>1, <2>2, <2>3, <2>4 DEF Stale
  <2>8. Once(t)
    BY <1>1, <2>2, <2>3 DEF Once, Idle
  <2>. QED  BY <2>1, <2>3, <2>6, <2>7, <2>8, DispatchOnce
<1>8. CASE Login
  <2>1. PICK t : t = [store EXCEPT !.screen = "main"] /\ store' = t /\ store.screen = "login"
    BY <1>8 DEF Login
  <2>2. t.current = store.current /\ t.ran = store.ran /\ t.again = store.again /\ t.screen = "main"
    BY <1>1, <2>1 DEF States
  <2>3. Once(t)
    BY <1>1, <2>1, <2>2 DEF Once, Idle
  <2>. QED  BY <2>1, <2>2, <2>3 DEF OInv
<1>9. CASE Reload
  <2>1. PICK t : t = Fresh(store.sets) /\ store' = t
    BY <1>9 DEF Reload
  <2>2. ~t.again /\ t.ran = {} /\ t.screen = "main"
    BY <2>1 DEF Fresh
  <2>. QED  BY <2>1, <2>2 DEF OInv, Once
<1>10. CASE UNCHANGED vars
  BY <1>10 DEF vars, OInv
<1>11. ASSUME NEW key \in Key, NEW u, Good(u), Stale(store, u), SameRun(store, u), Dispatch(u)
       PROVE  OInv'
  <2>1. Once(u) /\ u.screen = store.screen
    BY <1>1, <1>11 DEF Once, Idle, SameRun
  <2>. QED  BY <1>11, <2>1, DispatchOnce
<1>12. ASSUME NEW key \in Key, ActivateTab(key)
       PROVE  OInv'
  <2>1. IsOpen(store.tabs, key) /\ Dispatch(SetActiveTab(store, key))
    BY <1>12 DEF ActivateTab
  <2>. QED  BY <1>1, <1>11, <2>1, ActivateKeeps
<1>13. ASSUME NEW key \in Key, CloseTabByUser(key)
       PROVE  OInv'
  <2>1. PICK u : /\ u = [CloseTab(store, key) EXCEPT
                          !.lost = @ \cup {k \in {key} : Opening(store) /\ KeyOf[store.current.op] = k}]
                 /\ Dispatch(u)
    BY <1>13 DEF CloseTabByUser
  <2>2. Good(u) /\ Stale(store, u) /\ SameRun(store, u)
    BY <1>1, <2>1, UserKeeps
  <2>. QED  BY <1>11, <2>1, <2>2
<1>. QED  BY <1>2, <1>4, <1>5, <1>6, <1>7, <1>8, <1>9, <1>10, <1>12, <1>13 DEF Next, Event

\* However late the effects of a render run, and whatever is dispatched before
\* them, no operation is executed and no request sent a second time, if no
\* operation is among those that may follow it (the effect of
\* OperationDialog.js:324-363, which runs after every render).
THEOREM SpecRunsOnce ==
  ASSUME Acyclic
  PROVE  Spec => []RunsOnce
<1>1. Init => OInv
  <2> SUFFICES ASSUME Init PROVE OInv
    OBVIOUS
  <2>1. ~store.again /\ store.ran = {} /\ store.screen = "main"
    BY DEF Init, Fresh
  <2>. QED  BY <2>1 DEF OInv, Once
<1>2. IInv /\ OInv /\ [Next]_vars => OInv'
  BY NextOInv
<1>3. OInv => RunsOnce
  BY DEF OInv, Once, RunsOnce
<1>. QED  BY <1>1, <1>2, <1>3, SpecIInv, PTL DEF Spec
=============================================================================
