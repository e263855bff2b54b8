--------------------------- MODULE ListViewProofs ---------------------------
(***************************************************************************)
(* Proofs about ListView, for every set of views, conditions, filters,     *)
(* links and pages, and however many messages are on their way.            *)
(*                                                                         *)
(* The answers of queries reach the list along a line of four sequences:   *)
(* the messages to the frame, the current operation of the main frame, its *)
(* queue, and the messages from the frame.  The inductive invariant says   *)
(* that the last query that was sent is the last one of the line until its *)
(* answer is shown, and that no query is left in the line then, unless it  *)
(* has overtaken others or was given up, after which no answer to it       *)
(* counts as shown.                                                        *)
(***************************************************************************)
EXTENDS ListView, TLAPS

Kinds == {"none", "init", "conf", "query", "bulk", "reload", "open", "other"}
GivenUp == {"none", "overtook", "lost", "refused", "failed"}
Fates == {"sent", "answered", "shown"} \cup GivenUp
Rows == {NoParams} \cup Asked

View == [filter : SUBSET Conds, page : Pages, rows : Rows, all : BOOLEAN]
Slices ==
  [stage : {"script", "mounted", "configuring", "configured", "shown"}, timer : BOOLEAN,
   current : {NoParams} \cup Views, queueable : BOOLEAN, views : [Views -> View]]

\* Messages; an operation on all rows holds the filter and the view of the
\* rows the user saw, if these were shown.
AnyMessage ==
  [kind : Kinds, queueable : BOOLEAN, n : Nat, params : Rows \cup Links,
   seen : {NoParams} \cup [rows : Rows, fate : Fates]]
Fits(m) ==
  /\ m.kind = "open" => m.params \in Links
  /\ m.kind = "query" => m.params \in Asked
  /\ m.kind = "bulk" /\ m.seen.fate = "shown" =>
       m.params.view = m.seen.rows.view /\ m.params.conds = m.seen.rows.conds
Messages == {m \in AnyMessage : Fits(m)}

Main == [current : Seq(Messages), queue : Seq(Messages), confirm : BOOLEAN]
Latest == [n : Nat, params : Rows, fate : Fates]

Types ==
  /\ tab \in [open : BOOLEAN, params : {NoParams} \cup Links, loaded : BOOLEAN, waiting : BOOLEAN]
  /\ tab.open => tab.params \in Links
  /\ list \in Slices
  /\ up \in Seq(Messages) /\ down \in Seq(Messages)
  /\ main \in Main
  /\ Len(main.current) <= 1
  /\ latest \in Latest
  /\ bulk \in Messages

-----------------------------------------------------------------------------
(* The line: d, c, q and u are the messages to the frame, the current      *)
(* operation, the queue, and the messages from the frame; l is the history *)
(* of the last query.                                                      *)

Quiet(s) == \A i \in 1 .. Len(s) : s[i].kind # "query"

\* The query with number n is not in s; if it is, no query comes after it.
Older(s, n) == \A i \in 1 .. Len(s) : s[i].kind = "query" => s[i].n # n
LastIn(s, n) ==
  \A i, j \in 1 .. Len(s) :
    i < j /\ s[i].kind = "query" /\ s[j].kind = "query" => s[i].n # n

IsKnown(m, l) ==
  m.kind = "query" => m.n <= l.n /\ (m.n = l.n => m.params = l.params)
Known(s, l) == \A i \in 1 .. Len(s) : IsKnown(s[i], l)

LatestLast(d, c, q, u, n) ==
  /\ LastIn(d, n) /\ LastIn(c, n) /\ LastIn(q, n) /\ LastIn(u, n)
  /\ Older(d, n) \/ (Quiet(c) /\ Quiet(q) /\ Quiet(u))
  /\ Older(c, n) \/ (Quiet(q) /\ Quiet(u))
  /\ Older(q, n) \/ Quiet(u)

Line(d, c, q, u, l) ==
  /\ Known(d, l) /\ Known(c, l) /\ Known(q, l) /\ Known(u, l)
  /\ l.fate \in {"sent", "answered"} => LatestLast(d, c, q, u, l.n)
  /\ l.fate = "shown" => Quiet(d) /\ Quiet(c) /\ Quiet(q) /\ Quiet(u)

\* What is on the screen is what the last query asked for.
Shown(ls, l) ==
  ls.stage = "shown" =>
    /\ ls.current \in Views
    /\ l.params = QueryParams(ls)
    /\ l.fate = "shown" => Here(ls).rows = l.params

IInv ==
  /\ Types
  /\ Line(down, main.current, main.queue, up, latest)
  /\ Shown(list, latest)

-----------------------------------------------------------------------------
(* Lemmas about the line.                                                  *)

LEMMA EmptyFacts ==
  /\ << >> \in Seq(Messages) /\ Len(<< >>) = 0 /\ Quiet(<< >>)
  /\ \A n : Older(<< >>, n) /\ LastIn(<< >>, n)
  /\ \A l : Known(<< >>, l)
BY DEF Quiet, Older, LastIn, Known

LEMMA OneFacts ==
  ASSUME NEW m \in Messages, NEW n, NEW l
  PROVE  /\ <<m>> \in Seq(Messages) /\ Len(<<m>>) = 1
         /\ Quiet(<<m>>) <=> m.kind # "query"
         /\ Older(<<m>>, n) <=> (m.kind = "query" => m.n # n)
         /\ LastIn(<<m>>, n)
         /\ Known(<<m>>, l) <=> IsKnown(m, l)
BY DEF Quiet, Older, LastIn, Known

LEMMA AppendFacts ==
  ASSUME NEW s \in Seq(Messages), NEW m \in Messages, NEW n, NEW l
  PROVE  /\ Append(s, m) \in Seq(Messages)
         /\ Quiet(Append(s, m)) <=> Quiet(s) /\ m.kind # "query"
         /\ Older(Append(s, m), n) <=> Older(s, n) /\ (m.kind = "query" => m.n # n)
         /\ LastIn(s, n) /\ (Older(s, n) \/ m.kind # "query") => LastIn(Append(s, m), n)
         /\ Known(Append(s, m), l) <=> Known(s, l) /\ IsKnown(m, l)
<1> DEFINE a == Append(s, m)
<1>1. /\ a \in Seq(Messages) /\ Len(s) \in Nat /\ Len(a) = Len(s) + 1
      /\ \A i \in 1 .. Len(s) : a[i] = s[i]
      /\ a[Len(s) + 1] = m
  OBVIOUS
<1>. HIDE DEF a
<1>2. \A i : i \in 1 .. Len(a) <=> i \in 1 .. Len(s) \/ i = Len(s) + 1
  BY <1>1
<1>3. Quiet(a) <=> Quiet(s) /\ m.kind # "query"
  BY <1>1, <1>2 DEF Quiet
<1>4. Older(a, n) <=> Older(s, n) /\ (m.kind = "query" => m.n # n)
  BY <1>1, <1>2 DEF Older
<1>5. LastIn(s, n) /\ (Older(s, n) \/ m.kind # "query") => LastIn(a, n)
  BY <1>1 DEF LastIn, Older
<1>6. Known(a, l) <=> Known(s, l) /\ IsKnown(m, l)
  BY <1>1, <1>2 DEF Known
<1>. QED  BY <1>1, <1>3, <1>4, <1>5, <1>6 DEF a

LEMMA TailFacts ==
  ASSUME NEW s \in Seq(Messages), s # << >>, NEW n, NEW l
  PROVE  /\ Head(s) \in Messages /\ Tail(s) \in Seq(Messages)
         /\ Quiet(s) => Quiet(Tail(s)) /\ Head(s).kind # "query"
         /\ Older(s, n) => Older(Tail(s), n) /\ (Head(s).kind = "query" => Head(s).n # n)
         /\ LastIn(s, n) => /\ LastIn(Tail(s), n)
                            /\ Head(s).kind = "query" /\ Head(s).n = n => Quiet(Tail(s))
         /\ Known(s, l) => Known(Tail(s), l) /\ IsKnown(Head(s), l)
<1> DEFINE t == Tail(s)
<1>1. /\ t \in Seq(Messages) /\ Len(s) \in Nat /\ Len(s) >= 1 /\ Len(t) = Len(s) - 1
      /\ \A i \in 1 .. Len(t) : i + 1 \in 1 .. Len(s) /\ t[i] = s[i + 1]
      /\ Head(s) = s[1] /\ 1 \in 1 .. Len(s) /\ Head(s) \in Messages
  OBVIOUS
<1>. HIDE DEF t
<1>2. Quiet(s) => Quiet(t) /\ Head(s).kind # "query"
  BY <1>1 DEF Quiet
<1>3. Older(s, n) => Older(t, n) /\ (Head(s).kind = "query" => Head(s).n # n)
  BY <1>1 DEF Older
<1>4. LastIn(s, n) => LastIn(t, n)
  <2> SUFFICES ASSUME LastIn(s, n), NEW i \in 1 .. Len(t), NEW j \in 1 .. Len(t),
                      i < j, t[i].kind = "query", t[j].kind = "query"
               PROVE  t[i].n # n
    BY DEF LastIn
  <2>1. i + 1 < j + 1 /\ i + 1 \in 1 .. Len(s) /\ j + 1 \in 1 .. Len(s)
    BY <1>1
  <2>. QED  BY <1>1, <2>1 DEF LastIn
<1>5. LastIn(s, n) /\ Head(s).kind = "query" /\ Head(s).n = n => Quiet(t)
  <2> SUFFICES ASSUME LastIn(s, n), s[1].kind = "query", s[1].n = n,
                      NEW i \in 1 .. Len(t), t[i].kind = "query"
               PROVE  FALSE
    BY <1>1 DEF Quiet
  <2>1. 1 < i + 1 /\ i + 1 \in 1 .. Len(s) /\ s[i + 1].kind = "query"
    BY <1>1
  <2>. QED  BY <1>1, <2>1 DEF LastIn
<1>6. Known(s, l) => Known(t, l) /\ IsKnown(Head(s), l)
  BY <1>1 DEF Known
<1>. QED  BY <1>1, <1>2, <1>3, <1>4, <1>5, <1>6 DEF t

\* A new query makes all others older.
LEMMA OlderFacts ==
  ASSUME NEW s \in Seq(Messages), NEW l \in Latest, NEW l2, Known(s, l), l2.n = l.n + 1
  PROVE  Older(s, l2.n) /\ LastIn(s, l2.n) /\ Known(s, l2)
<1>1. l.n \in Nat /\ \A i \in 1 .. Len(s) : s[i].n \in Nat
  BY DEF Latest, Messages, AnyMessage
<1>. QED  BY <1>1 DEF Older, LastIn, Known, IsKnown

\* A message without a query in it that the frame sends.
LEMMA LineSend ==
  ASSUME NEW d, NEW c, NEW q, NEW u \in Seq(Messages), NEW l, NEW m \in Messages,
         m.kind # "query", Line(d, c, q, u, l)
  PROVE  Line(d, c, q, Append(u, m), l)
BY AppendFacts DEF Line, LatestLast, IsKnown

\* The same for a message to the frame.
LEMMA LinePost ==
  ASSUME NEW d \in Seq(Messages), NEW c, NEW q, NEW u, NEW l, NEW m \in Messages,
         m.kind # "query", Line(d, c, q, u, l)
  PROVE  Line(Append(d, m), c, q, u, l)
BY AppendFacts DEF Line, LatestLast, IsKnown

LEMMA LineRender ==
  ASSUME NEW d \in Seq(Messages), NEW c \in Seq(Messages), NEW q \in Seq(Messages),
         NEW u \in Seq(Messages), NEW l \in Latest, NEW m \in Messages, NEW l2,
         l2.n = l.n + 1, l2.fate = "sent", m.n = l2.n, m.params = l2.params,
         Line(d, c, q, u, l)
  PROVE  Line(d, c, q, Append(u, m), l2)
<1>1. \A s \in {d, c, q, u} : Older(s, l2.n) /\ LastIn(s, l2.n) /\ Known(s, l2)
  BY OlderFacts DEF Line
<1>2. IsKnown(m, l2)
  BY DEF IsKnown, Messages, AnyMessage
<1>3. LastIn(Append(u, m), l2.n) /\ Known(Append(u, m), l2)
  BY <1>1, <1>2, AppendFacts
<1>. QED  BY <1>1, <1>3 DEF Line, LatestLast

\* Once the last query has been given up the line may be what it likes.
LEMMA LineGivenUp ==
  ASSUME NEW d, NEW c, NEW q, NEW u, NEW l, NEW l2,
         Known(d, l), Known(c, l), Known(q, l), Known(u, l),
         l2.n = l.n, l2.params = l.params, l2.fate \in GivenUp
  PROVE  Line(d, c, q, u, l2)
BY DEF Line, Known, IsKnown, GivenUp

\* Messages that are lost.
LEMMA LineDrop ==
  ASSUME NEW d, NEW c, NEW q, NEW u, NEW l, Line(d, c, q, u, l)
  PROVE  Line(<< >>, c, q, u, l) /\ Line(d, << >>, q, u, l)
BY EmptyFacts DEF Line, LatestLast

\* The frame takes a message.
LEMMA LineTake ==
  ASSUME NEW d \in Seq(Messages), d # << >>, NEW c, NEW q, NEW u, NEW l, Line(d, c, q, u, l)
  PROVE  Line(Tail(d), c, q, u, l)
BY TailFacts DEF Line, LatestLast

\* ... which is the answer to the last query.
LEMMA LineShow ==
  ASSUME NEW d \in Seq(Messages), d # << >>, NEW c, NEW q, NEW u, NEW l, NEW l2,
         Line(d, c, q, u, l), l.fate = "answered", Head(d).kind = "query", Head(d).n = l.n,
         l2.n = l.n, l2.params = l.params, l2.fate = "shown"
  PROVE  Line(Tail(d), c, q, u, l2)
<1>1. LatestLast(d, c, q, u, l.n)
  BY DEF Line
<1>2. Quiet(Tail(d)) /\ ~Older(d, l.n)
  BY <1>1, TailFacts DEF LatestLast
<1>3. Quiet(c) /\ Quiet(q) /\ Quiet(u)
  BY <1>1, <1>2 DEF LatestLast
<1>4. Known(Tail(d), l2) /\ Known(c, l2) /\ Known(q, l2) /\ Known(u, l2)
  <2>1. Known(Tail(d), l) /\ Known(c, l) /\ Known(q, l) /\ Known(u, l)
    BY TailFacts DEF Line
  <2>. QED  BY <2>1 DEF Known, IsKnown
<1>. QED  BY <1>2, <1>3, <1>4 DEF Line

\* The main frame answers the operation m that is current.
LEMMA LineAnswer ==
  ASSUME NEW d \in Seq(Messages), NEW m \in Messages, NEW q, NEW u, NEW l, NEW l2,
         Line(d, <<m>>, q, u, l), l2.n = l.n, l2.params = l.params,
         l2.fate = l.fate \/ (l.fate = "sent" /\ l2.fate = "answered")
  PROVE  Line(Append(d, m), << >>, q, u, l2)
<1>1. /\ Known(d, l2) /\ IsKnown(m, l2) /\ Known(q, l2) /\ Known(u, l2)
  BY OneFacts DEF Line, Known, IsKnown
<1>2. Known(Append(d, m), l2)
  BY <1>1, AppendFacts
<1>3. ASSUME l.fate \in {"sent", "answered"}
      PROVE  LatestLast(Append(d, m), << >>, q, u, l.n)
  <2>1. LatestLast(d, <<m>>, q, u, l.n)
    BY <1>3 DEF Line
  <2>2. LastIn(Append(d, m), l.n)
    BY <2>1, OneFacts, AppendFacts DEF LatestLast
  <2>3. Older(Append(d, m), l.n) \/ (Quiet(q) /\ Quiet(u))
    BY <2>1, OneFacts, AppendFacts DEF LatestLast
  <2>. QED  BY <2>1, <2>2, <2>3, EmptyFacts DEF LatestLast
<1>4. l.fate = "shown" => Quiet(Append(d, m)) /\ Quiet(q) /\ Quiet(u)
  BY OneFacts, AppendFacts DEF Line
<1>. QED  BY <1>1, <1>2, <1>3, <1>4, EmptyFacts DEF Line

\* The queue is not empty and the main frame idle.
LEMMA LineNext ==
  ASSUME NEW d, NEW q \in Seq(Messages), q # << >>, NEW u, NEW l, Line(d, << >>, q, u, l)
  PROVE  Line(d, <<Head(q)>>, Tail(q), u, l)
<1>1. Head(q) \in Messages
  BY TailFacts
<1>2. Known(<<Head(q)>>, l) /\ Known(Tail(q), l)
  BY <1>1, TailFacts, OneFacts DEF Line
<1>3. ASSUME l.fate \in {"sent", "answered"}
      PROVE  LatestLast(d, <<Head(q)>>, Tail(q), u, l.n)
  <2>1. LatestLast(d, << >>, q, u, l.n)
    BY <1>3 DEF Line
  <2>2. LastIn(<<Head(q)>>, l.n) /\ LastIn(Tail(q), l.n)
    BY <1>1, <2>1, TailFacts, OneFacts DEF LatestLast
  <2>3. Older(d, l.n) \/ (Quiet(<<Head(q)>>) /\ Quiet(Tail(q)) /\ Quiet(u))
    BY <1>1, <2>1, TailFacts, OneFacts DEF LatestLast
  <2>4. Older(<<Head(q)>>, l.n) \/ (Quiet(Tail(q)) /\ Quiet(u))
    <3>1. CASE Older(q, l.n)
      BY <1>1, <3>1, TailFacts, OneFacts
    <3>2. CASE ~Older(q, l.n)
      <4>1. Quiet(u)
        BY <2>1, <3>2 DEF LatestLast
      <4>2. Head(q).kind = "query" /\ Head(q).n = l.n => Quiet(Tail(q))
        BY <2>1, TailFacts DEF LatestLast
      <4>. QED  BY <1>1, <4>1, <4>2, OneFacts
    <3>. QED  BY <3>1, <3>2
  <2>5. Older(Tail(q), l.n) \/ Quiet(u)
    BY <2>1, TailFacts DEF LatestLast
  <2>. QED  BY <2>1, <2>2, <2>3, <2>4, <2>5 DEF LatestLast
<1>4. l.fate = "shown" => Quiet(<<Head(q)>>) /\ Quiet(Tail(q))
  BY <1>1, TailFacts, OneFacts DEF Line
<1>. QED  BY <1>2, <1>3, <1>4 DEF Line

\* The main frame gets a message m, after which it will get those in u: the
\* line is that of the others, and m comes right before u.
Ahead(d, c, q, m, u, l) ==
  /\ Line(d, c, q, u, l) /\ IsKnown(m, l)
  /\ m.kind = "query" =>
       /\ l.fate # "shown"
       /\ l.fate \in {"sent", "answered"} =>
            /\ Older(d, l.n) /\ Older(c, l.n) /\ Older(q, l.n)
            /\ m.n = l.n => Quiet(u)

LEMMA HeadAhead ==
  ASSUME NEW d, NEW c, NEW q, NEW u \in Seq(Messages), u # << >>, NEW l, Line(d, c, q, u, l)
  PROVE  Ahead(d, c, q, Head(u), Tail(u), l)
<1>1. Known(Tail(u), l) /\ IsKnown(Head(u), l)
  BY TailFacts DEF Line
<1>2. l.fate = "shown" => Quiet(Tail(u)) /\ Head(u).kind # "query"
  BY TailFacts DEF Line
<1>3. ASSUME l.fate \in {"sent", "answered"}
      PROVE  /\ LatestLast(d, c, q, Tail(u), l.n)
             /\ Head(u).kind = "query" =>
                  /\ Older(d, l.n) /\ Older(c, l.n) /\ Older(q, l.n)
                  /\ Head(u).n = l.n => Quiet(Tail(u))
  BY <1>3, TailFacts DEF Line, LatestLast
<1>. QED  BY <1>1, <1>2, <1>3 DEF Ahead, Line

LEMMA AheadQuiet ==
  ASSUME NEW d, NEW c, NEW q, NEW u, NEW l, NEW m, m.kind # "query", Line(d, c, q, u, l)
  PROVE  Ahead(d, c, q, m, u, l)
BY DEF Ahead, IsKnown

\* The main frame runs m at once; a query that overtakes others must not be
\* the last one for this.
LEMMA LineAtOnce ==
  ASSUME NEW d, NEW q \in Seq(Messages), NEW m \in Messages, NEW u, NEW l,
         Ahead(d, << >>, q, m, u, l),
         q = << >> \/ m.kind # "query" \/ m.n # l.n
  PROVE  Line(d, <<m>>, q, u, l)
<1>1. Known(<<m>>, l)
  BY OneFacts DEF Ahead
<1>2. ASSUME l.fate \in {"sent", "answered"}
      PROVE  LatestLast(d, <<m>>, q, u, l.n)
  <2>1. LatestLast(d, << >>, q, u, l.n)
    BY <1>2 DEF Ahead, Line
  <2>2. Older(d, l.n) \/ (Quiet(<<m>>) /\ Quiet(q) /\ Quiet(u))
    BY <1>2, <2>1, OneFacts DEF LatestLast, Ahead
  <2>3. Older(<<m>>, l.n) \/ (Quiet(q) /\ Quiet(u))
    BY <1>2, OneFacts, EmptyFacts DEF Ahead
  <2>. QED  BY <2>1, <2>2, <2>3, OneFacts DEF LatestLast
<1>3. l.fate = "shown" => Quiet(<<m>>)
  BY OneFacts DEF Ahead
<1>. QED  BY <1>1, <1>2, <1>3 DEF Ahead, Line

LEMMA LineQueue ==
  ASSUME NEW d, NEW c, NEW q \in Seq(Messages), NEW m \in Messages, NEW u, NEW l,
         Ahead(d, c, q, m, u, l)
  PROVE  Line(d, c, Append(q, m), u, l)
<1>1. Known(Append(q, m), l)
  BY AppendFacts DEF Ahead, Line
<1>2. ASSUME l.fate \in {"sent", "answered"}
      PROVE  LatestLast(d, c, Append(q, m), u, l.n)
  <2>1. LatestLast(d, c, q, u, l.n)
    BY <1>2 DEF Ahead, Line
  <2>2. LastIn(Append(q, m), l.n)
    BY <1>2, <2>1, AppendFacts DEF LatestLast, Ahead
  <2>3. /\ Older(d, l.n) \/ (Quiet(c) /\ Quiet(Append(q, m)) /\ Quiet(u))
        /\ Older(c, l.n) \/ (Quiet(Append(q, m)) /\ Quiet(u))
    BY <1>2, <2>1, AppendFacts DEF LatestLast, Ahead
  <2>4. Older(Append(q, m), l.n) \/ Quiet(u)
    BY <1>2, <2>1, AppendFacts DEF LatestLast, Ahead
  <2>. QED  BY <2>1, <2>2, <2>3, <2>4 DEF LatestLast
<1>3. l.fate = "shown" => Quiet(Append(q, m))
  BY AppendFacts DEF Ahead, Line
<1>. QED  BY <1>1, <1>2, <1>3 DEF Ahead, Line

-----------------------------------------------------------------------------
(* Lemmas about the slices.                                                *)

LEMMA ChangeFacts ==
  ASSUME NEW l \in Slices, l.current \in Views, NEW view \in View
  PROVE  /\ Change(l, view) \in Slices
         /\ Change(l, view).stage = l.stage /\ Change(l, view).current = l.current
         /\ Here(Change(l, view)) = view
<1>1. l.views \in [Views -> View]
  BY DEF Slices
<1>2. PICK vs \in [Views -> View] : vs = [l.views EXCEPT ![l.current] = view]
  BY <1>1
<1>3. Change(l, view) = [l EXCEPT !.views = vs] /\ vs[l.current] = view
  BY <1>1, <1>2 DEF Change
<1>. QED  BY <1>3 DEF Slices, Here

LEMMA HereType ==
  ASSUME NEW l \in Slices, l.current \in Views
  PROVE  Here(l) \in View
BY DEF Slices, Here

LEMMA SetFilterFacts ==
  ASSUME NEW l \in Slices, l.current \in Views, NEW f \in Filters
  PROVE  /\ SetFilter(l, f) \in Slices
         /\ SetFilter(l, f).stage = l.stage /\ SetFilter(l, f).current = l.current
<1>1. f \in SUBSET Conds /\ 1 \in Pages
  BY ListAssumption
<1>2. PICK view \in View : view = Here(l)
  BY HereType
<1>3. PICK changed : changed = [view EXCEPT !.filter = f, !.page = 1]
  OBVIOUS
<1>4. changed \in View
  BY <1>1, <1>3 DEF View
<1>5. SetFilter(l, f) = Change(l, changed)
  BY <1>2, <1>3 DEF SetFilter
<1>. QED  BY <1>4, <1>5, ChangeFacts

LEMMA SetPaginationFacts ==
  ASSUME NEW l \in Slices, l.current \in Views, NEW p \in Pages
  PROVE  /\ SetPagination(l, p) \in Slices
         /\ SetPagination(l, p).stage = l.stage /\ SetPagination(l, p).current = l.current
<1>1. [Here(l) EXCEPT !.page = p] \in View
  BY HereType DEF View
<1>. QED  BY <1>1, ChangeFacts DEF SetPagination

LEMMA SetCurrentViewFacts ==
  ASSUME NEW l \in Slices, NEW v \in Views
  PROVE  /\ SetCurrentView(l, v) \in Slices
         /\ SetCurrentView(l, v).stage = l.stage /\ SetCurrentView(l, v).current = v
BY DEF SetCurrentView, Slices

LEMMA SetViewFilterFacts ==
  ASSUME NEW l \in Slices, l.current \in Views, NEW params \in Links
  PROVE  /\ SetViewFilter(l, params) \in Slices
         /\ SetViewFilter(l, params).stage = l.stage
         /\ SetViewFilter(l, params).current \in Views
<1>1. params.view \in Views \cup {NoParams} /\ params.filter \in Filters \cup {NoParams}
  BY ListAssumption
<1>2. PICK k : k = IF params.view = NoParams THEN l ELSE SetCurrentView(l, params.view)
  OBVIOUS
<1>3. k \in Slices /\ k.stage = l.stage /\ k.current \in Views
  BY <1>1, <1>2, SetCurrentViewFacts
<1>4. CASE params.filter = NoParams
  <2>1. SetViewFilter(l, params) = k
    BY <1>2, <1>4 DEF SetViewFilter
  <2>. QED  BY <1>3, <2>1
<1>5. CASE params.filter # NoParams
  <2>1. SetViewFilter(l, params) = SetFilter(k, params.filter)
    BY <1>2, <1>5 DEF SetViewFilter
  <2>. QED  BY <1>1, <1>3, <1>5, <2>1, SetFilterFacts
<1>. QED  BY <1>4, <1>5

LEMMA InitDataViewFacts ==
  ASSUME NEW l \in Slices, NEW params \in Links
  PROVE  /\ InitDataView(l, params) \in Slices
         /\ InitDataView(l, params).stage = "shown"
         /\ InitDataView(l, params).current \in Views
<1>1. params.view \in Views \cup {NoParams}
  BY ListAssumption
<1>2. PICK k : k = [l EXCEPT !.stage = "shown",
                      !.current = IF params.view = NoParams THEN First ELSE params.view]
  OBVIOUS
<1>3. k \in Slices /\ k.stage = "shown" /\ k.current \in Views
  BY <1>1, <1>2, ListAssumption DEF Slices
<1>4. InitDataView(l, params) = SetViewFilter(k, params)
  BY <1>2 DEF InitDataView
<1>. QED  BY <1>3, <1>4, SetViewFilterFacts

LEMMA QueryParamsType ==
  ASSUME NEW l \in Slices, l.current \in Views
  PROVE  QueryParams(l) \in Asked
<1>1. Here(l).filter \subseteq Conds /\ Here(l).page \in Pages
  BY HereType DEF View
<1>2. ViewFilter[l.current] \subseteq Conds
  BY ListAssumption
<1>. QED  BY <1>1, <1>2 DEF QueryParams, QueryFilter, Asked

\* Rows that come and rows that are selected change no query.
LEMMA SetDataFacts ==
  ASSUME NEW l \in Slices, l.current \in Views, NEW rows \in Rows
  PROVE  /\ SetData(l, rows) \in Slices
         /\ SetData(l, rows).stage = l.stage /\ SetData(l, rows).current = l.current
         /\ QueryParams(SetData(l, rows)) = QueryParams(l)
         /\ Here(SetData(l, rows)).rows = rows
<1>1. PICK view : view = [Here(l) EXCEPT !.rows = rows, !.all = FALSE]
  OBVIOUS
<1>2. /\ view \in View /\ view.rows = rows
      /\ view.filter = Here(l).filter /\ view.page = Here(l).page
  BY <1>1, HereType DEF View
<1>3. PICK k : k = Change(l, view)
  OBVIOUS
<1>4. k \in Slices /\ k.stage = l.stage /\ k.current = l.current /\ Here(k) = view
  BY <1>2, <1>3, ChangeFacts
<1>5. SetData(l, rows) = [k EXCEPT !.queueable = FALSE]
  BY <1>1, <1>3 DEF SetData
<1>6. /\ SetData(l, rows) \in Slices
      /\ SetData(l, rows).stage = l.stage /\ SetData(l, rows).current = l.current
      /\ Here(SetData(l, rows)) = view
  BY <1>4, <1>5 DEF Slices, Here
<1>. QED  BY <1>2, <1>6 DEF QueryParams, QueryFilter

LEMMA SelectFacts ==
  ASSUME NEW l \in Slices, l.current \in Views
  PROVE  /\ SetSelectAll(l, TRUE) \in Slices
         /\ SetSelectAll(l, TRUE).stage = l.stage /\ SetSelectAll(l, TRUE).current = l.current
         /\ QueryParams(SetSelectAll(l, TRUE)) = QueryParams(l)
         /\ Here(SetSelectAll(l, TRUE)).rows = Here(l).rows
<1>1. PICK view : view = [Here(l) EXCEPT !.all = TRUE]
  OBVIOUS
<1>2. /\ view \in View /\ view.rows = Here(l).rows
      /\ view.filter = Here(l).filter /\ view.page = Here(l).page
  BY <1>1, HereType DEF View
<1>3. SetSelectAll(l, TRUE) = Change(l, view)
  BY <1>1 DEF SetSelectAll
<1>. QED  BY <1>2, <1>3, ChangeFacts DEF QueryParams, QueryFilter

LEMMA BlankType == Blank \in Slices /\ Blank.stage = "script"
<1>1. NewView \in View
  BY ListAssumption DEF NewView, View, Rows
<1>. QED  BY <1>1 DEF Blank, Slices

LEMMA MessageType ==
  ASSUME NEW kind \in Kinds, kind \notin {"open", "query", "bulk"}, NEW b \in BOOLEAN
  PROVE  Message(kind, b) \in Messages /\ Message(kind, b).kind = kind
BY DEF Message, Messages, AnyMessage, Fits, Rows

-----------------------------------------------------------------------------
(* Each action preserves the invariant.                                    *)

LEMMA InitIInv == Init => IInv
<1> SUFFICES ASSUME Init PROVE IInv
  OBVIOUS
<1>1. bulk \in Messages
  BY MessageType DEF Init, Kinds
<1>2. latest \in Latest /\ latest.fate = "none"
  BY DEF Init, Latest, Rows, Fates, GivenUp
<1>3. Types
  <2>1. /\ tab \in [open : BOOLEAN, params : {NoParams} \cup Links,
                   loaded : BOOLEAN, waiting : BOOLEAN]
        /\ ~tab.open
    BY DEF Init, NoTab
  <2>2. main \in Main
    BY EmptyFacts DEF Init, Main
  <2>3. Len(main.current) <= 1
    BY EmptyFacts DEF Init
  <2>4. list \in Slices /\ up \in Seq(Messages) /\ down \in Seq(Messages)
    BY BlankType, EmptyFacts DEF Init
  <2>. QED  BY <1>1, <1>2, <2>1, <2>2, <2>3, <2>4 DEF Types
<1>4. Line(down, main.current, main.queue, up, latest)
  BY <1>2, EmptyFacts DEF Init, Line
<1>5. Shown(list, latest)
  BY BlankType DEF Init, Shown
<1>. QED  BY <1>3, <1>4, <1>5 DEF IInv

\* The view is rendered and a query sent, after the frame has taken the
\* messages to it up to d.
LEMMA RenderStep ==
  ASSUME IInv, NEW l \in Slices, l.stage = "shown", l.current \in Views, Render(l),
         NEW d \in Seq(Messages), Line(d, main.current, main.queue, up, latest)
  PROVE  /\ list' \in Slices /\ up' \in Seq(Messages) /\ latest' \in Latest
         /\ Line(d, main.current, main.queue, up', latest')
         /\ Shown(list', latest')
<1>1. QueryParams(l) \in Asked
  BY QueryParamsType
<1>2. latest.n \in Nat /\ latest \in Latest /\ up \in Seq(Messages)
  BY DEF IInv, Types, Latest
<1>3. PICK m : m = [Message("query", l.queueable) EXCEPT
                      !.n = latest.n + 1, !.params = QueryParams(l)]
  OBVIOUS
<1>4. m \in Messages /\ m.n = latest.n + 1 /\ m.params = QueryParams(l)
  <2>1. l.queueable \in BOOLEAN
    BY DEF Slices
  <2>2. m = [kind |-> "query", queueable |-> l.queueable, n |-> latest.n + 1,
             params |-> QueryParams(l), seen |-> NoParams]
    BY <1>3 DEF Message
  <2>3. m \in AnyMessage
    BY <1>1, <1>2, <2>1, <2>2 DEF AnyMessage, Rows, Kinds
  <2>. QED  BY <1>1, <2>2, <2>3 DEF Messages, Fits
<1>5. /\ list' = l /\ up' = Append(up, m)
      /\ latest' = [n |-> latest.n + 1, params |-> QueryParams(l), fate |-> "sent"]
  BY <1>3 DEF Render
<1>6. up' \in Seq(Messages)
  BY <1>2, <1>4, <1>5
<1>7. latest' \in Latest
  BY <1>1, <1>2, <1>5 DEF Latest, Rows, Fates
<1>8. Line(d, main.current, main.queue, up', latest')
  <2>1. main.current \in Seq(Messages) /\ main.queue \in Seq(Messages)
    BY DEF IInv, Types, Main
  <2>2. /\ latest'.n = latest.n + 1 /\ latest'.fate = "sent"
        /\ latest'.params = QueryParams(l)
    BY <1>5
  <2>. QED  BY <1>2, <1>4, <1>5, <2>1, <2>2, LineRender
<1>9. Shown(list', latest')
  BY <1>5 DEF Shown
<1>. QED  BY <1>5, <1>6, <1>7, <1>8, <1>9

LEMMA UserSetsStep ==
  ASSUME IInv, CanAct, NEW l \in Slices, l.stage = "shown", l.current \in Views, UserSets(l)
  PROVE  IInv'
<1>1. Render(l) /\ UNCHANGED <<tab, down, main, bulk>>
  BY DEF UserSets
<1>2. down \in Seq(Messages) /\ Line(down, main.current, main.queue, up, latest)
  BY DEF IInv, Types
<1>3. /\ list' \in Slices /\ up' \in Seq(Messages) /\ latest' \in Latest
      /\ Line(down, main.current, main.queue, up', latest')
      /\ Shown(list', latest')
  BY <1>1, <1>2, RenderStep
<1>. QED  BY <1>1, <1>3 DEF IInv, Types

LEMMA ListIsShown ==
  ASSUME IInv, list.stage = "shown"
  PROVE  list \in Slices /\ list.current \in Views
BY DEF IInv, Types, Shown

LEMMA ChangesStep ==
  ASSUME IInv,
         \/ \E f \in Filters : ChangeFilter(f)
         \/ \E p \in Pages : ChangePage(p)
         \/ \E v \in Views : ChangeView(v)
         \/ Refresh
  PROVE  IInv'
<1>1. CanAct /\ list.stage = "shown"
  BY DEF ChangeFilter, ChangePage, ChangeView, Refresh, CanAct
<1>2. PICK l \in Slices : l.stage = "shown" /\ l.current \in Views /\ UserSets(l)
  BY <1>1, ListIsShown, SetFilterFacts, SetPaginationFacts, SetCurrentViewFacts
     DEF ChangeFilter, ChangePage, ChangeView, Refresh
<1>. QED  BY <1>1, <1>2, UserSetsStep

LEMMA SelectAllStep ==
  ASSUME IInv, SelectAll
  PROVE  IInv'
<1>1. list.stage = "shown" /\ list' = SetSelectAll(list, TRUE)
  BY DEF SelectAll, CanAct
<1>2. UNCHANGED <<tab, up, down, main, latest, bulk>>
  BY DEF SelectAll
<1>3. list' \in Slices /\ Shown(list', latest)
  BY <1>1, ListIsShown, SelectFacts DEF Shown, IInv
<1>. QED  BY <1>2, <1>3 DEF IInv, Types

LEMMA DoOperationStep ==
  ASSUME IInv, DoOperation
  PROVE  IInv'
<1>1. list.stage = "shown" /\ UNCHANGED <<tab, list, down, main, latest, bulk>>
  BY DEF DoOperation, CanAct
<1>2. PICK m : m = [Message("bulk", FALSE) EXCEPT
                      !.params = QueryParams(list),
                      !.seen = [rows |-> Here(list).rows, fate |-> latest.fate]]
  OBVIOUS
<1>3. /\ m.kind = "bulk" /\ m.params = QueryParams(list)
      /\ m.seen.rows = Here(list).rows /\ m.seen.fate = latest.fate
  BY <1>2 DEF Message
<1>4. m \in AnyMessage
  <2>1. QueryParams(list) \in Asked
    BY <1>1, ListIsShown, QueryParamsType
  <2>2. Here(list).rows \in Rows
    BY <1>1, ListIsShown, HereType DEF View
  <2>3. latest.fate \in Fates
    BY DEF IInv, Types, Latest
  <2>. QED  BY <1>2, <2>1, <2>2, <2>3 DEF Message, AnyMessage, Kinds, Rows
<1>5. latest.fate = "shown" => Here(list).rows = QueryParams(list)
  BY <1>1 DEF IInv, Shown
<1>6. m \in Messages
  BY <1>3, <1>4, <1>5 DEF Messages, Fits
<1>7. up' = Append(up, m)
  BY <1>2 DEF DoOperation
<1>8. up \in Seq(Messages) /\ up' \in Seq(Messages)
  BY <1>6, <1>7 DEF IInv, Types
<1>9. Line(down, main.current, main.queue, up', latest)
  BY <1>3, <1>6, <1>7, <1>8, LineSend DEF IInv
<1>. QED  BY <1>1, <1>8, <1>9 DEF IInv, Types

LEMMA MountStep ==
  ASSUME IInv, Mount
  PROVE  IInv'
<1>1. list' \in Slices /\ list'.stage = "mounted" /\ UNCHANGED <<tab, up, down, main, latest, bulk>>
  BY DEF Mount, IInv, Types, Slices
<1>. QED  BY <1>1 DEF IInv, Types, Shown

LEMMA AskInitStep ==
  ASSUME IInv, AskInit
  PROVE  IInv'
<1>1. UNCHANGED <<tab, down, main, latest, bulk>>
  BY DEF AskInit
<1>2. list' \in Slices /\ Shown(list', latest)
  <2>1. list \in Slices /\ list' = [list EXCEPT !.timer = FALSE]
    BY DEF AskInit, IInv, Types
  <2>2. /\ list' \in Slices /\ list'.stage = list.stage /\ list'.current = list.current
        /\ list'.views = list.views
    BY <2>1 DEF Slices
  <2>. QED  BY <2>2 DEF IInv, Shown, QueryParams, QueryFilter, Here
<1>3. Message("init", FALSE) \in Messages /\ Message("init", FALSE).kind # "query"
  BY MessageType DEF Kinds
<1>4. up' = Append(up, Message("init", FALSE)) /\ up \in Seq(Messages)
  BY DEF AskInit, IInv, Types
<1>5. up' \in Seq(Messages) /\ Line(down, main.current, main.queue, up', latest)
  BY <1>3, <1>4, AppendFacts, LineSend DEF IInv
<1>. QED  BY <1>1, <1>2, <1>5 DEF IInv, Types

\* What the frame takes, and what is left of the messages to it.
LEMMA TakenMessage ==
  ASSUME IInv, down # << >>
  PROVE  /\ Head(down) \in Messages /\ Tail(down) \in Seq(Messages)
         /\ Line(Tail(down), main.current, main.queue, up, latest)
         /\ IsKnown(Head(down), latest)
         /\ latest.fate = "shown" => Head(down).kind # "query"
<1>1. down \in Seq(Messages) /\ Line(down, main.current, main.queue, up, latest)
  BY DEF IInv, Types
<1>2. Line(Tail(down), main.current, main.queue, up, latest)
  BY <1>1, LineTake
<1>. QED  BY <1>1, <1>2, TailFacts DEF Line

LEMMA ReceiveRenders ==
  ASSUME IInv, tab.open, down # << >>, down' = Tail(down), UNCHANGED <<tab, main, bulk>>,
         NEW l \in Slices, l.stage = "shown", l.current \in Views, Render(l)
  PROVE  IInv'
<1>1. /\ list' \in Slices /\ up' \in Seq(Messages) /\ latest' \in Latest
      /\ Line(Tail(down), main.current, main.queue, up', latest')
      /\ Shown(list', latest')
  BY TakenMessage, RenderStep
<1>. QED  BY <1>1, TakenMessage DEF IInv, Types

LEMMA ReceiveDataStep ==
  ASSUME IInv, down # << >>, down' = Tail(down), UNCHANGED <<tab, main, bulk>>,
         ReceiveData(Head(down))
  PROVE  IInv'
<1> DEFINE m == Head(down)
<1>1. m.kind = "query" /\ list.stage = "shown" /\ list' = SetData(list, m.params) /\ up' = up
  BY DEF ReceiveData
<1>2. m \in Messages /\ m.params \in Asked
  BY <1>1, TakenMessage DEF Messages, Fits
<1>3. /\ list' \in Slices /\ list'.stage = "shown" /\ list'.current \in Views
      /\ QueryParams(list') = QueryParams(list)
      /\ Here(list').rows = m.params
  BY <1>1, <1>2, ListIsShown, SetDataFacts DEF Rows
<1>4. latest \in Latest /\ latest.params = QueryParams(list) /\ down \in Seq(Messages)
  BY <1>1 DEF IInv, Types, Shown
<1>5. CASE m.n = latest.n /\ latest.fate = "answered"
  <2>1. latest' = [latest EXCEPT !.fate = "shown"]
    BY <1>5 DEF ReceiveData
  <2>2. /\ latest' \in Latest /\ latest'.fate = "shown"
        /\ latest'.n = latest.n /\ latest'.params = latest.params
    BY <1>4, <2>1 DEF Latest, Fates
  <2>3. m.params = latest.params
    BY <1>1, <1>5, TakenMessage DEF IsKnown
  <2>4. Line(down', main.current, main.queue, up, latest')
    BY <1>1, <1>4, <1>5, <2>2, LineShow DEF IInv
  <2>5. Shown(list', latest')
    BY <1>3, <1>4, <2>2, <2>3 DEF Shown
  <2>. QED  BY <1>1, <1>3, <2>2, <2>4, <2>5, TakenMessage DEF IInv, Types
<1>6. CASE ~(m.n = latest.n /\ latest.fate = "answered")
  <2>1. latest' = latest
    BY <1>6 DEF ReceiveData
  <2>2. latest.fate # "shown"
    BY <1>1, TakenMessage
  <2>3. Shown(list', latest')
    BY <1>3, <1>4, <2>1, <2>2 DEF Shown
  <2>. QED  BY <1>1, <1>3, <2>1, <2>3, TakenMessage DEF IInv, Types
<1>. QED  BY <1>5, <1>6

LEMMA ReceiveStep ==
  ASSUME IInv, Receive
  PROVE  IInv'
<1> DEFINE m == Head(down)
<1>1. tab.open /\ down # << >> /\ down' = Tail(down) /\ UNCHANGED <<tab, main, bulk>>
  BY DEF Receive
<1>2. m \in Messages /\ list \in Slices /\ tab.params \in Links /\ up \in Seq(Messages)
  BY <1>1, TakenMessage DEF IInv, Types
<1>3. CASE Ignored(m)
  BY <1>1, <1>3, TakenMessage DEF Ignored, IInv, Types
<1>4. CASE ReceiveInit(m)
  <2>1. list' \in Slices /\ list'.stage = "configuring" /\ latest' = latest
    BY <1>2, <1>4 DEF ReceiveInit, Slices
  <2>2. Message("conf", TRUE) \in Messages /\ Message("conf", TRUE).kind # "query"
    BY MessageType DEF Kinds
  <2>3. up' = Append(up, Message("conf", TRUE))
    BY <1>4 DEF ReceiveInit
  <2>4. up' \in Seq(Messages) /\ Line(down', main.current, main.queue, up', latest)
    BY <1>1, <1>2, <2>2, <2>3, AppendFacts, LineSend, TakenMessage
  <2>. QED  BY <1>1, <2>1, <2>4, TakenMessage DEF IInv, Types, Shown
<1>5. CASE ReceiveConf(m)
  <2>1. CASE list.stage \in {"mounted", "configured"} /\ list' = [list EXCEPT !.stage = "configured"]
             /\ UNCHANGED <<up, latest>>
    <3>1. list' \in Slices /\ list'.stage = "configured"
      BY <1>2, <2>1 DEF Slices
    <3>. QED  BY <1>1, <2>1, <3>1, TakenMessage DEF IInv, Types, Shown
  <2>2. CASE Render(InitDataView(list, tab.params))
    BY <1>1, <1>2, <2>2, InitDataViewFacts, ReceiveRenders
  <2>3. CASE list.stage = "shown" /\ Render(list)
    BY <1>1, <1>2, <2>3, ListIsShown, ReceiveRenders
  <2>. QED  BY <1>5, <2>1, <2>2, <2>3 DEF ReceiveConf
<1>6. CASE ReceiveLateInit(m)
  BY <1>1, <1>2, <1>6, InitDataViewFacts, ReceiveRenders DEF ReceiveLateInit
<1>7. CASE ReceiveData(m)
  BY <1>1, <1>7, ReceiveDataStep
<1>8. CASE ReceiveReload(m)
  <2>1. list.stage = "shown" /\ Render(RefreshData(list))
    BY <1>8 DEF ReceiveReload
  <2>2. /\ RefreshData(list) \in Slices /\ RefreshData(list).stage = "shown"
        /\ RefreshData(list).current \in Views
    BY <2>1, ListIsShown DEF RefreshData, Slices
  <2>. QED  BY <1>1, <2>1, <2>2, ReceiveRenders
<1>9. CASE ReceiveParams(m)
  <2>1. list.stage = "shown" /\ m.params \in Links
    BY <1>2, <1>9 DEF ReceiveParams, Messages, Fits
  <2>2. CASE Render(SetViewFilter(list, m.params))
    BY <1>1, <2>1, <2>2, ListIsShown, SetViewFilterFacts, ReceiveRenders
  <2>3. CASE UNCHANGED <<list, up, latest>>
    BY <1>1, <2>3, TakenMessage DEF IInv, Types
  <2>. QED  BY <1>9, <2>2, <2>3 DEF ReceiveParams
<1>. QED  BY <1>3, <1>4, <1>5, <1>6, <1>7, <1>8, <1>9 DEF Receive

LEMMA LoadStep ==
  ASSUME IInv, Load \/ Timeout
  PROVE  IInv'
<1>1. /\ tab' \in [open : BOOLEAN, params : {NoParams} \cup Links,
                  loaded : BOOLEAN, waiting : BOOLEAN]
      /\ tab'.open = tab.open /\ tab'.params = tab.params
  BY DEF Load, Timeout, IInv, Types
<1>2. UNCHANGED <<list, up, down, main, latest, bulk>>
  BY DEF Load, Timeout
<1>. QED  BY <1>1, <1>2 DEF IInv, Types

\* AnswerInit gives the line nothing but an INIT.
LEMMA AnswerInitStep ==
  ASSUME IInv, AnswerInit, NEW u, Line(down, main.current, main.queue, u, latest)
  PROVE  /\ tab' \in [open : BOOLEAN, params : {NoParams} \cup Links,
                     loaded : BOOLEAN, waiting : BOOLEAN]
         /\ tab'.open = tab.open /\ tab'.params = tab.params
         /\ down' \in Seq(Messages)
         /\ Line(down', main.current, main.queue, u, latest)
<1>1. Message("init", FALSE) \in Messages /\ Message("init", FALSE).kind # "query"
  BY MessageType DEF Kinds
<1>2. down \in Seq(Messages)
  BY DEF IInv, Types
<1>3. down' = down \/ down' = Append(down, Message("init", FALSE))
  BY DEF AnswerInit
<1>4. down' \in Seq(Messages) /\ Line(down', main.current, main.queue, u, latest)
  <2>1. CASE down' = down
    BY <1>2, <2>1
  <2>2. CASE down' = Append(down, Message("init", FALSE))
    <3>1. PICK m : m = Message("init", FALSE)
      OBVIOUS
    <3>2. down' = Append(down, m) /\ m \in Messages /\ m.kind # "query"
      BY <1>1, <2>2, <3>1
    <3>3. down' \in Seq(Messages)
      BY <1>2, <3>2
    <3>. QED  BY <1>2, <3>2, <3>3, LinePost
  <2>. QED  BY <1>3, <2>1, <2>2
<1>. QED  BY <1>4 DEF AnswerInit, IInv, Types

LEMMA OtherInitStep ==
  ASSUME IInv, OtherInit
  PROVE  IInv'
<1>1. AnswerInit /\ UNCHANGED <<list, up, main, latest, bulk>>
  BY DEF OtherInit
<1>. QED  BY <1>1, AnswerInitStep DEF IInv, Types

\* Fate gives up the last query or leaves the history as it is.
LEMMA FateFacts ==
  ASSUME IInv, NEW m, NEW fate \in GivenUp, Fate(m, fate)
  PROVE  /\ latest' \in Latest
         /\ \/ latest' = latest /\ ~(m.kind = "query" /\ m.n = latest.n)
            \/ /\ latest'.n = latest.n /\ latest'.params = latest.params
               /\ latest'.fate \in GivenUp
<1>1. latest \in Latest
  BY DEF IInv, Types
<1>. QED  BY <1>1 DEF Fate, Latest, Fates

LEMMA MainFacts ==
  ASSUME NEW a \in Main, NEW c \in Seq(Messages), NEW q \in Seq(Messages)
  PROVE  /\ [a EXCEPT !.current = c] \in Main
         /\ [a EXCEPT !.current = c].current = c /\ [a EXCEPT !.current = c].queue = a.queue
         /\ [a EXCEPT !.queue = q] \in Main
         /\ [a EXCEPT !.queue = q].current = a.current /\ [a EXCEPT !.queue = q].queue = q
         /\ [a EXCEPT !.current = c, !.queue = q] \in Main
         /\ [a EXCEPT !.current = c, !.queue = q].current = c
         /\ [a EXCEPT !.current = c, !.queue = q].queue = q
BY DEF Main

\* If no query is shown that was not before, what is on the screen is right.
LEMMA ShownKeeps ==
  ASSUME NEW ls, NEW l, NEW l2, Shown(ls, l), l2.params = l.params,
         l2.fate = "shown" => l.fate = "shown"
  PROVE  Shown(ls, l2)
BY DEF Shown

\* setOperation: wherever the message goes, the line stays in order.
LEMMA AcceptStep ==
  ASSUME IInv, NEW m \in Messages, NEW u, Accept(m),
         Ahead(down, main.current, main.queue, m, u, latest)
  PROVE  /\ main' \in Main
         /\ Len(main'.current) <= 1
         /\ latest' \in Latest /\ bulk' \in Messages
         /\ Line(down, main'.current, main'.queue, u, latest')
         /\ Shown(list, latest')
<1>1. /\ main \in Main
      /\ Len(main.current) <= 1 /\ latest \in Latest /\ bulk \in Messages
      /\ Shown(list, latest)
  BY DEF IInv, Types
<1>2. Line(down, main.current, main.queue, u, latest) /\ IsKnown(m, latest)
  BY DEF Ahead
<1>3. CASE /\ Idle /\ (main.queue = <<>> \/ main.confirm)
           /\ main' = [main EXCEPT !.current = <<m>>]
           /\ IF main.queue = <<>> THEN UNCHANGED latest ELSE Fate(m, "overtook")
           /\ Bulk(m)
  <2>1. /\ main'.current = <<m>> /\ main'.queue = main.queue /\ main.current = << >>
        /\ main' \in Main
        /\ Len(main'.current) <= 1 /\ bulk' \in Messages
    <3>1. PICK one : one = <<m>>
      OBVIOUS
    <3>2. one \in Seq(Messages) /\ Len(one) = 1
      BY <3>1, OneFacts
    <3>3. main' = [main EXCEPT !.current = one]
      BY <1>3, <3>1
    <3>4. main' \in Main /\ main'.current = one /\ main'.queue = main.queue
      BY <1>1, <3>2, <3>3, MainFacts, EmptyFacts
    <3>. QED  BY <1>1, <1>3, <3>1, <3>2, <3>4 DEF Idle, Bulk
  <2>2. CASE latest' = latest /\ (main.queue = << >> \/ ~(m.kind = "query" /\ m.n = latest.n))
    <3>1. Ahead(down, << >>, main.queue, m, u, latest) /\ main.queue \in Seq(Messages)
      BY <1>1, <2>1 DEF Main
    <3>2. Line(down, <<m>>, main.queue, u, latest)
      BY <2>2, <3>1, LineAtOnce
    <3>. QED  BY <1>1, <2>1, <2>2, <3>2
  <2>3. CASE /\ latest' \in Latest /\ latest'.n = latest.n /\ latest'.params = latest.params
             /\ latest'.fate \in GivenUp
    <3>1. Known(<<m>>, latest)
      BY <1>2, OneFacts
    <3>2. Line(down, main'.current, main'.queue, u, latest')
      BY <1>2, <2>1, <2>3, <3>1, LineGivenUp DEF Line
    <3>3. Shown(list, latest')
      BY <1>1, <2>3, ShownKeeps DEF GivenUp
    <3>. QED  BY <2>1, <2>3, <3>2, <3>3
  <2>4. "overtook" \in GivenUp
    BY DEF GivenUp
  <2>. QED  BY <1>3, <2>2, <2>3, <2>4, FateFacts
<1>4. CASE /\ Idle /\ main.queue # <<>> /\ ~main.confirm
           /\ main' = [main EXCEPT !.current = <<Head(main.queue)>>, !.queue = Tail(@)]
           /\ Fate(m, "lost") /\ UNCHANGED bulk
  <2>1. main.current = << >> /\ main.queue \in Seq(Messages)
    BY <1>1, <1>4 DEF Idle, Main
  <2>2. PICK one, rest : one = <<Head(main.queue)>> /\ rest = Tail(main.queue)
    OBVIOUS
  <2>3. /\ main' \in Main /\ Len(main'.current) <= 1 /\ bulk' \in Messages
        /\ main'.current = <<Head(main.queue)>> /\ main'.queue = Tail(main.queue)
    <3>1. one \in Seq(Messages) /\ Len(one) = 1 /\ rest \in Seq(Messages)
      BY <1>4, <2>1, <2>2, TailFacts, OneFacts
    <3>2. main' = [main EXCEPT !.current = one, !.queue = rest]
      BY <1>4, <2>2
    <3>3. main' \in Main /\ main'.current = one /\ main'.queue = rest
      BY <1>1, <3>1, <3>2 DEF Main
    <3>. QED  BY <1>1, <1>4, <2>2, <3>1, <3>3
  <2>4. Line(down, main'.current, main'.queue, u, latest)
    BY <1>2, <1>4, <2>1, <2>3, LineNext
  <2>5. "lost" \in GivenUp
    BY DEF GivenUp
  <2>6. CASE latest' = latest
    BY <1>1, <2>3, <2>4, <2>6
  <2>7. CASE /\ latest' \in Latest /\ latest'.n = latest.n /\ latest'.params = latest.params
             /\ latest'.fate \in GivenUp
    <3>1. Line(down, main'.current, main'.queue, u, latest')
      BY <2>4, <2>7, LineGivenUp DEF Line
    <3>2. Shown(list, latest')
      BY <1>1, <2>7, ShownKeeps DEF GivenUp
    <3>. QED  BY <2>3, <2>7, <3>1, <3>2
  <2>. QED  BY <1>4, <2>5, <2>6, <2>7, FateFacts
<1>5. CASE /\ ~Idle /\ m.queueable
           /\ main' = [main EXCEPT !.queue = Append(@, m)]
           /\ UNCHANGED <<latest, bulk>>
  <2>1. /\ main'.current = main.current /\ main'.queue = Append(main.queue, m)
        /\ main.queue \in Seq(Messages)
        /\ main' \in Main
    <3>1. PICK longer : longer = Append(main.queue, m)
      OBVIOUS
    <3>2. main.queue \in Seq(Messages) /\ longer \in Seq(Messages)
      BY <1>1, <3>1, AppendFacts DEF Main
    <3>3. main' = [main EXCEPT !.queue = longer]
      BY <1>5, <3>1
    <3>4. main' \in Main /\ main'.current = main.current /\ main'.queue = longer
      BY <1>1, <3>2, <3>3 DEF Main
    <3>. QED  BY <3>1, <3>2, <3>4
  <2>. QED  BY <1>1, <1>5, <2>1, LineQueue
<1>6. CASE ~Idle /\ ~m.queueable /\ Fate(m, "refused") /\ UNCHANGED <<main, bulk>>
  <2>1. "refused" \in GivenUp
    BY DEF GivenUp
  <2>2. CASE latest' = latest
    BY <1>1, <1>2, <1>6, <2>2
  <2>3. CASE /\ latest' \in Latest /\ latest'.n = latest.n /\ latest'.params = latest.params
             /\ latest'.fate \in GivenUp
    <3>1. Line(down, main.current, main.queue, u, latest')
      BY <1>2, <2>3, LineGivenUp DEF Line
    <3>2. Shown(list, latest')
      BY <1>1, <2>3, ShownKeeps DEF GivenUp
    <3>. QED  BY <1>1, <1>6, <2>3, <3>1, <3>2
  <2>. QED  BY <1>6, <2>1, <2>2, <2>3, FateFacts
<1>. QED  BY <1>3, <1>4, <1>5, <1>6 DEF Accept

LEMMA HandleStep ==
  ASSUME IInv, Handle
  PROVE  IInv'
<1>1. up # << >> /\ up' = Tail(up) /\ list' = list /\ up \in Seq(Messages)
  BY DEF Handle, IInv, Types
<1>2. /\ Ahead(down, main.current, main.queue, Head(up), Tail(up), latest)
      /\ Head(up) \in Messages /\ Tail(up) \in Seq(Messages)
  BY <1>1, HeadAhead, TailFacts DEF IInv
<1>3. CASE AnswerInit /\ UNCHANGED <<main, latest, bulk>>
  BY <1>1, <1>2, <1>3, AnswerInitStep DEF IInv, Types, Ahead
<1>4. CASE Accept(Head(up)) /\ UNCHANGED <<tab, down>>
  BY <1>1, <1>2, <1>4, AcceptStep DEF IInv, Types
<1>. QED  BY <1>3, <1>4 DEF Handle

LEMMA MenuStep ==
  ASSUME IInv, Other \/ \E params \in Links : Link(params)
  PROVE  IInv'
<1>1. PICK m \in Messages : m.kind # "query" /\ Menu(m)
  <2>1. CASE Other
    <3>1. Message("other", TRUE) \in Messages /\ Message("other", TRUE).kind # "query"
      BY MessageType DEF Kinds
    <3>. QED  BY <2>1, <3>1 DEF Other
  <2>2. CASE \E params \in Links : Link(params)
    <3>1. PICK params \in Links : Menu([Message("open", TRUE) EXCEPT !.params = params])
      BY <2>2 DEF Link
    <3>2. PICK m : m = [Message("open", TRUE) EXCEPT !.params = params]
      OBVIOUS
    <3>3. m = [kind |-> "open", queueable |-> TRUE, n |-> 0, params |-> params, seen |-> NoParams]
      BY <3>2 DEF Message
    <3>4. m \in AnyMessage
      BY <3>3 DEF AnyMessage, Kinds
    <3>5. m \in Messages /\ m.kind # "query"
      BY <3>3, <3>4 DEF Messages, Fits
    <3>. QED  BY <3>1, <3>2, <3>5
  <2>. QED  BY <2>1, <2>2
<1>2. Ahead(down, main.current, main.queue, m, up, latest)
  BY <1>1, AheadQuiet DEF IInv
<1>3. Accept(m) /\ UNCHANGED <<tab, list, up, down>>
  BY <1>1 DEF Menu
<1>. QED  BY <1>2, <1>3, AcceptStep DEF IInv, Types

\* The current operation, when there is one, is the whole of main.current.
LEMMA CurrentFacts ==
  ASSUME IInv, ~Idle
  PROVE  main.current[1] \in Messages /\ main.current = <<main.current[1]>>
BY DEF IInv, Types, Main, Idle

LEMMA DoneFacts ==
  ASSUME IInv
  PROVE  /\ Done \in Main /\ Done.current = << >> /\ Done.queue = main.queue
         /\ [Done EXCEPT !.confirm = TRUE] \in Main
         /\ [Done EXCEPT !.confirm = TRUE].current = << >>
         /\ [Done EXCEPT !.confirm = TRUE].queue = main.queue
         /\ Line(down, << >>, main.queue, up, latest)
<1>1. main \in Main /\ Line(down, << >>, main.queue, up, latest)
  BY LineDrop DEF IInv, Types
<1>2. Done \in Main /\ Done.current = << >> /\ Done.queue = main.queue
  <2>1. PICK none \in Seq(Messages) : none = << >>
    BY EmptyFacts
  <2>2. Done = [main EXCEPT !.current = none]
    BY <2>1 DEF Done
  <2>. QED  BY <1>1, <2>1, <2>2 DEF Main
<1>3. PICK done \in Main : done = Done
  BY <1>2
<1>4. /\ [done EXCEPT !.confirm = TRUE] \in Main
      /\ [done EXCEPT !.confirm = TRUE].current = done.current
      /\ [done EXCEPT !.confirm = TRUE].queue = done.queue
  BY DEF Main
<1>5. /\ [Done EXCEPT !.confirm = TRUE] \in Main
      /\ [Done EXCEPT !.confirm = TRUE].current = << >>
      /\ [Done EXCEPT !.confirm = TRUE].queue = main.queue
  BY <1>2, <1>3, <1>4
<1>. QED  BY <1>1, <1>2, <1>5

LEMMA LineFate ==
  ASSUME NEW d, NEW c, NEW q, NEW u, NEW l, NEW l2,
         Line(d, c, q, u, l), l2.n = l.n, l2.params = l.params,
         l2.fate = l.fate \/ (l.fate = "sent" /\ l2.fate = "answered")
  PROVE  Line(d, c, q, u, l2)
BY DEF Line, Known, IsKnown

LEMMA OpenTabStep ==
  ASSUME IInv, ~Idle, main' = Done, OpenTab(main.current[1]), UNCHANGED <<up, bulk>>
  PROVE  IInv'
<1> DEFINE m == main.current[1]
<1>1. m \in Messages /\ m.kind = "open" /\ m.params \in Links
  BY CurrentFacts DEF OpenTab, Messages, Fits
<1>2. /\ tab' = [open |-> TRUE, params |-> m.params, loaded |-> FALSE, waiting |-> FALSE]
      /\ list' = Blank /\ down' = << >>
      /\ latest' = [n |-> latest.n + 1, params |-> NoParams, fate |-> "none"]
  BY DEF OpenTab
<1>3. latest \in Latest /\ main.queue \in Seq(Messages) /\ up \in Seq(Messages)
  BY DEF IInv, Types, Main
<1>4. latest' \in Latest /\ latest'.n = latest.n + 1 /\ latest'.fate = "none"
  BY <1>2, <1>3 DEF Latest, Rows, Fates, GivenUp
<1>5. Known(main.queue, latest') /\ Known(up, latest')
  BY <1>3, <1>4, OlderFacts DEF IInv, Line
<1>6. Line(down', main'.current, main'.queue, up, latest')
  BY <1>2, <1>4, <1>5, EmptyFacts, DoneFacts DEF Line
<1>7. Types'
  BY <1>1, <1>2, <1>3, <1>4, BlankType, EmptyFacts, DoneFacts DEF IInv, Types
<1>8. Shown(list', latest')
  BY <1>2, BlankType DEF Shown
<1>. QED  BY <1>6, <1>7, <1>8 DEF IInv

LEMMA SendParamsStep ==
  ASSUME IInv, ~Idle, main' = Done, SendParams(main.current[1]), UNCHANGED <<up, bulk>>
  PROVE  IInv'
<1>1. PICK m \in Messages : m = main.current[1]
  BY CurrentFacts
<1>2. m.kind # "query" /\ down' = Append(down, m) /\ UNCHANGED <<tab, list, latest>>
  BY <1>1 DEF SendParams, Post
<1>3. down \in Seq(Messages)
  BY DEF IInv, Types
<1>4. down' \in Seq(Messages)
  BY <1>2, <1>3
<1>5. Line(down', main'.current, main'.queue, up, latest)
  BY <1>2, <1>3, DoneFacts, LinePost
<1>. QED  BY <1>2, <1>4, <1>5, EmptyFacts, DoneFacts DEF IInv, Types

LEMMA UpdateStep ==
  ASSUME IInv, ~Idle, main' = Done, Update(main.current[1]), UNCHANGED <<up, bulk>>
  PROVE  IInv'
<1>1. PICK m \in Messages : m = main.current[1] /\ main.current = <<m>>
  BY CurrentFacts
<1>2. PICK a : a = IF m.kind = "bulk" THEN Message("reload", FALSE) ELSE m
  OBVIOUS
<1>3. a \in Messages /\ (a = m \/ a.kind # "query")
  BY <1>2, MessageType DEF Kinds
<1>4. /\ down' = IF tab.open THEN Append(down, a) ELSE down
      /\ UNCHANGED <<tab, list>>
      /\ Fate(m, IF latest.fate = "sent" THEN "answered" ELSE latest.fate)
  BY <1>1, <1>2 DEF Update, Post
<1>5. /\ latest' \in Latest /\ latest'.n = latest.n /\ latest'.params = latest.params
      /\ latest'.fate = latest.fate \/ (latest.fate = "sent" /\ latest'.fate = "answered")
  <2>1. latest \in Latest
    BY DEF IInv, Types
  <2>. QED  BY <1>4, <2>1 DEF Fate, Latest, Fates
<1>6. down \in Seq(Messages) /\ Line(down, <<m>>, main.queue, up, latest)
  BY <1>1 DEF IInv, Types
<1>7. Line(down, << >>, main.queue, up, latest')
  BY <1>5, DoneFacts, LineFate
<1>8. down' \in Seq(Messages) /\ Line(down', << >>, main.queue, up, latest')
  <2>1. CASE ~tab.open
    BY <1>4, <1>6, <1>7, <2>1
  <2>2. CASE tab.open
    <3>1. down' = Append(down, a)
      BY <1>4, <2>2
    <3>2. down' \in Seq(Messages)
      BY <1>3, <1>6, <3>1
    <3>3. CASE a = m
      BY <1>5, <1>6, <3>1, <3>2, <3>3, LineAnswer
    <3>4. CASE a.kind # "query"
      BY <1>3, <1>6, <1>7, <3>1, <3>2, <3>4, LinePost
    <3>. QED  BY <1>3, <3>2, <3>3, <3>4
  <2>. QED  BY <2>1, <2>2
<1>9. Shown(list, latest')
  BY <1>5, ShownKeeps DEF IInv
<1>. QED  BY <1>4, <1>5, <1>8, <1>9, EmptyFacts, DoneFacts DEF IInv, Types

LEMMA SucceedStep ==
  ASSUME IInv, Succeed
  PROVE  IInv'
<1>1. ~Idle /\ main' = Done /\ UNCHANGED <<up, bulk>>
  BY DEF Succeed
<1>2. CASE UNCHANGED <<tab, list, down, latest>>
  BY <1>1, <1>2, EmptyFacts, DoneFacts DEF IInv, Types
<1>. QED  BY <1>1, <1>2, OpenTabStep, SendParamsStep, UpdateStep DEF Succeed

LEMMA FailStep ==
  ASSUME IInv, Fail
  PROVE  IInv'
<1>1. /\ main' = [Done EXCEPT !.confirm = TRUE] /\ Fate(main.current[1], "failed")
      /\ UNCHANGED <<tab, list, up, down, bulk>>
  BY DEF Fail
<1>2. "failed" \in GivenUp
  BY DEF GivenUp
<1>3. /\ latest' \in Latest
      /\ \/ latest' = latest
         \/ /\ latest'.n = latest.n /\ latest'.params = latest.params
            /\ latest'.fate \in GivenUp
  BY <1>1, <1>2, FateFacts
<1>4. Line(down, << >>, main.queue, up, latest')
  BY <1>3, DoneFacts, LineGivenUp DEF Line
<1>5. Shown(list, latest')
  BY <1>3, ShownKeeps DEF IInv, GivenUp
<1>. QED  BY <1>1, <1>3, <1>4, <1>5, EmptyFacts, DoneFacts DEF IInv, Types

LEMMA TakeNextStep ==
  ASSUME IInv, TakeNext
  PROVE  IInv'
<1>1. /\ main.current = << >> /\ main.queue # << >>
      /\ main' = [main EXCEPT !.current = <<Head(main.queue)>>, !.queue = Tail(@)]
      /\ UNCHANGED <<tab, list, up, down, latest, bulk>>
  BY DEF TakeNext, Idle
<1>2. PICK one, rest : one = <<Head(main.queue)>> /\ rest = Tail(main.queue)
  OBVIOUS
<1>3. main \in Main /\ main.queue \in Seq(Messages)
  BY DEF IInv, Types, Main
<1>4. one \in Seq(Messages) /\ Len(one) = 1 /\ rest \in Seq(Messages)
  BY <1>1, <1>2, <1>3, TailFacts, OneFacts
<1>5. main' = [main EXCEPT !.current = one, !.queue = rest]
  BY <1>1, <1>2
<1>6. main' \in Main /\ main'.current = one /\ main'.queue = rest
  BY <1>3, <1>4, <1>5 DEF Main
<1>7. Line(down', main'.current, main'.queue, up', latest')
  BY <1>1, <1>2, <1>3, <1>6, LineNext DEF IInv
<1>8. Types' /\ Shown(list', latest')
  BY <1>1, <1>4, <1>6 DEF IInv, Types
<1>. QED  BY <1>7, <1>8 DEF IInv

LEMMA ConfirmStep ==
  ASSUME IInv, Confirm
  PROVE  IInv'
<1>1. main' \in Main /\ main'.current = main.current /\ main'.queue = main.queue
  BY DEF Confirm, IInv, Types, Main
<1>. QED  BY <1>1 DEF Confirm, IInv, Types

LEMMA CloseTabStep ==
  ASSUME IInv, CloseTab
  PROVE  IInv'
<1>1. /\ tab' = [tab EXCEPT !.open = FALSE, !.waiting = FALSE]
      /\ list' = Blank /\ down' = << >> /\ UNCHANGED <<up, main, latest, bulk>>
  BY DEF CloseTab
<1>2. /\ tab' \in [open : BOOLEAN, params : {NoParams} \cup Links,
                  loaded : BOOLEAN, waiting : BOOLEAN]
      /\ ~tab'.open
  BY <1>1 DEF IInv, Types
<1>3. Line(<< >>, main.current, main.queue, up, latest)
  BY LineDrop DEF IInv
<1>. QED  BY <1>1, <1>2, <1>3, BlankType, EmptyFacts DEF IInv, Types, Shown

LEMMA NextIInv == IInv /\ [Next]_vars => IInv'
<1> SUFFICES ASSUME IInv, [Next]_vars PROVE IInv'
  OBVIOUS
<1>1. CASE User
  BY <1>1, ChangesStep, SelectAllStep, DoOperationStep, MenuStep, CloseTabStep, ConfirmStep
     DEF User
<1>2. CASE Mount \/ AskInit \/ Receive
  BY <1>2, MountStep, AskInitStep, ReceiveStep
<1>3. CASE Load \/ Timeout \/ OtherInit \/ Handle
  BY <1>3, LoadStep, OtherInitStep, HandleStep
<1>4. CASE Run \/ TakeNext
  BY <1>4, SucceedStep, FailStep, TakeNextStep DEF Run
<1>5. CASE UNCHANGED vars
  BY <1>5 DEF vars, IInv, Types
<1>. QED  BY <1>1, <1>2, <1>3, <1>4, <1>5 DEF Next

-----------------------------------------------------------------------------
(* The theorems.                                                           *)

\* The invariant of this module holds in every behaviour of the list view.
THEOREM SpecIInv == Spec => []IInv
<1>1. Init => IInv
  BY InitIInv
<1>2. IInv /\ [Next]_vars => IInv'
  BY NextIInv
<1>. QED  BY <1>1, <1>2, PTL DEF Spec

\* Once the last query of the table has been answered in its turn, no earlier
\* answer replaces its rows (setData in dataSlice, the effect of ListTable that
\* sends a query, setOperation of the main frame).
THEOREM SpecShownIsAsked == Spec => []ShownIsAsked
<1>1. IInv => ShownIsAsked
  BY DEF IInv, Shown, ShownIsAsked
<1>. QED  BY <1>1, SpecIInv, PTL

\* An operation on all rows of the filter acts on the filter of the rows that
\* were on the screen (doOperation of ListOperationBar).
THEOREM SpecBulkFromList == Spec => []BulkFromList
<1>1. IInv => BulkFromList
  BY DEF IInv, Types, Messages, Fits, BulkFromList
<1>. QED  BY <1>1, SpecIInv, PTL
=============================================================================
