--------------------------- MODULE FormViewProofs ---------------------------
(***************************************************************************)
(* Proofs about FormView, for every row, every table in it, and any number *)
(* of edits, saves, reloads and other users.                               *)
(*                                                                         *)
(* The properties compare whole rows.  The invariant says the same field   *)
(* by field and key by key (Differ), which each edit keeps; and, of the    *)
(* data that the form, an answer or a save on its way come from, that they *)
(* are the row in the database or have an older version (FitsRow).         *)
(***************************************************************************)
EXTENDS FormView, TLAPS

Values == Parents \cup Children \cup {Nothing}
Strings == Texts \cup {Nothing}
Choices == UNION {[F -> Values] : F \in SUBSET Fields}

\* u turns o into d.
Differ(u, o, d) ==
  /\ u.version = o.version
  /\ \A x \in Fields :
       d.fields[x] = IF x \in DOMAIN u.fields THEN u.fields[x] ELSE o.fields[x]
  /\ \A k \in DOMAIN u.table : u.table[k].type # "create" <=> k \in DOMAIN o.table
  /\ \A k : k \in DOMAIN d.table <=>
              /\ k \in DOMAIN o.table \/ k \in DOMAIN u.table
              /\ k \in DOMAIN u.table => u.table[k].type # "delete"
  /\ \A k \in DOMAIN d.table :
       /\ d.table[k].new <=> k \notin DOMAIN o.table
       /\ d.table[k].text = IF k \in DOMAIN u.table /\ u.table[k].text # Nothing
                            THEN u.table[k].text
                            ELSE IF k \in DOMAIN o.table THEN o.table[k].text ELSE Nothing

Forms ==
  [stage : {"init", "asked", "ready"}, loaded : BOOLEAN,
   origin : Data \cup {Nothing}, updated : Data \cup {Nothing}, update : Changes \cup {Nothing},
   options : [of : Values, list : SUBSET Children]]

\* The operation or answer x, if there is one of this kind.
Is(x, kind) == x # Nothing /\ x.kind = kind

Types ==
  /\ row \in Data /\ InDatabase(row)
  /\ form \in Forms
  /\ form.loaded => form.origin \in Data /\ form.updated \in Data
  /\ Is(running, "save") => running.update \in Changes \cup {Nothing} /\ (running.stale => stale)
  /\ Is(answer, "query") => answer.data \in Data /\ InDatabase(answer.data)
  /\ \A q \in asked : q.parent \in Values

FitsRow(d) == d.version <= row.version /\ (d.version = row.version => d = row)

\* The change of the form f turns what was loaded into what it shows.
Whole(f) ==
  /\ InDatabase(f.origin)
  /\ IF f.update = Nothing THEN f.updated = f.origin ELSE Differ(f.update, f.origin, f.updated)
FormFits == form.loaded /\ ~stale => FitsRow(form.origin) /\ Whole(form)
AnswerFits == Is(answer, "query") => FitsRow(answer.data)

\* A save that has changes and is not stale makes the row what the user saw.
SaveFits ==
  Is(running, "save") /\ ~running.stale /\ running.update # Nothing =>
    LET u == running.update IN
    /\ u.version <= row.version
    /\ u.version = row.version =>
         /\ Seen(Apply(u, row)) = running.seen
         /\ ~misled /\ ~stale => Legal(Apply(u, row))

AllLegal ==
  ~misled /\ ~stale =>
    /\ Legal(row)
    /\ Is(answer, "query") => Legal(answer.data)
    /\ form.loaded => Legal(form.updated)
OptionsFit == \A c \in form.options.list : Fits(form.options.of, c)

IInv ==
  /\ Types /\ FormFits /\ AnswerFits /\ SaveFits /\ AllLegal /\ OptionsFit
  /\ SavedAsShown

-----------------------------------------------------------------------------
(* Lemmas about functions and data.                                        *)

LEMMA PutFacts ==
  ASSUME NEW f, NEW x, NEW v
  PROVE  /\ DOMAIN Put(f, x, v) = DOMAIN f \cup {x}
         /\ Put(f, x, v)[x] = v
         /\ \A y \in DOMAIN f : y # x => Put(f, x, v)[y] = f[y]
BY DEF Put

LEMMA PutType ==
  ASSUME NEW S, NEW Domain, NEW f \in UNION {[K -> S] : K \in SUBSET Domain},
         NEW x \in Domain, NEW v \in S
  PROVE  Put(f, x, v) \in UNION {[K -> S] : K \in SUBSET Domain}
<1>1. PICK K \in SUBSET Domain : f \in [K -> S]
  OBVIOUS
<1>2. Put(f, x, v) \in [K \cup {x} -> S]
  BY <1>1 DEF Put
<1>. QED  BY <1>2

LEMMA PartialFacts ==
  ASSUME NEW S, NEW Domain, NEW f \in UNION {[K -> S] : K \in SUBSET Domain}
  PROVE  /\ DOMAIN f \subseteq Domain
         /\ f = [x \in DOMAIN f |-> f[x]]
         /\ \A x \in DOMAIN f : f[x] \in S
OBVIOUS

LEMMA EmptyType ==
  ASSUME NEW S, NEW Domain
  PROVE  <<>> \in UNION {[K -> S] : K \in SUBSET Domain} /\ DOMAIN <<>> = {}
<1>1. DOMAIN <<>> = {} /\ <<>> = [x \in {} |-> <<>>[x]]
  OBVIOUS
<1>2. <<>> \in [{} -> S]
  BY <1>1
<1>. QED  BY <1>1, <1>2

LEMMA DataFacts ==
  ASSUME NEW d \in Data
  PROVE  /\ d.version \in Nat /\ d.fields \in [Fields -> Values] /\ d.table \in Tables
         /\ d.table = [k \in DOMAIN d.table |-> d.table[k]]
         /\ DOMAIN d.table \subseteq Keys
         /\ \A k \in DOMAIN d.table : d.table[k] \in [new : BOOLEAN, text : Strings]
BY PartialFacts DEF Data, Tables, Values, Strings

LEMMA DataParts ==
  ASSUME NEW d \in Data
  PROVE  d.version \in Nat /\ d.version + 1 \in Nat /\ d.fields \in [Fields -> Values] /\ d.table \in Tables
<1>1. d.version \in Nat /\ d.fields \in [Fields -> Values] /\ d.table \in Tables
  BY DEF Data, Values
<1>2. d.version + 1 \in Nat
  BY <1>1
<1>. QED  BY <1>1, <1>2

LEMMA ChangesFacts ==
  ASSUME NEW u \in Changes
  PROVE  /\ u.version \in Nat /\ u.table \in Nodes
         /\ u.fields \in Choices
         /\ DOMAIN u.fields \subseteq Fields
         /\ \A x \in DOMAIN u.fields : u.fields[x] \in Values
         /\ DOMAIN u.table \subseteq Keys
         /\ \A k \in DOMAIN u.table :
              u.table[k] \in [type : {"create", "update", "delete"}, text : Strings]
<1>1. /\ u.version \in Nat /\ u.table \in Nodes
      /\ u.fields \in Choices
  BY DEF Changes, Values, Choices
<1>2. DOMAIN u.fields \subseteq Fields /\ \A x \in DOMAIN u.fields : u.fields[x] \in Values
  BY <1>1, PartialFacts DEF Choices
<1>3. /\ DOMAIN u.table \subseteq Keys
      /\ \A k \in DOMAIN u.table :
           u.table[k] \in [type : {"create", "update", "delete"}, text : Strings]
  BY <1>1, PartialFacts DEF Nodes, Strings
<1>. QED  BY <1>1, <1>2, <1>3

LEMMA ChangesType ==
  ASSUME NEW version \in Nat, NEW table \in Nodes,
         NEW fields \in Choices
  PROVE  [version |-> version, fields |-> fields, table |-> table] \in Changes
BY DEF Changes, Values, Choices

LEMMA DataType ==
  ASSUME NEW version \in Nat, NEW fields \in [Fields -> Values], NEW table \in Tables
  PROVE  [version |-> version, fields |-> fields, table |-> table] \in Data
BY DEF Data, Values

\* Apply, field by field and key by key.
LEMMA ApplyFacts ==
  ASSUME NEW u \in Changes, NEW o \in Data
  PROVE  /\ Apply(u, o) \in Data
         /\ Apply(u, o).version = o.version
         /\ \A x \in Fields : Apply(u, o).fields[x] =
              IF x \in DOMAIN u.fields THEN u.fields[x] ELSE o.fields[x]
         /\ \A k : k \in DOMAIN Apply(u, o).table <=>
              /\ k \in DOMAIN o.table \/ k \in DOMAIN u.table
              /\ k \in DOMAIN u.table => u.table[k].type # "delete"
         /\ \A k \in DOMAIN Apply(u, o).table :
              Apply(u, o).table[k].text =
                IF k \in DOMAIN u.table /\ u.table[k].text # Nothing THEN u.table[k].text
                ELSE IF k \in DOMAIN o.table THEN o.table[k].text ELSE Nothing
<1> DEFINE kept == {k \in DOMAIN o.table \cup DOMAIN u.table :
                      k \in DOMAIN u.table => u.table[k].type # "delete"}
           Text(k) == IF k \in DOMAIN u.table /\ u.table[k].text # Nothing
                      THEN u.table[k].text
                      ELSE IF k \in DOMAIN o.table THEN o.table[k].text ELSE Nothing
           table == [k \in kept |-> [new |-> k \notin DOMAIN o.table, text |-> Text(k)]]
           fields == Over(u.fields, o.fields)
<1>1. Apply(u, o) = [version |-> o.version, fields |-> fields, table |-> table]
  BY DEF Apply
<1>2. /\ fields \in [Fields -> Values]
      /\ \A x \in Fields : fields[x] = IF x \in DOMAIN u.fields THEN u.fields[x] ELSE o.fields[x]
  BY DataFacts, ChangesFacts DEF Over
<1>3. \A k \in kept : k \in Keys /\ Text(k) \in Strings
  BY DataFacts, ChangesFacts DEF Strings
<1>4. /\ table \in Tables /\ DOMAIN table = kept
      /\ \A k \in kept : table[k].text = Text(k)
  <2>1. table \in [kept -> [new : BOOLEAN, text : Strings]]
    BY <1>3
  <2>2. kept \in SUBSET Keys
    BY <1>3
  <2>3. table \in Tables
    BY <2>1, <2>2 DEF Tables, Strings
  <2>. QED  BY <2>3
<1>5. Apply(u, o) \in Data
  <2>. HIDE DEF kept, table, fields
  <2>1. o.version \in Nat
    BY DataFacts
  <2>2. [version |-> o.version, fields |-> fields, table |-> table] \in Data
    BY <1>2, <1>4, <2>1, DataType
  <2>. QED  BY <1>1, <2>2
<1>6. \A k : k \in kept <=>
        /\ k \in DOMAIN o.table \/ k \in DOMAIN u.table
        /\ k \in DOMAIN u.table => u.table[k].type # "delete"
  OBVIOUS
<1> HIDE DEF kept, table, fields
<1>. QED  BY <1>1, <1>2, <1>4, <1>5, <1>6

\* If u turns o into d field by field and key by key, it does so as a whole.
LEMMA DifferMeans ==
  ASSUME NEW u \in Changes, NEW o \in Data, NEW d \in Data, Differ(u, o, d)
  PROVE  /\ Applies(u, o)
         /\ Seen(Apply(u, o)) = Seen(d)
         /\ Apply(u, o).fields = d.fields
<1> DEFINE a == Apply(u, o)
<1>1. Applies(u, o)
  BY DEF Differ, Applies
<1>2. a \in Data
  BY ApplyFacts
<1>3. a.fields = d.fields
  <2>1. \A x \in Fields : a.fields[x] = d.fields[x]
    BY ApplyFacts DEF Differ
  <2>2. a.fields \in [Fields -> Values] /\ d.fields \in [Fields -> Values]
    BY <1>2, DataFacts
  <2>. HIDE DEF a
  <2>. QED  BY <2>1, <2>2
<1>4. DOMAIN a.table = DOMAIN d.table
  <2>1. \A k : k \in DOMAIN a.table <=>
          /\ k \in DOMAIN o.table \/ k \in DOMAIN u.table
          /\ k \in DOMAIN u.table => u.table[k].type # "delete"
    BY ApplyFacts
  <2>2. \A k : k \in DOMAIN a.table <=> k \in DOMAIN d.table
    BY <2>1 DEF Differ
  <2>. HIDE DEF a
  <2>. QED  BY <2>2
<1>5. \A k \in DOMAIN d.table : a.table[k].text = d.table[k].text
  BY <1>4, ApplyFacts DEF Differ
<1>6. Seen(a) = Seen(d)
  <2>. HIDE DEF a
  <2>. QED  BY <1>3, <1>4, <1>5 DEF Seen
<1>. QED  BY <1>1, <1>3, <1>6

-----------------------------------------------------------------------------
(* Edits of the data.                                                      *)

\* The node of a change that there is, or of one that begins.
LEMMA UpdateNodeFacts ==
  ASSUME NEW f \in Forms, f.origin \in Data, f.updated \in Data
  PROVE  /\ UpdateNode(f) \in Changes
         /\ f.update # Nothing => UpdateNode(f) = f.update
         /\ f.update = Nothing /\ f.updated = f.origin /\ InDatabase(f.origin) =>
              Differ(UpdateNode(f), f.origin, f.updated)
<1>1. CASE f.update # Nothing
  BY <1>1 DEF UpdateNode, Forms
<1>2. CASE f.update = Nothing
  <2> DEFINE u == NoChange(f.updated.version)
  <2>1. UpdateNode(f) = u
    BY <1>2 DEF UpdateNode
  <2>2. /\ u.version = f.updated.version
        /\ u.fields = <<>> /\ u.table = <<>>
    BY DEF NoChange
  <2>3. u \in Changes /\ DOMAIN u.fields = {} /\ DOMAIN u.table = {}
    <3>1. /\ <<>> \in Choices
          /\ <<>> \in Nodes /\ DOMAIN <<>> = {}
      BY EmptyType DEF Nodes, Choices
    <3>. QED  BY <2>2, <3>1, DataFacts, ChangesType DEF NoChange
  <2>. HIDE DEF u
  <2>4. ASSUME f.updated = f.origin, InDatabase(f.origin)
        PROVE  Differ(u, f.origin, f.updated)
    BY <2>2, <2>3, <2>4 DEF Differ, InDatabase
  <2>. QED  BY <1>2, <2>1, <2>3, <2>4
<1>. QED  BY <1>1, <1>2

LEMMA SetFacts ==
  ASSUME NEW u \in Changes, NEW d \in Data
  PROVE  /\ \A fields \in Choices :
              /\ [u EXCEPT !.fields = fields] \in Changes
              /\ [u EXCEPT !.fields = fields].version = u.version
              /\ [u EXCEPT !.fields = fields].fields = fields
              /\ [u EXCEPT !.fields = fields].table = u.table
         /\ \A table \in Nodes :
              /\ [u EXCEPT !.table = table] \in Changes
              /\ [u EXCEPT !.table = table].version = u.version
              /\ [u EXCEPT !.table = table].fields = u.fields
              /\ [u EXCEPT !.table = table].table = table
         /\ \A fields \in [Fields -> Values] :
              /\ [d EXCEPT !.fields = fields] \in Data
              /\ [d EXCEPT !.fields = fields].version = d.version
              /\ [d EXCEPT !.fields = fields].fields = fields
              /\ [d EXCEPT !.fields = fields].table = d.table
         /\ \A table \in Tables :
              /\ [d EXCEPT !.table = table] \in Data
              /\ [d EXCEPT !.table = table].version = d.version
              /\ [d EXCEPT !.table = table].fields = d.fields
              /\ [d EXCEPT !.table = table].table = table
<1>1. ASSUME NEW fields \in Choices
      PROVE  [u EXCEPT !.fields = fields] =
               [version |-> u.version, fields |-> fields, table |-> u.table]
  BY DEF Changes
<1>2. ASSUME NEW table \in Nodes
      PROVE  [u EXCEPT !.table = table] =
               [version |-> u.version, fields |-> u.fields, table |-> table]
  BY DEF Changes
<1>3. ASSUME NEW fields \in [Fields -> Values]
      PROVE  [d EXCEPT !.fields = fields] =
               [version |-> d.version, fields |-> fields, table |-> d.table]
  BY DEF Data
<1>4. ASSUME NEW table \in Tables
      PROVE  [d EXCEPT !.table = table] =
               [version |-> d.version, fields |-> d.fields, table |-> table]
  BY DEF Data
<1>5. /\ u.version \in Nat /\ u.table \in Nodes
      /\ u.fields \in Choices
      /\ d.version \in Nat /\ d.table \in Tables /\ d.fields \in [Fields -> Values]
  BY ChangesFacts, DataFacts
<1>6. /\ \A fields \in Choices :
           [version |-> u.version, fields |-> fields, table |-> u.table] \in Changes
      /\ \A table \in Nodes :
           [version |-> u.version, fields |-> u.fields, table |-> table] \in Changes
  BY <1>5, ChangesType
<1>7. /\ \A fields \in [Fields -> Values] :
           [version |-> d.version, fields |-> fields, table |-> d.table] \in Data
      /\ \A table \in Tables :
           [version |-> d.version, fields |-> d.fields, table |-> table] \in Data
  BY <1>5, DataType
<1>8. \A fields \in Choices :
        /\ [u EXCEPT !.fields = fields] \in Changes
        /\ [u EXCEPT !.fields = fields].version = u.version
        /\ [u EXCEPT !.fields = fields].fields = fields
        /\ [u EXCEPT !.fields = fields].table = u.table
  BY <1>1, <1>6
<1>9. \A table \in Nodes :
        /\ [u EXCEPT !.table = table] \in Changes
        /\ [u EXCEPT !.table = table].version = u.version
        /\ [u EXCEPT !.table = table].fields = u.fields
        /\ [u EXCEPT !.table = table].table = table
  BY <1>2, <1>6
<1>10. \A fields \in [Fields -> Values] :
         /\ [d EXCEPT !.fields = fields] \in Data
         /\ [d EXCEPT !.fields = fields].version = d.version
         /\ [d EXCEPT !.fields = fields].fields = fields
         /\ [d EXCEPT !.fields = fields].table = d.table
  BY <1>3, <1>7
<1>11. \A table \in Tables :
         /\ [d EXCEPT !.table = table] \in Data
         /\ [d EXCEPT !.table = table].version = d.version
         /\ [d EXCEPT !.table = table].fields = d.fields
         /\ [d EXCEPT !.table = table].table = table
  BY <1>4, <1>7
<1>. QED  BY <1>8, <1>9, <1>10, <1>11

\* modiData of a field of the row.
LEMMA FieldDiffers ==
  ASSUME NEW u, NEW o, NEW d, Differ(u, o, d), NEW x \in Fields, NEW v,
         d.fields \in [Fields -> Values],
         NEW u2, u2.version = u.version, u2.table = u.table, u2.fields = Put(u.fields, x, v),
         NEW d2, d2.fields = [d.fields EXCEPT ![x] = v], d2.table = d.table
  PROVE  Differ(u2, o, d2)
<1>1. \A y \in Fields :
        d2.fields[y] = IF y \in DOMAIN u2.fields THEN u2.fields[y] ELSE o.fields[y]
  BY DEF Put, Differ
<1>2. u2.version = o.version
  BY DEF Differ
<1>. QED  BY <1>1, <1>2 DEF Differ

\* A row of the table gets the node n in the change, and is shown as c.
LEMMA RowDiffers ==
  ASSUME NEW u, NEW o, NEW d, Differ(u, o, d), NEW k, NEW n, NEW c,
         n.type \in {"create", "update"}, n.type # "create" <=> k \in DOMAIN o.table,
         c.new <=> k \notin DOMAIN o.table,
         c.text = IF n.text # Nothing THEN n.text
                  ELSE IF k \in DOMAIN o.table THEN o.table[k].text ELSE Nothing,
         NEW u2, u2.version = u.version, u2.fields = u.fields, u2.table = Put(u.table, k, n),
         NEW d2, d2.fields = d.fields, d2.table = Put(d.table, k, c)
  PROVE  Differ(u2, o, d2)
<1>1. /\ DOMAIN u2.table = DOMAIN u.table \cup {k} /\ u2.table[k] = n
      /\ \A j \in DOMAIN u.table : j # k => u2.table[j] = u.table[j]
      /\ DOMAIN d2.table = DOMAIN d.table \cup {k} /\ d2.table[k] = c
      /\ \A j \in DOMAIN d.table : j # k => d2.table[j] = d.table[j]
  BY DEF Put
<1>2. \A j : j \in DOMAIN d2.table <=>
        /\ j \in DOMAIN o.table \/ j \in DOMAIN u2.table
        /\ j \in DOMAIN u2.table => u2.table[j].type # "delete"
  BY <1>1 DEF Differ
<1>3. \A j \in DOMAIN u2.table : u2.table[j].type # "create" <=> j \in DOMAIN o.table
  BY <1>1 DEF Differ
<1>4. \A j \in DOMAIN d2.table :
       /\ d2.table[j].new <=> j \notin DOMAIN o.table
       /\ d2.table[j].text = IF j \in DOMAIN u2.table /\ u2.table[j].text # Nothing
                             THEN u2.table[j].text
                             ELSE IF j \in DOMAIN o.table THEN o.table[j].text ELSE Nothing
  BY <1>1 DEF Differ
<1>. QED  BY <1>2, <1>3, <1>4 DEF Differ

\* deleteRow, of a row that is new and of one that is not.
LEMMA RemovedDiffers ==
  ASSUME NEW u, NEW o, NEW d, Differ(u, o, d), NEW k \in DOMAIN d.table, NEW n,
         n.type = "delete",
         NEW u2, u2.version = u.version, u2.fields = u.fields,
         u2.table = IF d.table[k].new THEN Without(u.table, k) ELSE Put(u.table, k, n),
         NEW d2, d2.fields = d.fields, d2.table = Without(d.table, k)
  PROVE  Differ(u2, o, d2)
<1>1. /\ DOMAIN d2.table = DOMAIN d.table \ {k}
      /\ \A j \in DOMAIN d.table : j # k => d2.table[j] = d.table[j]
      /\ \A j \in DOMAIN u.table : j # k => j \in DOMAIN u2.table /\ u2.table[j] = u.table[j]
      /\ \A j \in DOMAIN u2.table : j # k => j \in DOMAIN u.table
  BY DEF Put, Without
<1>2. k \in DOMAIN u2.table <=> k \in DOMAIN o.table
  BY DEF Put, Without, Differ
<1>3. k \in DOMAIN u2.table => u2.table[k].type = "delete"
  BY DEF Put, Without
<1>4. \A j : j \in DOMAIN d2.table <=>
        /\ j \in DOMAIN o.table \/ j \in DOMAIN u2.table
        /\ j \in DOMAIN u2.table => u2.table[j].type # "delete"
  BY <1>1, <1>2, <1>3 DEF Differ
<1>5. \A j \in DOMAIN u2.table : u2.table[j].type # "create" <=> j \in DOMAIN o.table
  BY <1>1, <1>2, <1>3 DEF Differ
<1>6. \A j \in DOMAIN d2.table :
       /\ d2.table[j].new <=> j \notin DOMAIN o.table
       /\ d2.table[j].text = IF j \in DOMAIN u2.table /\ u2.table[j].text # Nothing
                             THEN u2.table[j].text
                             ELSE IF j \in DOMAIN o.table THEN o.table[j].text ELSE Nothing
  BY <1>1 DEF Differ
<1>. QED  BY <1>4, <1>5, <1>6 DEF Differ

\* An edit changes what is shown and keeps the change of the form true to it.
Edited(f, f2) ==
  /\ f2 \in Forms /\ f2.update \in Changes /\ f2.updated \in Data
  /\ f2.origin = f.origin /\ f2.options = f.options
  /\ f2.stage = f.stage /\ f2.loaded = f.loaded
  /\ Whole(f) => Whole(f2)

LEMMA EditedIs ==
  ASSUME NEW f \in Forms, NEW u2 \in Changes, NEW d2 \in Data,
         NEW f2, f2 = [f EXCEPT !.update = u2, !.updated = d2]
  PROVE  /\ f2.updated = d2
         /\ (Whole(f) => Differ(u2, f.origin, d2)) => Edited(f, f2)
<1>1. /\ f2.update = u2 /\ f2.updated = d2 /\ f2.origin = f.origin /\ f2.options = f.options
      /\ f2.stage = f.stage /\ f2.loaded = f.loaded /\ f2 \in Forms
  BY DEF Forms
<1>2. u2 # Nothing
  BY FormAssumption
<1>3. (Whole(f) => Differ(u2, f.origin, d2)) => (Whole(f) => Whole(f2))
  BY <1>1, <1>2 DEF Whole
<1>. QED  BY <1>1, <1>3 DEF Edited

\* The change an edit adds to, and what it is about.
LEMMA NodeIs ==
  ASSUME NEW f \in Forms, f.origin \in Data, f.updated \in Data
  PROVE  /\ UpdateNode(f) \in Changes
         /\ Whole(f) => Differ(UpdateNode(f), f.origin, f.updated)
BY UpdateNodeFacts DEF Whole

LEMMA ModiFieldFacts ==
  ASSUME NEW f \in Forms, f.origin \in Data, f.updated \in Data,
         NEW x \in Fields, NEW v \in Values
  PROVE  /\ Edited(f, ModiField(f, x, v))
         /\ ModiField(f, x, v).updated.fields = [f.updated.fields EXCEPT ![x] = v]
<1>1. PICK u \in Changes, d \in Data :
        u = UpdateNode(f) /\ d = f.updated /\ (Whole(f) => Differ(u, f.origin, d))
  BY NodeIs
<1>2. PICK fields \in Choices : fields = Put(u.fields, x, v)
  <2>1. u.fields \in Choices
    BY ChangesFacts
  <2>. QED  BY <2>1, PutType DEF Choices
<1>3. d.fields \in [Fields -> Values]
  BY DataFacts
<1>4. PICK shown \in [Fields -> Values] : shown = [d.fields EXCEPT ![x] = v]
  BY <1>3
<1>5. PICK u2 \in Changes : u2 = [u EXCEPT !.fields = fields]
  BY SetFacts
<1>6. PICK d2 \in Data : d2 = [d EXCEPT !.fields = shown]
  BY SetFacts
<1>7. /\ u2.version = u.version /\ u2.table = u.table /\ u2.fields = fields
      /\ d2.fields = shown /\ d2.table = d.table
  BY <1>5, <1>6, SetFacts
<1>8. Whole(f) => Differ(u2, f.origin, d2)
  BY <1>1, <1>2, <1>3, <1>4, <1>7, FieldDiffers
<1>9. ModiField(f, x, v) = [f EXCEPT !.update = u2, !.updated = d2]
  <2>1. ModiField(f, x, v) =
          [f EXCEPT !.update = [u EXCEPT !.fields = Put(u.fields, x, v)],
                    !.updated = [d EXCEPT !.fields = [d.fields EXCEPT ![x] = v]]]
    <3>1. f.updated \in Data /\ DOMAIN f = DOMAIN [f EXCEPT !.update = u2]
      OBVIOUS
    <3>. QED  BY <1>1, <3>1 DEF ModiField, Forms, Data
  <2>. QED  BY <1>2, <1>4, <1>5, <1>6, <2>1
<1>10. PICK f2 : f2 = ModiField(f, x, v)
  OBVIOUS
<1>11. Edited(f, f2) /\ f2.updated = d2
  BY <1>8, <1>9, <1>10, EditedIs
<1>. QED  BY <1>1, <1>4, <1>7, <1>10, <1>11

LEMMA TableChange ==
  ASSUME NEW u \in Changes, NEW d \in Data, NEW nodes \in Nodes, NEW cells \in Tables
  PROVE  /\ [u EXCEPT !.table = nodes] \in Changes
         /\ [u EXCEPT !.table = nodes].version = u.version
         /\ [u EXCEPT !.table = nodes].fields = u.fields
         /\ [u EXCEPT !.table = nodes].table = nodes
         /\ [d EXCEPT !.table = cells] \in Data
         /\ [d EXCEPT !.table = cells].fields = d.fields
         /\ [d EXCEPT !.table = cells].table = cells
BY SetFacts

Node == [type : {"create", "update", "delete"}, text : Strings]
Cell == [new : BOOLEAN, text : Strings]

LEMMA PutRow ==
  ASSUME NEW u \in Changes, NEW d \in Data, NEW k \in Keys, NEW n \in Node, NEW c \in Cell
  PROVE  Put(u.table, k, n) \in Nodes /\ Put(d.table, k, c) \in Tables
<1>1. u.table \in Nodes /\ d.table \in Tables
  BY ChangesFacts, DataFacts
<1>2. Put(u.table, k, n) \in Nodes
  BY <1>1, PutType DEF Nodes, Node, Strings
<1>3. Put(d.table, k, c) \in Tables
  BY <1>1, PutType DEF Tables, Cell, Strings
<1>. QED  BY <1>2, <1>3

LEMMA WithoutRow ==
  ASSUME NEW u \in Changes, NEW d \in Data, NEW k
  PROVE  Without(u.table, k) \in Nodes /\ Without(d.table, k) \in Tables
<1>1. u.table \in Nodes /\ d.table \in Tables
  BY ChangesFacts, DataFacts
<1>2. Without(u.table, k) \in Nodes
  <2> DEFINE N == [type : {"create", "update", "delete"}, text : Texts \cup {Nothing}]
  <2>1. PICK K \in SUBSET Keys : u.table \in [K -> N]
    BY <1>1 DEF Nodes
  <2>. HIDE DEF N
  <2>2. Without(u.table, k) \in [K \ {k} -> N]
    BY <2>1 DEF Without
  <2>3. K \ {k} \in SUBSET Keys
    BY <2>1
  <2>. QED  BY <2>2, <2>3 DEF Nodes, N
<1>3. Without(d.table, k) \in Tables
  <2> DEFINE C == [new : BOOLEAN, text : Texts \cup {Nothing}]
  <2>1. PICK K \in SUBSET Keys : d.table \in [K -> C]
    BY <1>1 DEF Tables
  <2>. HIDE DEF C
  <2>2. Without(d.table, k) \in [K \ {k} -> C]
    BY <2>1 DEF Without
  <2>3. K \ {k} \in SUBSET Keys
    BY <2>1
  <2>. QED  BY <2>2, <2>3 DEF Tables, C
<1>. QED  BY <1>2, <1>3

LEMMA ModiRowFacts ==
  ASSUME NEW f \in Forms, f.origin \in Data, f.updated \in Data,
         NEW k \in DOMAIN f.updated.table, NEW text \in Texts
  PROVE  /\ Edited(f, ModiRow(f, k, text))
         /\ ModiRow(f, k, text).updated.fields = f.updated.fields
<1>1. PICK u \in Changes, d \in Data :
        u = UpdateNode(f) /\ d = f.updated /\ (Whole(f) => Differ(u, f.origin, d))
  BY NodeIs
<1>2. k \in Keys /\ text \in Strings /\ text # Nothing
  BY <1>1, DataFacts, FormAssumption DEF Strings
<1>3. PICK old \in Node : old = TableNode(f, k)
  <2>1. CASE k \in DOMAIN u.table
    BY <1>1, <2>1, ChangesFacts DEF TableNode, Node
  <2>2. CASE k \notin DOMAIN u.table
    BY <1>1, <2>2 DEF TableNode, Node, Strings
  <2>. QED  BY <2>1, <2>2
<1>4. PICK n \in Node : n = [old EXCEPT !.text = text] /\ n.type = old.type /\ n.text = text
  <2>1. PICK n : n = [old EXCEPT !.text = text]
    OBVIOUS
  <2>2. n \in Node /\ n.type = old.type /\ n.text = text
    BY <1>2, <2>1 DEF Node
  <2>. QED  BY <2>1, <2>2
<1>5. d.table[k] \in Cell
  BY <1>1, DataFacts DEF Cell
<1>6. PICK c \in Cell : c = [d.table[k] EXCEPT !.text = text] /\ c.new = d.table[k].new /\ c.text = text
  <2>1. PICK c : c = [d.table[k] EXCEPT !.text = text]
    OBVIOUS
  <2>2. c \in Cell /\ c.new = d.table[k].new /\ c.text = text
    BY <1>2, <1>5, <2>1 DEF Cell
  <2>. QED  BY <2>1, <2>2
<1>7. PICK nodes \in Nodes, cells \in Tables : nodes = Put(u.table, k, n) /\ cells = Put(d.table, k, c)
  BY <1>2, PutRow
<1>8. PICK u2 \in Changes, d2 \in Data :
        /\ u2 = [u EXCEPT !.table = nodes] /\ d2 = [d EXCEPT !.table = cells]
        /\ u2.version = u.version /\ u2.fields = u.fields /\ u2.table = nodes
        /\ d2.fields = d.fields /\ d2.table = cells
  <2>1. PICK u2, d2 : u2 = [u EXCEPT !.table = nodes] /\ d2 = [d EXCEPT !.table = cells]
    OBVIOUS
  <2>2. u2 \in Changes /\ u2.version = u.version /\ u2.fields = u.fields /\ u2.table = nodes
    BY <2>1, TableChange
  <2>3. d2 \in Data /\ d2.fields = d.fields /\ d2.table = cells
    BY <2>1, TableChange
  <2>. QED  BY <2>1, <2>2, <2>3
<1>9. ASSUME Whole(f)
      PROVE  Differ(u2, f.origin, d2)
  <2>1. Differ(u, f.origin, d)
    BY <1>1, <1>9
  <2>2. d.table[k].new <=> k \notin DOMAIN f.origin.table
    BY <1>1, <2>1 DEF Differ
  <2>3. n.type \in {"create", "update"} /\ (n.type # "create" <=> k \in DOMAIN f.origin.table)
    <3>1. CASE k \in DOMAIN u.table
      <4>1. old = u.table[k]
        BY <1>1, <1>3, <3>1 DEF TableNode
      <4>2. u.table[k].type # "delete" /\ (u.table[k].type # "create" <=> k \in DOMAIN f.origin.table)
        BY <1>1, <2>1, <3>1 DEF Differ
      <4>. QED  BY <1>4, <4>1, <4>2 DEF Node
    <3>2. CASE k \notin DOMAIN u.table
      <4>1. old.type = "update"
        BY <1>1, <1>3, <3>2 DEF TableNode
      <4>2. k \in DOMAIN f.origin.table
        BY <1>1, <2>1, <3>2 DEF Differ
      <4>. QED  BY <1>4, <4>1, <4>2
    <3>. QED  BY <3>1, <3>2
  <2>4. /\ u2.version = u.version /\ u2.fields = u.fields /\ u2.table = Put(u.table, k, n)
        /\ d2.fields = d.fields /\ d2.table = Put(d.table, k, c)
    BY <1>7, <1>8
  <2>5. /\ c.new <=> k \notin DOMAIN f.origin.table
        /\ c.text = IF n.text # Nothing THEN n.text
                    ELSE IF k \in DOMAIN f.origin.table THEN f.origin.table[k].text ELSE Nothing
    BY <1>2, <1>4, <1>6, <2>2
  <2>. QED  BY <2>1, <2>3, <2>4, <2>5, RowDiffers
<1>10. PICK f2 : f2 = ModiRow(f, k, text)
  OBVIOUS
<1>11. f2 = [f EXCEPT !.update = u2, !.updated = d2]
  <2>1. cells = [d.table EXCEPT ![k] = c]
    <3>1. d.table = [j \in DOMAIN d.table |-> d.table[j]]
      BY DataFacts
    <3>. QED  BY <1>1, <1>7, <3>1 DEF Put
  <2>2. f2 = [f EXCEPT !.update = [u EXCEPT !.table = Put(u.table, k, [old EXCEPT !.text = text])],
                       !.updated = [d EXCEPT !.table =
                          [d.table EXCEPT ![k] = [d.table[k] EXCEPT !.text = text]]]]
    BY <1>1, <1>3, <1>10 DEF ModiRow, Forms, Data
  <2>. QED  BY <1>4, <1>6, <1>7, <1>8, <2>1, <2>2
<1>12. Edited(f, f2) /\ f2.updated = d2
  BY <1>9, <1>11, EditedIs
<1>. QED  BY <1>1, <1>8, <1>10, <1>12

LEMMA CreateRowFacts ==
  ASSUME NEW f \in Forms, f.origin \in Data, f.updated \in Data, NEW k \in Keys,
         k \notin DOMAIN f.origin.table
  PROVE  /\ Edited(f, CreateRow(f, k))
         /\ CreateRow(f, k).updated.fields = f.updated.fields
<1>1. PICK u \in Changes, d \in Data :
        u = UpdateNode(f) /\ d = f.updated /\ (Whole(f) => Differ(u, f.origin, d))
  BY NodeIs
<1>2. PICK n \in Node : n = [type |-> "create", text |-> Nothing]
  BY DEF Node, Strings
<1>3. PICK c \in Cell : c = [new |-> TRUE, text |-> Nothing]
  BY DEF Cell, Strings
<1>4. PICK nodes \in Nodes, cells \in Tables : nodes = Put(u.table, k, n) /\ cells = Put(d.table, k, c)
  BY PutRow
<1>5. PICK u2 \in Changes, d2 \in Data :
        /\ u2 = [u EXCEPT !.table = nodes] /\ d2 = [d EXCEPT !.table = cells]
        /\ u2.version = u.version /\ u2.fields = u.fields /\ u2.table = nodes
        /\ d2.fields = d.fields /\ d2.table = cells
  <2>1. PICK u2, d2 : u2 = [u EXCEPT !.table = nodes] /\ d2 = [d EXCEPT !.table = cells]
    OBVIOUS
  <2>2. u2 \in Changes /\ u2.version = u.version /\ u2.fields = u.fields /\ u2.table = nodes
    BY <2>1, TableChange
  <2>3. d2 \in Data /\ d2.fields = d.fields /\ d2.table = cells
    BY <2>1, TableChange
  <2>. QED  BY <2>1, <2>2, <2>3
<1>6. ASSUME Whole(f)
      PROVE  Differ(u2, f.origin, d2)
  <2>1. Differ(u, f.origin, d)
    BY <1>1, <1>6
  <2>2. n.type = "create" /\ n.text = Nothing /\ c.new /\ c.text = Nothing
    BY <1>2, <1>3
  <2>3. n.type \in {"create", "update"} /\ (n.type # "create" <=> k \in DOMAIN f.origin.table)
    BY <2>2
  <2>4. /\ u2.version = u.version /\ u2.fields = u.fields /\ u2.table = Put(u.table, k, n)
        /\ d2.fields = d.fields /\ d2.table = Put(d.table, k, c)
    BY <1>4, <1>5
  <2>5. /\ c.new <=> k \notin DOMAIN f.origin.table
        /\ c.text = IF n.text # Nothing THEN n.text
                    ELSE IF k \in DOMAIN f.origin.table THEN f.origin.table[k].text ELSE Nothing
    BY <2>2
  <2>. QED  BY <2>1, <2>3, <2>4, <2>5, RowDiffers
<1>7. PICK f2 : f2 = CreateRow(f, k)
  OBVIOUS
<1>8. f2 = [f EXCEPT !.update = u2, !.updated = d2]
  <2>1. f2 = [f EXCEPT !.update = [u EXCEPT !.table = Put(u.table, k, n)],
                       !.updated = [d EXCEPT !.table = Put(d.table, k, c)]]
    BY <1>1, <1>2, <1>3, <1>7 DEF CreateRow, Forms, Data
  <2>. QED  BY <1>4, <1>5, <2>1
<1>9. Edited(f, f2) /\ f2.updated = d2
  BY <1>6, <1>8, EditedIs
<1>. QED  BY <1>1, <1>5, <1>7, <1>9

LEMMA DeleteRowFacts ==
  ASSUME NEW f \in Forms, f.origin \in Data, f.updated \in Data, NEW k \in DOMAIN f.updated.table
  PROVE  /\ Edited(f, DeleteRow(f, k))
         /\ DeleteRow(f, k).updated.fields = f.updated.fields
<1>1. PICK u \in Changes, d \in Data :
        u = UpdateNode(f) /\ d = f.updated /\ (Whole(f) => Differ(u, f.origin, d))
  BY NodeIs
<1>2. PICK n \in Node : n = [type |-> "delete", text |-> Nothing]
  BY DEF Node, Strings
<1>3. k \in Keys
  BY <1>1, DataFacts
<1>4. PICK nodes \in Nodes, cells \in Tables :
        /\ nodes = IF d.table[k].new THEN Without(u.table, k) ELSE Put(u.table, k, n)
        /\ cells = Without(d.table, k)
  <2>1. PICK c \in Cell : c = [new |-> TRUE, text |-> Nothing]
    BY DEF Cell, Strings
  <2>2. Put(u.table, k, n) \in Nodes
    BY <1>3, <2>1, PutRow
  <2>. QED  BY <2>2, WithoutRow
<1>5. PICK u2 \in Changes, d2 \in Data :
        /\ u2 = [u EXCEPT !.table = nodes] /\ d2 = [d EXCEPT !.table = cells]
        /\ u2.version = u.version /\ u2.fields = u.fields /\ u2.table = nodes
        /\ d2.fields = d.fields /\ d2.table = cells
  <2>1. PICK u2, d2 : u2 = [u EXCEPT !.table = nodes] /\ d2 = [d EXCEPT !.table = cells]
    OBVIOUS
  <2>2. u2 \in Changes /\ u2.version = u.version /\ u2.fields = u.fields /\ u2.table = nodes
    BY <2>1, TableChange
  <2>3. d2 \in Data /\ d2.fields = d.fields /\ d2.table = cells
    BY <2>1, TableChange
  <2>. QED  BY <2>1, <2>2, <2>3
<1>6. ASSUME Whole(f)
      PROVE  Differ(u2, f.origin, d2)
  <2>1. Differ(u, f.origin, d)
    BY <1>1, <1>6
  <2>2. n.type = "delete" /\ k \in DOMAIN d.table
    BY <1>1, <1>2
  <2>3. /\ u2.version = u.version /\ u2.fields = u.fields
        /\ u2.table = IF d.table[k].new THEN Without(u.table, k) ELSE Put(u.table, k, n)
        /\ d2.fields = d.fields /\ d2.table = Without(d.table, k)
    BY <1>4, <1>5
  <2>. QED  BY <2>1, <2>2, <2>3, RemovedDiffers
<1>7. PICK f2 : f2 = DeleteRow(f, k)
  OBVIOUS
<1>8. f2 = [f EXCEPT !.update = u2, !.updated = d2]
  <2>1. f2 = [f EXCEPT !.update = [u EXCEPT !.table = IF d.table[k].new THEN Without(u.table, k)
                                                      ELSE Put(u.table, k, n)],
                       !.updated = [d EXCEPT !.table = Without(d.table, k)]]
    BY <1>1, <1>2, <1>7 DEF DeleteRow, Forms, Data
  <2>. QED  BY <1>4, <1>5, <2>1
<1>9. Edited(f, f2) /\ f2.updated = d2
  BY <1>6, <1>8, EditedIs
<1>. QED  BY <1>1, <1>5, <1>7, <1>9

-----------------------------------------------------------------------------
(* The steps.                                                              *)

LEMMA InitIInv == Init => IInv
<1> SUFFICES ASSUME Init PROVE IInv
  OBVIOUS
<1>1. row \in Data /\ InDatabase(row) /\ Legal(row)
  BY FormAssumption DEF Init
<1>2. form = NewForm /\ running = Nothing /\ answer = Nothing /\ saved = Nothing /\ asked = {}
  BY DEF Init
<1>3. NewForm \in Forms /\ NewForm.loaded = FALSE /\ NewForm.options.list = {}
  BY DEF NewForm, Forms, Values
<1>. QED  BY <1>1, <1>2, <1>3
          DEF IInv, Types, FormFits, AnswerFits, SaveFits, AllLegal, OptionsFit, SavedAsShown, Is

\* Edits of the form that keep what is shown legal.
LEMMA EditStep ==
  ASSUME IInv, Shown, NEW f2, Edited(form, f2), Edit(f2),
         misled => misled', ~misled' /\ ~stale => Legal(f2.updated)
  PROVE  IInv'
<1>1. /\ form' = f2 /\ form.loaded
      /\ UNCHANGED <<row, running, answer, asked, stale, saved>>
  BY DEF Edit, Shown
<1>2. /\ f2 \in Forms /\ f2.updated \in Data /\ f2.loaded /\ f2.origin = form.origin
      /\ f2.options = form.options
      /\ Whole(form) => Whole(f2)
  BY <1>1 DEF Edited
<1>3. Types'
  BY <1>1, <1>2 DEF IInv, Types
<1>4. FormFits'
  BY <1>1, <1>2 DEF IInv, FormFits, FitsRow
<1>5. AnswerFits' /\ SavedAsShown'
  BY <1>1 DEF IInv, AnswerFits, FitsRow, SavedAsShown
<1>6. SaveFits'
  BY <1>1 DEF IInv, SaveFits
<1>7. AllLegal'
  BY <1>1, <1>2 DEF IInv, AllLegal
<1>8. OptionsFit'
  BY <1>1, <1>2 DEF IInv, OptionsFit
<1>. QED  BY <1>3, <1>4, <1>5, <1>6, <1>7, <1>8 DEF IInv

LEMMA FormData ==
  ASSUME IInv, Shown
  PROVE  /\ form \in Forms /\ form.origin \in Data /\ form.updated \in Data
         /\ form.updated.fields \in [Fields -> Values]
         /\ ~misled /\ ~stale => Legal(form.updated)
BY DataFacts DEF IInv, Types, Shown, AllLegal

\* The child is cleared, so that it cannot belong to another parent.
LEMMA SetParentStep ==
  ASSUME IInv, Shown, NEW p \in Parents \cup {Nothing}, SetParent(p)
  PROVE  IInv'
<1> DEFINE f1 == ModiField(form, "parent", p)
           f2 == ModiField(f1, "child", Nothing)
<1>1. "parent" \in Fields /\ "child" \in Fields /\ p \in Values /\ Nothing \in Values
  BY DEF Fields, Values
<1>2. Edited(form, f1)
  BY <1>1, FormData, ModiFieldFacts
<1>3. f1 \in Forms /\ f1.origin \in Data /\ f1.updated \in Data
  BY <1>2, FormData DEF Edited
<1>4. Edited(f1, f2) /\ f2.updated.fields = [f1.updated.fields EXCEPT !["child"] = Nothing]
  <2>. HIDE DEF f1
  <2>. QED  BY <1>1, <1>3, ModiFieldFacts
<1>5. Edited(form, f2)
  <2>. HIDE DEF f1, f2
  <2>. QED  BY <1>2, <1>4 DEF Edited
<1>6. Edit(f2) /\ misled' = misled
  BY DEF SetParent
<1>7. Legal(f2.updated)
  <2>1. f1.updated.fields \in [Fields -> Values]
    BY <1>3, DataFacts
  <2>. HIDE DEF f1, f2
  <2>. QED  BY <1>1, <1>4, <2>1 DEF Legal, Fits
<1> HIDE DEF f1, f2
<1>. QED  BY <1>5, <1>6, <1>7, EditStep

\* The child belongs to the parent its options were fetched for.
LEMMA SetChildStep ==
  ASSUME IInv, Shown, NEW c \in Children \cup {Nothing}, SetChild(c)
  PROVE  IInv'
<1>1. PICK f2 : f2 = ModiField(form, "child", c)
  OBVIOUS
<1>2. "child" \in Fields /\ "parent" \in Fields /\ c \in Values
  BY DEF Fields, Values
<1>3. Edited(form, f2) /\ f2.updated.fields = [form.updated.fields EXCEPT !["child"] = c]
  BY <1>1, <1>2, FormData, ModiFieldFacts
<1>4. /\ Edit(f2) /\ c \in form.options.list \cup {Nothing}
      /\ misled' = (\/ misled
                    \/ c # Nothing /\ form.updated.fields["parent"] \notin {Nothing, form.options.of})
  BY <1>1 DEF SetChild
<1>5. Fits(form.options.of, c)
  BY <1>4 DEF IInv, OptionsFit, Fits
<1>6. f2.updated.fields["child"] = c /\ f2.updated.fields["parent"] = form.updated.fields["parent"]
  BY <1>2, <1>3, FormData
<1>7. ~misled' => Legal(f2.updated)
  BY <1>4, <1>5, <1>6 DEF Legal, Fits
<1>. QED  BY <1>3, <1>4, <1>7, EditStep

LEMMA TableStep ==
  ASSUME IInv, Shown, NEW k \in Keys,
         AddRow(k) \/ RemoveRow(k) \/ \E text \in Texts : EditRow(k, text)
  PROVE  IInv'
<1>1. ASSUME NEW f2, Edit(f2), misled' = misled, Edited(form, f2),
             f2.updated.fields = form.updated.fields
      PROVE  IInv'
  <2>1. ~misled /\ ~stale => Legal(f2.updated)
    BY <1>1, FormData DEF Legal
  <2>. QED  BY <1>1, <2>1, EditStep
<1>2. CASE AddRow(k)
  <2>1. /\ Edit(CreateRow(form, k)) /\ misled' = misled
        /\ k \notin DOMAIN form.origin.table
    BY <1>2 DEF AddRow
  <2>. QED  BY <1>1, <2>1, FormData, CreateRowFacts
<1>3. CASE RemoveRow(k)
  BY <1>1, <1>3, FormData, DeleteRowFacts DEF RemoveRow
<1>4. ASSUME NEW text \in Texts, EditRow(k, text)
      PROVE  IInv'
  BY <1>1, <1>4, FormData, ModiRowFacts DEF EditRow
<1>. QED  BY <1>2, <1>3, <1>4

\* Sending an operation other than a save changes nothing that matters here.
LEMMA SendFacts ==
  ASSUME NEW op, Send(op), op.kind # "save"
  PROVE  Is(running, "save")' => Is(running, "save") /\ running' = running
BY DEF Send, Is

\* Steps of the form, the user and the main frame that leave the row and the
\* histories alone, and what is shown, or replace it.
LEMMA QuietStep ==
  ASSUME IInv, UNCHANGED <<row, misled, saved>>,
         form' \in Forms, OptionsFit',
         Is(running, "save")' => Is(running, "save") /\ running' = running,
         Is(answer, "query")' => answer'.data \in Data /\ InDatabase(answer'.data) /\ FitsRow(answer'.data)
                                 /\ (~misled /\ ~stale => Legal(answer'.data)),
         stale => stale', \A q \in asked' : q.parent \in Values,
         form'.loaded =>
           /\ form'.origin \in Data /\ form'.updated \in Data
           /\ ~stale' => FitsRow(form'.origin) /\ Whole(form')
           /\ ~misled /\ ~stale' => Legal(form'.updated)
  PROVE  IInv'
<1>1. Types'
  BY DEF IInv, Types
<1>2. \A d : FitsRow(d)' <=> FitsRow(d')
  BY DEF FitsRow
<1>3. FormFits' /\ AnswerFits'
  BY DEF FormFits, AnswerFits, FitsRow
<1>4. SaveFits'
  BY DEF IInv, SaveFits
<1>5. AllLegal' /\ SavedAsShown'
  BY DEF IInv, AllLegal, SavedAsShown
<1>. QED  BY <1>1, <1>3, <1>4, <1>5 DEF IInv

\* The data shown and the answer on its way are as they were.
LEMMA FormKept ==
  ASSUME IInv
  PROVE  /\ form \in Forms /\ OptionsFit /\ \A q \in asked : q.parent \in Values
         /\ form.loaded =>
              /\ form.origin \in Data /\ form.updated \in Data
              /\ ~stale => FitsRow(form.origin) /\ Whole(form)
              /\ ~misled /\ ~stale => Legal(form.updated)
         /\ Is(answer, "query") => answer.data \in Data /\ InDatabase(answer.data) /\ FitsRow(answer.data)
                                   /\ (~misled /\ ~stale => Legal(answer.data))
BY DEF IInv, Types, FormFits, AnswerFits, AllLegal

LEMMA ShowStep ==
  ASSUME IInv, Show
  PROVE  IInv'
<1>1. /\ form' = [form EXCEPT !.stage = "asked"] /\ Send(Operation("conf"))
      /\ UNCHANGED <<row, answer, asked, stale, misled, saved>>
  BY DEF Show, history
<1>2. /\ form' \in Forms /\ form'.loaded = form.loaded /\ form'.origin = form.origin
      /\ form'.updated = form.updated /\ form'.update = form.update
      /\ form'.options = form.options
  BY <1>1, FormKept DEF Forms
<1>3. Operation("conf").kind # "save"
  BY DEF Operation
<1>4. Is(running, "save")' => Is(running, "save") /\ running' = running
  BY <1>1, <1>3, SendFacts
<1>5. OptionsFit' /\ (Whole(form) => Whole(form'))
  BY <1>2, FormKept DEF OptionsFit, Whole
<1>6. Is(answer, "query")' <=> Is(answer, "query")
  BY <1>1 DEF Is
<1>. QED  BY <1>1, <1>2, <1>4, <1>5, <1>6, FormKept, QuietStep

LEMMA ReceiveStep ==
  ASSUME IInv, Receive
  PROVE  IInv'
<1>1. /\ answer' = Nothing /\ UNCHANGED <<row, asked, misled, saved>> /\ ~Is(answer, "query")'
      /\ \A q \in asked' : q.parent \in Values
  BY FormKept DEF Receive, Is
<1>2. CASE ReceiveConf
  <2>1. /\ form' = [form EXCEPT !.stage = "ready"] /\ Send(Operation("query")) /\ stale' = stale
    BY <1>2 DEF ReceiveConf
  <2>2. /\ form' \in Forms /\ form'.loaded = form.loaded /\ form'.origin = form.origin
        /\ form'.updated = form.updated /\ form'.update = form.update
        /\ form'.options = form.options
    BY <2>1, FormKept DEF Forms
  <2>3. Is(running, "save")' => Is(running, "save") /\ running' = running
    <3>1. Operation("query").kind # "save"
      BY DEF Operation
    <3>. QED  BY <2>1, <3>1, SendFacts
  <2>4. OptionsFit' /\ (Whole(form) => Whole(form'))
    BY <2>2, FormKept DEF OptionsFit, Whole
  <2>. QED  BY <1>1, <2>1, <2>2, <2>3, <2>4, FormKept, QuietStep
<1>3. CASE ReceiveData
  <2>1. PICK d \in Data : /\ d = answer.data /\ InDatabase(d) /\ FitsRow(d)
                          /\ (~misled /\ ~stale => Legal(d))
    BY <1>3, FormKept DEF ReceiveData, Is
  <2>2. /\ form' = [SetData(form, d) EXCEPT !.options = [of |-> Nothing, list |-> {}]]
        /\ stale' = (stale \/ form.update # Nothing) /\ running' = running
    BY <1>3, <2>1 DEF ReceiveData
  <2>3. /\ form' \in Forms /\ form'.origin = d /\ form'.updated = d /\ form'.update = form.update
        /\ form'.options.list = {}
    BY <2>2, FormKept DEF SetData, Forms, Values
  <2>4. OptionsFit'
    BY <2>3 DEF OptionsFit
  <2>5. ~stale' => Whole(form')
    BY <2>1, <2>2, <2>3 DEF Whole
  <2>6. Is(running, "save")' => Is(running, "save") /\ running' = running
    BY <2>2 DEF Is
  <2>. QED  BY <1>1, <2>1, <2>2, <2>3, <2>4, <2>5, <2>6, QuietStep
<1>4. CASE ReceiveReload
  <2>1. /\ form' = [form EXCEPT !.loaded = FALSE] /\ stale' = stale
        /\ Send(Operation("query")) \/ running' = running
    BY <1>4 DEF ReceiveReload
  <2>2. form' \in Forms /\ form'.loaded = FALSE /\ form'.options = form.options
    BY <2>1, FormKept DEF Forms
  <2>3. Is(running, "save")' => Is(running, "save") /\ running' = running
    <3>1. Operation("query").kind # "save"
      BY DEF Operation
    <3>2. CASE running' = running
      BY <3>2 DEF Is
    <3>. QED  BY <2>1, <3>1, <3>2, SendFacts
  <2>4. OptionsFit'
    BY <2>2, FormKept DEF OptionsFit
  <2>. QED  BY <1>1, <2>1, <2>2, <2>3, <2>4, QuietStep
<1>. QED  BY <1>2, <1>3, <1>4 DEF Receive

LEMMA QueryResponseStep ==
  ASSUME IInv, NEW q \in asked, QueryResponse(q)
  PROVE  IInv'
<1>1. /\ UNCHANGED <<row, running, answer, stale, misled, saved>>
      /\ Is(running, "save")' => Is(running, "save") /\ running' = running
      /\ Is(answer, "query")' <=> Is(answer, "query")
      /\ \A r \in asked' : r.parent \in Values
  BY FormKept DEF QueryResponse, history, Is
<1>2. PICK options \in [of : Values, list : SUBSET Children] :
        /\ \A c \in options.list : Fits(options.of, c)
        /\ form' = form \/ form' = [form EXCEPT !.options = options]
  <2> DEFINE options == [of |-> q.parent, list |-> {c \in Children : Fits(q.parent, c)}]
  <2>1. options \in [of : Values, list : SUBSET Children]
    BY FormKept
  <2>2. \A c \in options.list : Fits(options.of, c)
    OBVIOUS
  <2>3. form' = form \/ form' = [form EXCEPT !.options = options]
    BY DEF QueryResponse
  <2>. HIDE DEF options
  <2>. QED  BY <2>1, <2>2, <2>3
<1>3. /\ form' \in Forms /\ form'.loaded = form.loaded /\ form'.origin = form.origin
      /\ form'.updated = form.updated /\ form'.update = form.update
      /\ form'.options = form.options \/ form'.options = options
  BY <1>2, FormKept DEF Forms
<1>4. OptionsFit' /\ (Whole(form) => Whole(form'))
  BY <1>2, <1>3, FormKept DEF OptionsFit, Whole
<1>. QED  BY <1>1, <1>3, <1>4, FormKept, QuietStep

LEMMA SearchStep ==
  ASSUME IInv, Shown, Search
  PROVE  IInv'
<1>1. /\ UNCHANGED <<row, form, running, answer, stale, misled, saved>>
      /\ asked' = asked \cup {[n |-> searches, parent |-> form.updated.fields["parent"]]}
  BY DEF Search, history
<1>2. form.updated.fields["parent"] \in Values
  BY FormData DEF Fields
<1>3. /\ \A q \in asked' : q.parent \in Values
      /\ Is(running, "save")' <=> Is(running, "save")
      /\ Is(answer, "query")' <=> Is(answer, "query")
      /\ OptionsFit' /\ (Whole(form) => Whole(form'))
  BY <1>1, <1>2, FormKept DEF Is, OptionsFit, Whole
<1>. QED  BY <1>1, <1>3, FormKept, QuietStep

\* The changes that are sent make the row what the form shows, if it still has
\* the version they were made from.
LEMMA DoOperationStep ==
  ASSUME IInv, Shown, DoOperation
  PROVE  IInv'
<1>1. PICK op : op = [Operation("save") EXCEPT !.update = form.update,
                        !.seen = Seen(form.updated), !.stale = stale]
  OBVIOUS
<1>2. /\ UNCHANGED <<row, form, answer, asked, stale, misled, saved>>
      /\ running' = op \/ running' = running
  BY <1>1 DEF DoOperation, history, Send
<1>3. op.update = form.update /\ op.seen = Seen(form.updated) /\ op.stale = stale
  BY <1>1 DEF Operation
<1>4. form.update \in Changes \cup {Nothing}
  BY FormData DEF Forms
<1>5. Types'
  BY <1>2, <1>3, <1>4 DEF IInv, Types, Is
<1>6. FormFits' /\ AnswerFits'
  BY <1>2 DEF IInv, FormFits, AnswerFits, FitsRow, Whole, Is
<1>7. SaveFits'
  <2>1. CASE running' = running
    BY <1>2, <2>1 DEF IInv, SaveFits, Is
  <2>2. CASE running' = op
    <3> SUFFICES ASSUME ~stale, form.update # Nothing
                 PROVE  /\ form.update.version <= row.version
                        /\ form.update.version = row.version =>
                             /\ Seen(Apply(form.update, row)) = Seen(form.updated)
                             /\ ~misled => Legal(Apply(form.update, row))
      BY <1>2, <1>3, <2>2 DEF SaveFits, Is
    <3>1. PICK u \in Changes, o \in Data, d \in Data :
            u = form.update /\ o = form.origin /\ d = form.updated
      BY <1>4, FormData
    <3>2. FitsRow(o) /\ Differ(u, o, d)
      BY <3>1 DEF IInv, FormFits, Whole, Shown
    <3>3. u.version = o.version
      BY <3>2 DEF Differ
    <3>4. u.version <= row.version /\ (u.version = row.version => o = row)
      BY <3>2, <3>3 DEF FitsRow
    <3>5. Seen(Apply(u, o)) = Seen(d) /\ Apply(u, o).fields = d.fields
      BY <3>2, DifferMeans
    <3>6. ~misled => Legal(Apply(u, o))
      BY <3>1, <3>5, FormData DEF Legal
    <3>. QED  BY <3>1, <3>4, <3>5, <3>6
  <2>. QED  BY <1>2, <2>1, <2>2
<1>8. AllLegal' /\ OptionsFit' /\ SavedAsShown'
  BY <1>2 DEF IInv, AllLegal, OptionsFit, SavedAsShown, Legal, Is
<1>. QED  BY <1>5, <1>6, <1>7, <1>8 DEF IInv

LEMMA FetchStep ==
  ASSUME IInv, Fetch
  PROVE  IInv'
<1>1. /\ UNCHANGED <<row, form, asked, stale, misled, saved>>
      /\ running' = Nothing /\ answer' = Message(running.kind)
  BY DEF Fetch, Done, history
<1>2. answer'.data = row
  BY <1>1 DEF Message
<1>3. row \in Data /\ InDatabase(row) /\ (~misled /\ ~stale => Legal(row))
  BY DEF IInv, Types, AllLegal
<1>4. row.version \in Nat
  BY <1>3, DataParts
<1>5. FitsRow(row)
  BY <1>4 DEF FitsRow
<1>6. ~Is(running, "save")' /\ OptionsFit' /\ (Whole(form) => Whole(form'))
  BY <1>1, FormKept DEF Is, OptionsFit, Whole
<1>. QED  BY <1>1, <1>2, <1>3, <1>5, <1>6, FormKept, QuietStep

LEMMA EndStep ==
  ASSUME IInv, Refuse \/ Reload \/ UNCHANGED vars
  PROVE  IInv'
<1>1. /\ UNCHANGED <<row, form, asked, stale, misled, saved>>
      /\ running' = Nothing \/ running' = running
      /\ answer' = answer \/ answer' = Message("reload")
  BY DEF Refuse, Reload, Done, history, vars
<1>2. Message("reload").kind = "reload"
  BY DEF Message
<1>3. /\ Is(running, "save")' => Is(running, "save") /\ running' = running
      /\ Is(answer, "query")' => Is(answer, "query") /\ answer' = answer
      /\ OptionsFit' /\ (Whole(form) => Whole(form'))
  BY <1>1, <1>2, FormKept DEF Is, OptionsFit, Whole
<1>. QED  BY <1>1, <1>3, FormKept, QuietStep

\* A row that is saved gets a version that no form has loaded.
LEMMA NewVersion ==
  ASSUME IInv, row'.version = row.version + 1
  PROVE  \A d : d.version \in Nat /\ FitsRow(d) =>
           d.version <= row'.version /\ d.version # row'.version
<1>1. row.version \in Nat
  BY DataParts DEF IInv, Types
<1>. QED  BY <1>1 DEF FitsRow

LEMMA StoredFacts ==
  ASSUME NEW d \in Data
  PROVE  LET r == [Stored(d) EXCEPT !.version = @ + 1] IN
         /\ r \in Data /\ InDatabase(r)
         /\ r.version = d.version + 1 /\ r.fields = d.fields /\ Seen(r) = Seen(d)
<1>1. PICK table : table = [k \in DOMAIN d.table |-> [d.table[k] EXCEPT !.new = FALSE]]
  OBVIOUS
<1>2. \A k \in DOMAIN d.table :
        /\ table[k] \in [new : BOOLEAN, text : Strings]
        /\ table[k].new = FALSE /\ table[k].text = d.table[k].text
  <2>1. \A c \in Cell : LET c2 == [c EXCEPT !.new = FALSE] IN
          c2 \in Cell /\ c2.new = FALSE /\ c2.text = c.text
    BY DEF Cell
  <2>2. \A k \in DOMAIN d.table : d.table[k] \in Cell
    BY DataFacts DEF Cell
  <2>3. \A k \in DOMAIN d.table : table[k] = [d.table[k] EXCEPT !.new = FALSE]
    BY <1>1
  <2>. QED  BY <2>1, <2>2, <2>3 DEF Cell
<1>3. table \in Tables /\ DOMAIN table = DOMAIN d.table
  <2>1. table \in [DOMAIN d.table -> [new : BOOLEAN, text : Strings]]
    BY <1>1, <1>2
  <2>2. DOMAIN d.table \in SUBSET Keys
    BY DataFacts
  <2>. QED  BY <1>1, <2>1, <2>2 DEF Tables, Strings
<1>4. PICK r : r = [Stored(d) EXCEPT !.version = @ + 1]
  OBVIOUS
<1>5. r = [version |-> d.version + 1, fields |-> d.fields, table |-> table]
  BY <1>1, <1>4 DEF Stored, Data
<1>6. r \in Data
  BY <1>3, <1>5, DataParts, DataType
<1>7. InDatabase(r) /\ r.version = d.version + 1 /\ r.fields = d.fields
  BY <1>2, <1>3, <1>5 DEF InDatabase
<1>8. Seen(r) = Seen(d)
  BY <1>2, <1>3, <1>5 DEF Seen
<1>. QED  BY <1>4, <1>6, <1>7, <1>8

LEMMA SaveStep ==
  ASSUME IInv, Save
  PROVE  IInv'
<1>1. /\ Is(running, "save") /\ running.update # Nothing
      /\ running.update.version \in {Nothing, row.version}
      /\ UNCHANGED <<form, asked, stale, misled>>
      /\ running' = Nothing /\ (answer' = Nothing \/ answer' = Message("reload"))
  BY DEF Save, Is, Done
<1>2. PICK u \in Changes : u = running.update
  BY <1>1 DEF IInv, Types
<1>3. PICK a \in Data : a = Apply(u, row) /\ a.version = row.version
  BY ApplyFacts DEF IInv, Types
<1>4. row' = [Stored(a) EXCEPT !.version = @ + 1]
  BY <1>2, <1>3 DEF Save
<1>5. /\ row' \in Data /\ InDatabase(row')
      /\ row'.version = row.version + 1 /\ row'.fields = a.fields /\ Seen(row') = Seen(a)
  BY <1>3, <1>4, StoredFacts
<1>6. u.version = row.version
  BY <1>1, <1>2, ChangesFacts, FormAssumption
<1>7. ~running.stale => /\ Seen(a) = running.seen
                        /\ ~misled /\ ~stale => Legal(a)
  BY <1>1, <1>2, <1>3, <1>6, DataFacts DEF IInv, SaveFits, Types
<1>8. ~Is(running, "save")' /\ ~Is(answer, "query")'
  BY <1>1 DEF Is, Message
<1>9. Types'
  <2>1. InDatabase(row)'
    BY <1>5 DEF InDatabase
  <2>. QED  BY <1>1, <1>5, <1>8, <2>1 DEF IInv, Types
<1>10. FormFits'
  <2>1. form.loaded => form.origin.version \in Nat
    BY DataParts DEF IInv, Types
  <2>2. form.loaded /\ ~stale => FitsRow(form.origin) /\ Whole(form)
    BY DEF IInv, FormFits
  <2>3. form.loaded /\ ~stale =>
          form.origin.version <= row'.version /\ form.origin.version # row'.version
    BY <1>5, <2>1, <2>2, NewVersion
  <2>. QED  BY <1>1, <2>2, <2>3 DEF FormFits, FitsRow, Whole, InDatabase, Differ
<1>11. AnswerFits' /\ SaveFits'
  BY <1>8 DEF AnswerFits, SaveFits
<1>12. AllLegal'
  <2>1. ~misled /\ ~stale => Legal(a)
    BY <1>1, <1>7 DEF IInv, Types
  <2>2. Legal(a) => Legal(row')
    BY <1>5 DEF Legal
  <2>. QED  BY <1>1, <1>8, <2>1, <2>2 DEF IInv, AllLegal, Legal
<1>13. OptionsFit'
  BY <1>1 DEF IInv, OptionsFit
<1>14. SavedAsShown'
  <2>1. saved' = [row |-> Seen(row'), seen |-> running.seen, stale |-> running.stale]
    BY DEF Save
  <2>. QED  BY <1>5, <1>7, <2>1 DEF SavedAsShown
<1>. QED  BY <1>9, <1>10, <1>11, <1>12, <1>13, <1>14 DEF IInv

LEMMA OtherSavesStep ==
  ASSUME IInv, NEW p \in Parents \cup {Nothing}, NEW c \in Children \cup {Nothing}, OtherSaves(p, c)
  PROVE  IInv'
<1>1. /\ UNCHANGED <<form, running, answer, asked, stale, misled, saved>>
      /\ Fits(p, c)
      /\ row' = [row EXCEPT !.version = @ + 1, !.fields = [parent |-> p, child |-> c]]
  BY DEF OtherSaves, history
<1>2. PICK fields \in [Fields -> Values] :
        fields = [parent |-> p, child |-> c] /\ fields["parent"] = p /\ fields["child"] = c
  <2> DEFINE fields == [parent |-> p, child |-> c]
  <2>1. DOMAIN fields = Fields /\ fields["parent"] = p /\ fields["child"] = c
    BY DEF Fields
  <2>2. fields = [x \in Fields |-> fields[x]]
    BY <2>1
  <2>3. p \in Values /\ c \in Values /\ \A x \in Fields : x = "parent" \/ x = "child"
    BY DEF Values, Fields
  <2>. HIDE DEF fields
  <2>4. \A x \in Fields : fields[x] \in Values
    BY <2>1, <2>3
  <2>5. fields \in [Fields -> Values]
    BY <2>2, <2>4
  <2>. QED  BY <2>1, <2>5 DEF fields
<1>3. row \in Data /\ InDatabase(row)
  BY DEF IInv, Types
<1>4. row' = [version |-> row.version + 1, fields |-> fields, table |-> row.table]
  BY <1>1, <1>2, <1>3 DEF Data
<1>5. row' \in Data /\ InDatabase(row)' /\ row'.version = row.version + 1 /\ Legal(row)'
  <2>1. row.version + 1 \in Nat /\ row.table \in Tables
    BY <1>3, DataParts
  <2>2. row' \in Data
    BY <1>4, <2>1, DataType
  <2>. QED  BY <1>1, <1>2, <1>3, <1>4, <2>2 DEF InDatabase, Legal
<1>6. /\ Is(running, "save")' <=> Is(running, "save")
      /\ Is(answer, "query")' <=> Is(answer, "query")
  BY <1>1 DEF Is
<1>7. Types'
  BY <1>1, <1>5, <1>6 DEF IInv, Types, InDatabase
<1>8. FormFits'
  <2>1. form.loaded => form.origin.version \in Nat
    BY DataParts DEF IInv, Types
  <2>2. form.loaded /\ ~stale => FitsRow(form.origin) /\ Whole(form)
    BY DEF IInv, FormFits
  <2>3. form.loaded /\ ~stale =>
          form.origin.version <= row'.version /\ form.origin.version # row'.version
    BY <1>5, <2>1, <2>2, NewVersion
  <2>. QED  BY <1>1, <2>2, <2>3 DEF FormFits, FitsRow, Whole, InDatabase, Differ
<1>9. AnswerFits'
  <2>1. Is(answer, "query") => answer.data.version \in Nat /\ FitsRow(answer.data)
    BY DataParts DEF IInv, Types, AnswerFits
  <2>2. Is(answer, "query") =>
          answer.data.version <= row'.version /\ answer.data.version # row'.version
    BY <1>5, <2>1, NewVersion
  <2>. QED  BY <1>1, <1>6, <2>2 DEF AnswerFits, FitsRow
<1>10. SaveFits'
  <2> SUFFICES ASSUME Is(running, "save"), ~running.stale, running.update # Nothing
               PROVE  running.update.version <= row'.version /\ running.update.version # row'.version
    BY <1>1, <1>6 DEF SaveFits
  <2>1. running.update.version \in Nat /\ running.update.version <= row.version /\ row.version \in Nat
    BY ChangesFacts, DataParts DEF IInv, Types, SaveFits
  <2>. QED  BY <1>5, <2>1
<1>11. AllLegal'
  BY <1>1, <1>5, <1>6 DEF IInv, AllLegal, Legal
<1>12. OptionsFit' /\ SavedAsShown'
  BY <1>1 DEF IInv, OptionsFit, SavedAsShown
<1>. QED  BY <1>7, <1>8, <1>9, <1>10, <1>11, <1>12 DEF IInv

LEMMA NextIInv ==
  ASSUME IInv, [Next]_vars
  PROVE  IInv'
<1>1. CASE Show \/ Receive
  BY <1>1, ShowStep, ReceiveStep
<1>2. CASE User
  <2>1. Shown
    BY <1>2 DEF User
  <2>2. ASSUME NEW p \in Parents \cup {Nothing}, SetParent(p) PROVE IInv'
    BY <2>1, <2>2, SetParentStep
  <2>3. ASSUME NEW c \in Children \cup {Nothing}, SetChild(c) PROVE IInv'
    BY <2>1, <2>3, SetChildStep
  <2>4. ASSUME NEW k \in Keys, AddRow(k) \/ RemoveRow(k) \/ \E text \in Texts : EditRow(k, text)
        PROVE  IInv'
    BY <2>1, <2>4, TableStep
  <2>5. CASE Search \/ DoOperation
    BY <2>1, <2>5, SearchStep, DoOperationStep
  <2>. QED  BY <1>2, <2>2, <2>3, <2>4, <2>5 DEF User
<1>3. CASE \E q \in asked : QueryResponse(q)
  BY <1>3, QueryResponseStep
<1>4. CASE Fetch \/ Save \/ Refuse \/ Reload
  BY <1>4, FetchStep, SaveStep, EndStep
<1>5. CASE \E p \in Parents \cup {Nothing}, c \in Children \cup {Nothing} : OtherSaves(p, c)
  BY <1>5, OtherSavesStep
<1>6. CASE UNCHANGED vars
  BY <1>6, EndStep
<1>. QED  BY <1>1, <1>2, <1>3, <1>4, <1>5, <1>6 DEF Next

\* What is shown is what the changes make of the data that were loaded.
LEMMA WholeMeans ==
  ASSUME IInv
  PROVE  UpdateIsDifference
<1> SUFFICES ASSUME Shown, ~stale
             PROVE  IF form.update = Nothing THEN Seen(form.updated) = Seen(form.origin)
                    ELSE /\ Applies(form.update, form.origin)
                         /\ Seen(Apply(form.update, form.origin)) = Seen(form.updated)
  BY DEF UpdateIsDifference
<1>1. Whole(form)
  BY DEF IInv, FormFits, Shown
<1>2. CASE form.update = Nothing
  BY <1>1, <1>2 DEF Whole
<1>3. CASE form.update # Nothing
  <2>1. form.update \in Changes /\ form.origin \in Data /\ form.updated \in Data
    BY <1>3, FormData DEF Forms
  <2>. QED  BY <1>1, <1>3, <2>1, DifferMeans DEF Whole
<1>. QED  BY <1>2, <1>3

\* The strengthened invariant holds in every reachable state of the form and
\* the main frame (dataSlice.js, Form, FormHeader).
THEOREM SpecIInv == Spec => []IInv
<1>1. IInv /\ [Next]_vars => IInv'
  BY NextIInv
<1>. QED  BY InitIInv, <1>1, PTL DEF Spec

\* After any number of edits, answers and saves the changes that dataSlice.js
\* keeps are the difference of what is shown and what was loaded, for every
\* row and every table in it.
THEOREM SpecUpdateIsDifference == Spec => []UpdateIsDifference
<1>. QED  BY SpecIInv, WholeMeans, PTL

\* A save that the service accepts by its version leaves the row as the user
\* saw it, whatever number of other users save the row meanwhile.
THEOREM SpecSavedAsShown == Spec => []SavedAsShown
<1>1. IInv => SavedAsShown
  BY DEF IInv
<1>. QED  BY SpecIInv, <1>1, PTL

\* The child belongs to its parent if there is one, in the form and in the row,
\* for every hierarchy of values, any order of the answers with options, and
\* whenever a selection is cleared (SingleSelectForManyToOne).
THEOREM SpecChildOfParent == Spec => []ChildOfParent
<1>1. IInv => ChildOfParent
  BY DEF IInv, AllLegal, ChildOfParent, Shown
<1>. QED  BY SpecIInv, <1>1, PTL
=============================================================================
