-------------------------------- MODULE Query --------------------------------
(* The reading side of src/service/data. A query is a chain of SQL           *)
(* statements without a transaction: the filter data of the user's datasets, *)
(* the count, the rows, and for every related field, at any depth, a query   *)
(* of its own whose rows are merged in memory. Rows change between them.     *)
(*                                                                           *)
(* The models are item (many-to-one team, many-to-many tags through link,    *)
(* one-to-many notes, files, and a tree by parent), team, tag, note, link    *)
(* and file; links are rows with the IDs of both sides.                      *)
EXTENDS Integers, Sequences, FiniteSets, SequencesExt

CONSTANTS
  RolesOf,      \* user: the roles of the account
  Datasets,     \* the datasets of model item: sequence of records, see HasRight
  FilterData,   \* the queries the datasets' variables are taken from
  Requests,     \* what clients ask: [filter, fields, page]
  Databases,    \* the tables at the beginning
  Rows,         \* model: the rows that may be written
  DefaultLimit, \* 1000 in the code
  MaxWrites, MaxFaults,
  MaxDepth      \* nested queries a goroutine's stack has room for

Users == DOMAIN RolesOf
Model == {"item", "team", "tag", "note", "link", "file"}
Null == 0
Text == -1      \* the text of a variable, where it was not replaced
NoPage == <<>>
Nothing == {}   \* no filter: nil, or a value that is not read as an object

VARIABLES
  db,       \* the tables, committed: model -> set of rows
  pc,       \* "idle", "run", "done", "refused", "panic" or "overflow"
  user, req,
  item,     \* the filter data query at work, or one more: the main query
  data,     \* the results of filter data: model -> rows
  stack,    \* the query and its nested queries
  answer, writes, faults,
  ever,     \* history: model -> rows that were there at some moment of the query
  always,   \* history: model -> rows that were there all the time
  cut,      \* history: a limit the client did not set kept rows back, or one of a nested query
  looped    \* history: a row was its own ancestor

vars == <<db, pc, user, req, item, data, stack, answer, writes, faults, ever, always, cut, looped>>

-----------------------------------------------------------------------------
(* Filters. A filter is a set of conditions that all have to hold: "and" and *)
(* "or" over a list of filters, or an operator on a field with values, some  *)
(* of them given by variables.                                               *)

Field(col, op, vals, paths) ==
  [key |-> "field", col |-> col, op |-> op, vals |-> vals, vars |-> paths]
And(filters) == [key |-> "and", of |-> filters]
Or(filters) == [key |-> "or", of |-> filters]
In(col, ids) == Field(col, "in", ids, {})

\* FilterToSQLWhere: an empty list and an operator that is not known are
\* errors; an empty IN list is an error of MySQL.
RECURSIVE WellFormed(_)
WellFormed(filter) ==
  \A c \in filter :
    IF c.key = "field"
    THEN /\ c.op \in {"eq", "ne", "in", "is", "not"}
         /\ c.op = "in" => c.vals \cup c.vars # {}
    ELSE c.of # <<>> /\ \A i \in DOMAIN c.of : WellFormed(c.of[i])

\* An IN on a virtual field is one on the ID, for tags through a subselect.
MeetsIn(c, vals, row, fields) ==
  LET virtual(type) == \E i \in DOMAIN fields : fields[i].name = c.col /\ fields[i].type = type
  IN  CASE virtual("many2many") -> \E l \in db.link : l.item = row.id /\ l.tag \in vals
        [] virtual("one2many") -> row.id \in vals
        [] OTHER -> row[c.col] # Null /\ row[c.col] \in vals

Meets(c, row, fields) ==
  LET vals == IF c.vars = {} THEN c.vals ELSE c.vals \cup {Text}
  IN  CASE c.op = "eq" -> row[c.col] # Null /\ row[c.col] \in vals
        [] c.op = "ne" -> row[c.col] # Null /\ row[c.col] \notin vals
        [] c.op = "in" -> MeetsIn(c, vals, row, fields)
        [] c.op = "is" -> row[c.col] = Null
        [] c.op = "not" -> row[c.col] # Null

RECURSIVE Holds(_, _, _)
Holds(filter, row, fields) ==
  \A c \in filter :
    CASE c.key = "field" -> Meets(c, row, fields)
      [] c.key = "and" -> \A i \in DOMAIN c.of : Holds(c.of[i], row, fields)
      [] c.key = "or" -> \E i \in DOMAIN c.of : Holds(c.of[i], row, fields)

-----------------------------------------------------------------------------
(* Results: a row as it was read, and the results merged into its fields.    *)

\* row[col], unless there is no such column or a result has taken its place.
Col(r, col) == IF col \in DOMAIN r.row /\ col \notin DOMAIN r.rel THEN r.row[col] ELSE Null
GetFieldValues(list, col) == {Col(list[i], col) : i \in DOMAIN list} \ {Null}

\* getPathData: the values at the end of a path through nested results.
RECURSIVE PathData(_, _)
PathData(list, path) ==
  IF Len(path) = 1 THEN GetFieldValues(list, path[1])
  ELSE UNION {PathData(list[i].rel[path[1]].list, Tail(path)) :
                i \in {i \in DOMAIN list : path[1] \in DOMAIN list[i].rel}}

\* getReplaceString: the user, or what the filter data has at the path; a
\* path that leads to nothing is left as it is.
ReplaceString(path, u, found) ==
  IF path = <<"userID">> THEN {u}
  ELSE LET vals == IF path[1] \in DOMAIN found THEN PathData(found[path[1]], Tail(path)) ELSE {}
       IN  IF vals = {} THEN {Text} ELSE vals

RECURSIVE ReplaceVars(_, _, _), HasVars(_)
ReplaceVars(filter, u, found) ==
  {IF c.key = "field"
   THEN [c EXCEPT !.vals = @ \cup UNION {ReplaceString(p, u, found) : p \in c.vars}, !.vars = {}]
   ELSE [c EXCEPT !.of = [i \in DOMAIN @ |-> ReplaceVars(@[i], u, found)]] : c \in filter}
HasVars(filter) ==
  \E c \in filter :
    IF c.key = "field" THEN c.vars # {} ELSE \E i \in DOMAIN c.of : HasVars(c.of[i])

-----------------------------------------------------------------------------
(* The datasets of a user.                                                   *)

HasRight(roles, u) == "*" \in roles \/ roles \cap RolesOf[u] # {}

GetUserDatasets(u) ==
  SelectSeq(Datasets, LAMBDA d : HasRight(d.mutationRoles, u) \/ HasRight(d.queryRoles, u))

\* MergeDatasets: a dataset without a filter or with all fields opens the
\* others. Two filters or more become a list of Go maps, which only
\* ProcessFilter's way through JSON turns into what the conversion reads.
MergeDatasets(ds) ==
  LET filters == [i \in DOMAIN ds |-> ds[i].filter] IN
  [filter |-> IF Nothing \in ToSet(filters) THEN Nothing
              ELSE IF Len(ds) = 1 THEN filters[1] ELSE {Or(filters)},
   gomaps |-> Len(ds) > 1,
   fields |-> UNION {ds[i].fields : i \in DOMAIN ds},
   process |-> \E i \in DOMAIN ds : ds[i].process,
   data |-> IF \E i \in DOMAIN ds : ds[i].data THEN FilterData ELSE <<>>]

Dataset(u) == MergeDatasets(GetUserDatasets(u))
ItemsOf(set) == IF set.filter # Nothing /\ set.process THEN set.data ELSE <<>>

\* ProcessFilter and what the conversion makes of the outcome.
ProcessFilter(set, u, found) ==
  CASE set.process /\ HasVars(set.filter) -> ReplaceVars(set.filter, u, found)
    [] ~(set.process /\ HasVars(set.filter)) /\ set.filter # Nothing /\ set.gomaps -> {Or(<<>>)}
    [] OTHER -> set.filter

QueryWhere(filter, permission) ==
  CASE permission = Nothing -> filter
    [] permission # Nothing /\ filter = Nothing -> permission
    [] OTHER -> {And(<<filter, permission>>)}

-----------------------------------------------------------------------------
(* One query: count, rows, then its related fields in order.                 *)

Columns(fields, permitted) ==
  {fields[i].name : i \in {i \in DOMAIN fields :
                             /\ fields[i].type \in {"plain", "many2one"}
                             /\ permitted \cap {"*", fields[i].name} # {}}}

Query(model, filter, fields, page, noCount, permitted) ==
  [model |-> model, filter |-> filter, fields |-> fields, page |-> page,
   columns |-> Columns(fields, permitted), at |-> IF noCount THEN "rows" ELSE "count",
   list |-> <<>>, total |-> 0, next |-> 1]

\* getSqlParam finds nothing wrong with it; a page that cannot be is an error.
RightPage(page) == page # NoPage => page.size >= 0 /\ page.current > 0

Sendable(q) == q.columns # {} /\ WellFormed(q.filter) /\ RightPage(q.page)

\* Mutation of QueryLimit: pages are counted from zero.
QueryLimitFromZero(page) ==
  IF page = NoPage THEN <<0, DefaultLimit>>
  ELSE <<page.current * page.size, page.size>>

QueryLimit(page) ==
  IF page = NoPage THEN <<0, DefaultLimit>>
  ELSE <<(page.current - 1) * page.size, page.size>>

Selected(q) == {row \in db[q.model] : Holds(q.filter, row, q.fields)}

\* getData: ordered by ID.
GetData(q) ==
  LET limit == QueryLimit(q.page)
      rows == SetToSortSeq(Selected(q), LAMBDA a, b : a.id < b.id)
      shown == SelectSeq([i \in DOMAIN rows |-> <<i, rows[i]>>],
                         LAMBDA p : p[1] > limit[1] /\ p[1] <= limit[1] + limit[2])
  IN  [i \in DOMAIN shown |->
         [row |-> [c \in q.columns |-> shown[i][2][c]], rel |-> <<>>]]

\* Mutation of ChildColumn: the children of a tree are found by their own ID.
ChildColumnID(f) == IF f.type = "tree" THEN "id" ELSE f.by

ChildColumn(f) == f.by

Nested(f, model, filter, fields) == Query(model, filter, fields, f.page, FALSE, {"*"})

\* The queries of related fields. The filter of a many-to-one field is put
\* into a list as a pointer, which the conversion reads as no condition.
QueryManyToOne(q, f) ==
  Nested(f, f.model, {And(<<{In("id", GetFieldValues(q.list, f.name))}, Nothing>>)}, f.fields)

\* The links, whose tags are a many-to-one field with all that f asks for.
QueryManyToMany(q, f) ==
  LET tag == [f EXCEPT !.name = "tag", !.type = "many2one"]
  IN  Nested(f, "link", {In("item", GetFieldValues(q.list, "id"))},
             <<[name |-> "item", type |-> "plain"], tag>>)

QueryOneToMany(q, f) ==
  LET children == In(ChildColumn(f), GetFieldValues(q.list, "id"))
  IN  IF f.type = "tree" THEN Nested(f, f.model, {children}, q.fields)
      ELSE Nested(f, f.model, {And(<<{children}, f.filter>>)}, f.fields)

QueryFile(q, f) ==
  Nested(f, "file",
         {And(<<{In("row", GetFieldValues(q.list, "id"))}, {Field("field", "eq", {f.field}, {})}>>)},
         <<[name |-> "id", type |-> "plain"], [name |-> "row", type |-> "plain"]>>)

RelatedQuery(q, f) ==
  CASE f.type = "many2one" -> QueryManyToOne(q, f)
    [] f.type = "many2many" -> QueryManyToMany(q, f)
    [] f.type \in {"one2many", "tree"} -> QueryOneToMany(q, f)
    [] f.type = "file" -> QueryFile(q, f)

-----------------------------------------------------------------------------
(* Merging the rows of a nested query into the rows it was asked for.        *)

Put(r, name, list) == [r EXCEPT !.rel = [n \in DOMAIN @ \cup {name} |->
                                           IF n = name THEN [total |-> Len(list), list |-> list]
                                           ELSE @[n]]]

\* mergeResult of QueryManyToOne: fields that are null stay what they are.
MergeManyToOne(list, found, f) ==
  [i \in DOMAIN list |->
     LET id == Col(list[i], f.name) IN
     IF found = <<>> \/ id = Null THEN list[i]
     ELSE Put(list[i], f.name, SelectSeq(found, LAMBDA r : Col(r, "id") = id))]

\* Mutation of MergeOneToMany: the first row gets what was found for all.
MergeOneToManyFirst(list, found, f, col) ==
  [i \in DOMAIN list |->
     IF found = <<>> THEN list[i]
     ELSE Put(list[i], f.name,
              IF i = 1 THEN found ELSE SelectSeq(found, LAMBDA r : Col(r, col) = Col(list[i], "id")))]

\* mergeResult of QueryOneToMany.
MergeOneToMany(list, found, f, col) ==
  [i \in DOMAIN list |->
     IF found = <<>> THEN list[i]
     ELSE Put(list[i], f.name, SelectSeq(found, LAMBDA r : Col(r, col) = Col(list[i], "id")))]

\* mergeResult of QueryFile.
MergeFile(list, found, f) == MergeOneToMany(list, found, f, "row")

\* Mutation of MergeManyToMany: a row without links stops the merging.
MergeManyToManyStops(list, found, f) ==
  LET links(r) == SelectSeq(found, LAMBDA l : Col(l, "item") = Col(r, "id") /\ "tag" \in DOMAIN l.rel)
  IN  [i \in DOMAIN list |->
         IF found = <<>> \/ \E j \in 1..i : links(list[j]) = <<>> THEN list[i]
         ELSE Put(list[i], f.name, FlattenSeq([j \in DOMAIN links(list[i]) |->
                                                 links(list[i])[j].rel["tag"].list]))]

\* mergeResult of QueryManyToMany: what the links' many-to-one field holds.
MergeManyToMany(list, found, f) ==
  LET links(r) == SelectSeq(found, LAMBDA l : Col(l, "item") = Col(r, "id") /\ "tag" \in DOMAIN l.rel)
  IN  [i \in DOMAIN list |->
         IF found = <<>> THEN list[i]
         ELSE Put(list[i], f.name, FlattenSeq([j \in DOMAIN links(list[i]) |->
                                                 links(list[i])[j].rel["tag"].list]))]

Merge(q, found) ==
  LET f == q.fields[q.next]
      merged == CASE f.type = "many2one" -> MergeManyToOne(q.list, found, f)
                  [] f.type = "many2many" -> MergeManyToMany(q.list, found, f)
                  [] f.type \in {"one2many", "tree"} -> MergeOneToMany(q.list, found, f, ChildColumn(f))
                  [] f.type = "file" -> MergeFile(q.list, found, f)
  IN  [q EXCEPT !.list = merged, !.next = @ + 1]

\* What happens in memory until the next statement: fields without a model of
\* their own and many-to-one fields without values are passed over, the next
\* related field starts a query, and a query that is through returns.
RECURSIVE Resume(_)
Resume(s) ==
  LET q == Last(s)
      f == q.fields[q.next]
      nested == RelatedQuery(q, f)
      skipped == Append(Front(s), [q EXCEPT !.next = @ + 1])
  IN  CASE q.list = <<>> \/ q.next > Len(q.fields) ->
             IF Len(s) = 1 THEN [end |-> "done", stack |-> s]
             ELSE Resume(Append(Front(Front(s)), Merge(s[Len(s) - 1], q.list)))
        [] q.list # <<>> /\ q.next <= Len(q.fields) ->
             CASE f.type = "plain" -> Resume(skipped)
               [] f.type = "many2one" /\ GetFieldValues(q.list, f.name) = {} -> Resume(skipped)
               [] f.type \notin {"plain", "many2one"} /\ GetFieldValues(q.list, "id") = {} ->
                    [end |-> "panic", stack |-> <<>>]     \* values[0 : -1]
               [] OTHER -> IF ~Sendable(nested) THEN [end |-> "refused", stack |-> <<>>]
                           ELSE IF Len(s) = MaxDepth THEN [end |-> "overflow", stack |-> <<>>]
                           ELSE [end |-> "run", stack |-> Append(s, nested)]

-----------------------------------------------------------------------------
(* The machine: one step is one statement and what follows in memory.        *)

\* A row of the tree is its own ancestor.
Cyclic(tables) ==
  \E s \in SUBSET {row.id : row \in tables.item} \ {{}} :
    \A id \in s : \E row \in tables.item : row.id = id /\ row.parent \in s

MainQuery(u, r, set, found) ==
  Query("item", QueryWhere(r.filter, ProcessFilter(set, u, found)), r.fields, r.page, FALSE,
        set.fields)

\* The filter data query number n, or the main query after the last one.
StartQuery(u, r, set, n, found) ==
  LET items == ItemsOf(set) IN
  IF n > Len(items) THEN MainQuery(u, r, set, found)
  ELSE Query(items[n].model, ReplaceVars(items[n].filter, u, found), items[n].fields, NoPage,
             TRUE, {"*"})

Enter(u, r, n, found) ==
  LET q == StartQuery(u, r, Dataset(u), n, found) IN
  /\ item' = n /\ data' = found
  /\ pc' = IF Sendable(q) THEN "run" ELSE "refused"
  /\ stack' = IF Sendable(q) THEN <<q>> ELSE <<>>

\* DataController.query up to the first statement.
Begin(u, r) ==
  /\ pc = "idle"
  /\ user' = u /\ req' = [r EXCEPT !.filter = ReplaceVars(@, u, <<>>)]
  /\ ever' = db /\ always' = db /\ cut' = FALSE /\ looped' = Cyclic(db)
  /\ IF GetUserDatasets(u) = <<>>        \* ResultNoPermission
     THEN pc' = "refused" /\ UNCHANGED <<item, data, stack>>
     ELSE Enter(u, req', 1, <<>>)
  /\ UNCHANGED <<db, answer, writes, faults>>

\* A query has returned to the top.
Return(s) ==
  IF item <= Len(ItemsOf(Dataset(user)))
  THEN /\ Enter(user, req, item + 1,
                [m \in DOMAIN data \cup {s[1].model} |-> IF m = s[1].model THEN s[1].list ELSE data[m]])
       /\ UNCHANGED answer
  ELSE /\ pc' = "done" /\ stack' = <<>>
       /\ answer' = [list |-> s[1].list, total |-> s[1].total]
       /\ UNCHANGED <<item, data>>

Proceed(s) ==
  LET next == Resume(s) IN
  IF next.end = "done" THEN Return(next.stack)
  ELSE /\ pc' = next.end /\ stack' = next.stack /\ UNCHANGED <<item, data, answer>>

GetCount ==
  /\ pc = "run" /\ Last(stack).at = "count"
  /\ LET q == Last(stack)
         n == Cardinality(Selected(q))
         counted == [q EXCEPT !.total = n, !.at = "rows"]
     IN  IF n > 0 /\ (q.page = NoPage \/ q.page.size > 0)
         THEN stack' = Append(Front(stack), counted) /\ UNCHANGED <<pc, item, data, answer>>
         ELSE Proceed(Append(Front(stack), counted))
  /\ UNCHANGED <<db, user, req, writes, faults, ever, always, cut, looped>>

GetRows ==
  /\ pc = "run" /\ Last(stack).at = "rows"
  /\ LET q == Last(stack) IN
     /\ Proceed(Append(Front(stack), [q EXCEPT !.list = GetData(q)]))
     /\ cut' = (cut \/ /\ Len(stack) > 1 \/ q.page = NoPage
                       /\ Len(GetData(q)) < Cardinality(Selected(q)))
  /\ UNCHANGED <<db, user, req, writes, faults, ever, always, looped>>

StatementFails ==       \* ResultSQLError
  /\ pc = "run" /\ faults < MaxFaults
  /\ pc' = "refused" /\ stack' = <<>> /\ faults' = faults + 1
  /\ UNCHANGED <<db, user, req, item, data, answer, writes, ever, always, cut, looped>>

\* Another request commits: a row is written, in place of the one with its ID,
\* or deleted.
Write(m, old, new) ==
  /\ pc = "run" /\ writes < MaxWrites
  /\ db' = [db EXCEPT ![m] = (@ \ old) \cup new]
  /\ db' # db /\ writes' = writes + 1
  /\ ever' = [ever EXCEPT ![m] = @ \cup new]
  /\ always' = [always EXCEPT ![m] = @ \ (old \ new)]
  /\ looped' = (looped \/ Cyclic(db'))
  /\ UNCHANGED <<pc, user, req, item, data, stack, answer, faults, cut>>

Init ==
  /\ db \in Databases /\ ever = db /\ always = db
  /\ pc = "idle" /\ user \in Users /\ req \in Requests
  /\ item = 0 /\ data = <<>> /\ stack = <<>> /\ answer = [list |-> <<>>, total |-> 0]
  /\ writes = 0 /\ faults = 0 /\ cut = FALSE /\ looped = FALSE

Next ==
  \/ Begin(user, req)
  \/ GetCount \/ GetRows \/ StatementFails
  \/ \E m \in Model : \E row \in Rows[m] : Write(m, {x \in db[m] : x.id = row.id}, {row})
  \/ \E m \in Model : \E row \in db[m] : Write(m, {row}, {})

Spec == Init /\ [][Next]_vars

-----------------------------------------------------------------------------
(* Properties. What an answer ought to be is said of tables as a whole:      *)
(* "ever" gives what it may hold, "always" what it must hold.                *)

\* What the variable at a path stands for.
Values(path, tables) ==
  IF path = <<"userID">> THEN {user}
  ELSE {row[path[2]] : row \in {row \in tables[path[1]] :
          \E i \in DOMAIN FilterData : /\ FilterData[i].model = path[1]
                                       /\ row[FilterData[i].userColumn] = user}}

RECURSIVE Fits(_, _, _)
Fits(filter, row, tables) ==
  \A c \in filter :
    LET vals == c.vals \cup UNION {Values(p, tables) : p \in c.vars} IN
    CASE c.key = "and" -> \A i \in DOMAIN c.of : Fits(c.of[i], row, tables)
      [] c.key = "or" -> \E i \in DOMAIN c.of : Fits(c.of[i], row, tables)
      [] c.key = "field" /\ c.op \in {"is", "not"} -> (row[c.col] = Null) = (c.op = "is")
      [] c.key = "field" /\ c.op = "ne" -> row[c.col] \notin vals \cup {Null}
      [] c.key = "field" /\ c.col = "tags" -> \E l \in tables.link : l.item = row.id /\ l.tag \in vals
      [] OTHER -> row[c.col] \in vals \ {Null}

\* The request asks for the row, and a dataset of the user shows it.
Admits(row, tables) ==
  /\ Fits(req.filter, row, tables)
  /\ \E i \in DOMAIN GetUserDatasets(user) : Fits(GetUserDatasets(user)[i].filter, row, tables)

\* The row x of f's model belongs to the row of the item model, or of another.
Belongs(x, row, f, tables) ==
  CASE f.type = "many2one" -> x.id = row[f.name]
    [] f.type = "many2many" -> \E l \in tables.link : l.item = row.id /\ l.tag = x.id
    [] f.type = "one2many" -> x[f.by] = row.id /\ Fits(f.filter, x, tables)
    [] f.type = "tree" -> x[f.by] = row.id
    [] f.type = "file" -> x.row = row.id /\ x.field = f.field

Relations(fields) == {f \in ToSet(fields) : f.type # "plain"}
FieldsOf(f, fields) == IF f.type = "tree" THEN fields ELSE f.fields
IsRead(r, row) == \A c \in DOMAIN r.row : r.row[c] = row[c]

RECURSIVE Sound(_, _, _), Complete(_, _, _)
Sound(r, row, fields) ==
  \A f \in {f \in Relations(fields) : f.name \in DOMAIN r.rel} :
    LET found == r.rel[f.name] IN
    /\ found.total = Len(found.list)
    /\ \A i \in DOMAIN found.list : \E x \in ever[f.model] :
         /\ IsRead(found.list[i], x) /\ Belongs(x, row, f, ever)
         /\ Sound(found.list[i], x, FieldsOf(f, fields))

Complete(r, row, fields) ==
  \A f \in {f \in Relations(fields) : f.type = "many2one" => f.name \in DOMAIN r.row} :
    \A x \in {x \in always[f.model] : Belongs(x, row, f, always)} :
      /\ f.name \in DOMAIN r.rel
      /\ \E i \in DOMAIN r.rel[f.name].list :
           LET found == r.rel[f.name].list[i] IN
           Col(found, "id") = x.id /\ Complete(found, x, FieldsOf(f, fields))

\* Query.Execute, mergeResult, ProcessFilter: every row of an answer was there
\* while the query ran, was asked for and permitted, and every row merged into
\* it, at any depth, belonged to it, whatever was written in between.
AnswerIsSound ==
  pc = "done" =>
    \A i \in DOMAIN answer.list : \E row \in ever.item :
      /\ IsRead(answer.list[i], row) /\ Admits(row, ever)
      /\ Sound(answer.list[i], row, req.fields)

\* The same code: what was there all the time, asked for and permitted, is in
\* the answer, at every depth, unless a limit kept rows back.
AnswerIsComplete ==
  pc = "done" /\ req.page = NoPage /\ ~cut =>
    \A row \in {row \in always.item : Admits(row, always)} :
      \E i \in DOMAIN answer.list :
        Col(answer.list[i], "id") = row.id /\ Complete(answer.list[i], row, req.fields)

\* getQueryLimit, getCountAndSummaries: if nothing was written, a page holds
\* the rows that as many others come before as its number says, in the order
\* of their IDs, and the total is theirs on all pages.
PageIsExact ==
  pc = "done" /\ writes = 0 =>
    LET rows == {row \in db.item : Admits(row, db)}
        before(row) == Cardinality({x \in rows : x.id < row.id})
        shown == {row \in rows :
                    IF req.page = NoPage THEN before(row) < DefaultLimit
                    ELSE /\ before(row) >= (req.page.current - 1) * req.page.size
                         /\ before(row) < req.page.current * req.page.size}
    IN  /\ answer.total = Cardinality(rows)
        /\ {Col(answer.list[i], "id") : i \in DOMAIN answer.list} = {row.id : row \in shown}
        /\ \A i \in DOMAIN answer.list : i > 1 =>
             Col(answer.list[i - 1], "id") < Col(answer.list[i], "id")

\* queryRelatedModels of a tree asks for children until there are none: only a
\* row that is its own ancestor makes it go on until the stack is used up.
DescentEnds == pc = "overflow" => looped
=============================================================================
