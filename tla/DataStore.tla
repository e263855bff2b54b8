------------------------------ MODULE DataStore ------------------------------
(* The writing side of src/service/data: save, update, delete and batch      *)
(* delete of a model ("orders") with a many-to-many field (tags), a          *)
(* one-to-many field deleted in cascade (children) and a file field, whose   *)
(* contents lie on disk beside the database. Requests run concurrently, each *)
(* in a transaction of its own, one SQL statement or file operation at a     *)
(* time; permission filters are looked up over a second connection. A body   *)
(* the code does not check makes the handler panic, and its transaction is   *)
(* then neither committed nor rolled back.                                   *)
EXTENDS Naturals, Sequences, FiniteSets

CONSTANTS
  Users, Orders, Tags, Children, Files,
  Requests,       \* the goroutines that serve requests
  Bodies,         \* the requests clients may send
  Start,          \* the rows in the database at the beginning
  Filtered,       \* users whose mutation dataset has the filter owner = %{userID}
  Reach,          \* the children each user's dataset of the child model lets through
  FilterQueries,  \* whether such filters have filter data, fetched by queries
  Marks,          \* the orders whose mark "_row<id>_" the uploaded name of a file holds
  Conns,          \* maxOpenConns of the connection pool
  MaxRequests, MaxFaults,
  Absent, NoVersion

Links == Orders \X Tags
Keys == Orders \cup Links \cup Children \cup Files
OrderRow == [owner : Users, version : Nat, born : Nat, stamp : Nat]
RelatedRow == [parent : Orders]

\* A table in which every order row and every related row is of its kind.
IsTable(t) ==
  /\ DOMAIN t = Keys
  /\ \A o \in Orders : t[o] = Absent \/ t[o] \in OrderRow
  /\ \A k \in Keys \ Orders : t[k] = Absent \/ t[k] \in RelatedRow

Whole(t) == \A k \in Keys \ Orders : t[k] # Absent => t[t[k].parent] # Absent

\* A file is written and removed under the name the client sends: the one its
\* row was created with, or another.
Names == {"own", "other"}

\* What a body may ask for: rows to save with their related fields, or IDs. A
\* bad row or field holds a value of a type the code takes for granted; a
\* delete of all rows comes with or without the filter that selects its IDs.
Related ==
  [op : {"addTag", "dropTag"}, key : Tags]
    \cup [op : {"addChild", "setChild", "dropChild"}, key : Children]
    \cup [op : {"setFile", "dropFile"}, name : Names] \cup [op : {"addFile", "badField"}]
RowBody ==
  [type : {"create", "update", "delete", "badRow"}, id : Orders, checked : BOOLEAN,
   owner : Users, rel : SUBSET Related]

ASSUME BodiesAssumption ==
  Bodies \subseteq
    [op : {"save"}, rows : Seq(RowBody)]
      \cup [op : {"delete"}, ids : SUBSET Orders, all : BOOLEAN, filter : BOOLEAN]
      \cup [op : {"update"}, ids : SUBSET Orders, owner : Users]
      \cup [op : {"batchDelete"}, ids : SUBSET Orders]

ASSUME DataStoreAssumption ==
  /\ Users # {} /\ Filtered \subseteq Users /\ FilterQueries \in BOOLEAN
  /\ Reach \in [Users -> SUBSET Children] /\ Marks \in [Files -> SUBSET Orders]
  /\ Conns \in Nat \ {0} /\ MaxRequests \in Nat /\ MaxFaults \in Nat
  /\ Orders \cap (Links \cup Children \cup Files) = {}
  /\ Links \cap (Children \cup Files) = {} /\ Children \cap Files = {}
  /\ Absent \notin OrderRow \cup RelatedRow /\ NoVersion \notin OrderRow
  /\ IsTable(Start) /\ Whole(Start)
  /\ \A o \in Orders : Start[o] # Absent => Start[o].born = 0 /\ Start[o].stamp = 0

VARIABLES
  table,   \* the rows, uncommitted changes in place
  undo,    \* per request, what its transaction has locked and found there
  pc,      \* "idle", "begin" (waiting for a connection), "tx" or "panicked"
  user,    \* who sent the request
  num,     \* the request's number
  todo,    \* the statements and file operations it still has to run
  free,    \* connections in the pool
  disk,    \* files, named after their order, their row and the client's name
  used,    \* auto-increment IDs given to files
  view,    \* per user, the answer to their last query
  sent, faults,
  dirty,   \* history: files a request has written or removed
  torn,    \* history: files left to chance: a request that touched them failed,
           \* or named them wrongly, or a file operation went wrong or too far
  batched  \* history: orders removed by a batch delete

vars == <<table, undo, pc, user, num, todo, free, disk, used, view, sent, faults,
          dirty, torn, batched>>
history == <<torn, batched>>
clients == <<user, num, view, sent>>

-----------------------------------------------------------------------------
(* The database: InnoDB locks the rows a statement reads or writes until the *)
(* end of the transaction, and other statements wait for them.               *)

Locked(k, r) == \E q \in Requests \ {r} : k \in DOMAIN undo[q]
Committed(k) ==
  IF \E q \in Requests : k \in DOMAIN undo[q]
  THEN undo[CHOOSE q \in Requests : k \in DOMAIN undo[q]][k]
  ELSE table[k]

Step(r) == Head(todo[r])
Running(r, op) == pc[r] = "tx" /\ todo[r] # <<>> /\ Step(r).op = op
Continue(r, steps) == todo' = [todo EXCEPT ![r] = steps \o Tail(@)]

Class(c) == CASE c = "tags" -> Links [] c = "children" -> Children [] c = "files" -> Files
Belongs(row, ids) == row # Absent /\ row.parent \in ids

\* The rows a statement locks: those it names, or those its condition selects.
Scan(r) ==
  IF Step(r).op # "drop" THEN Step(r).scan
  ELSE {k \in Class(Step(r).class) :
          \/ Belongs(table[k], Step(r).ids)
          \/ \E q \in Requests \ {r} : k \in DOMAIN undo[q] /\ Belongs(undo[q][k], Step(r).ids)}

Execute(r, rows) ==
  /\ table' = [k \in Keys |-> IF k \in Scan(r) THEN rows[k] ELSE table[k]]
  /\ undo' = [undo EXCEPT ![r] = [k \in DOMAIN @ \cup Scan(r) |->
                                    IF k \in DOMAIN @ THEN @[k] ELSE table[k]]]
  /\ UNCHANGED <<pc, free, disk, dirty, faults>> /\ UNCHANGED clients

Blocked(r) == \E k \in Scan(r) : Locked(k, r)

Release(r) ==
  /\ pc' = [pc EXCEPT ![r] = "idle"]
  /\ free' = free + 1
  /\ undo' = [undo EXCEPT ![r] = <<>>]
  /\ todo' = [todo EXCEPT ![r] = <<>>]
  /\ dirty' = [dirty EXCEPT ![r] = {}]
  /\ UNCHANGED <<disk, used, batched>> /\ UNCHANGED clients

RolledBack(r) == [k \in Keys |-> IF k \in DOMAIN undo[r] THEN undo[r][k] ELSE table[k]]

\* Any error code: Execute rolls the transaction back and answers the code.
Abort(r) ==
  /\ table' = RolledBack(r)
  /\ torn' = torn \cup dirty[r]
  /\ Release(r)

-----------------------------------------------------------------------------
(* Requests as sequences of steps.                                           *)

Plain(op) == [op |-> op, scan |-> {}]

\* ProcessFilter: the permission filter's own queries.
FilterSteps(u) == IF u \in Filtered /\ FilterQueries THEN <<Plain("query")>> ELSE <<>>

\* The same for the child model, in the SaveList of a one-to-many field.
ChildSteps(u, step) ==
  IF FilterQueries /\ Reach[u] # Children THEN <<Plain("childQuery"), step>> ELSE <<step>>

\* A row of a save. An update is checked if the client sends the version it saw.
RowStep(u, row) ==
  IF row.type = "badRow" THEN Plain("badRow")
  ELSE [op |-> row.type, scan |-> {row.id}, id |-> row.id, owner |-> row.owner, rel |-> row.rel,
        basis |-> IF row.checked THEN view[u][row.id] ELSE NoVersion,
        seen |-> {f \in Files : Belongs(view[u][f], {row.id})}]

\* Mutation of DeleteReleated: the files go and their rows stay.
DeleteReleatedFilesOnly(ids) ==
  <<[op |-> "drop", class |-> "tags", ids |-> ids],
    [op |-> "drop", class |-> "children", ids |-> ids],
    [op |-> "sweep", ids |-> ids, scan |-> {}]>>

\* DeleteReleated.Execute: the fields in the order of the model's configuration.
DeleteReleated(ids) ==
  <<[op |-> "drop", class |-> "tags", ids |-> ids],
    [op |-> "drop", class |-> "children", ids |-> ids],
    [op |-> "drop", class |-> "files", ids |-> ids],
    [op |-> "sweep", ids |-> ids, scan |-> {}]>>

\* One step deletes the rows with the selected IDs; basis (history) is what
\* the selection saw of them.
DeleteStep(ids, basis) == [op |-> "deleteIds", scan |-> ids, basis |-> basis]

\* Delete.Filter selects the IDs; without it a delete of all rows selects all.
Asked(b) == IF b.all /\ ~b.filter THEN Orders ELSE b.ids

Steps(u, b) ==
  CASE b.op = "save" -> FilterSteps(u) \o [i \in 1..Len(b.rows) |-> RowStep(u, b.rows[i])]
    [] b.op = "update" ->
         FilterSteps(u) \o <<[op |-> "updateWhere", scan |-> b.ids, owner |-> b.owner]>>
    [] b.op = "batchDelete" -> FilterSteps(u) \o <<[op |-> "deleteWhere", scan |-> b.ids]>>
    [] b.op = "delete" ->
         IF u \in Filtered /\ b.all /\ ~b.filter THEN FilterSteps(u) \o <<Plain("badFilter")>>
         ELSE IF u \in Filtered \/ b.all
         THEN FilterSteps(u) \o <<[op |-> "select", scan |-> {}, ids |-> Asked(b)]>>
         ELSE <<DeleteStep(b.ids, [o \in Orders |-> NoVersion])>>

\* A client can name the version of a row only if its last query returned it.
CanSend(u, b) ==
  b.op = "save" => \A i \in 1..Len(b.rows) :
                     b.rows[i].checked => view[u][b.rows[i].id] # Absent

\* (After the last request nobody uses the answer of a query.)
Query(u) ==
  /\ sent < MaxRequests
  /\ view' = [view EXCEPT ![u] = [k \in Orders \cup Files |-> Committed(k)]]
  /\ UNCHANGED <<table, undo, pc, user, num, todo, free, disk, used, sent, faults, dirty>>
  /\ UNCHANGED history

Send(r, u, b) ==
  /\ pc[r] = "idle" /\ sent < MaxRequests /\ CanSend(u, b)
  /\ sent' = sent + 1
  /\ pc' = [pc EXCEPT ![r] = "begin"]
  /\ user' = [user EXCEPT ![r] = u]
  /\ num' = [num EXCEPT ![r] = sent + 1]
  /\ todo' = [todo EXCEPT ![r] = Steps(u, b)]
  /\ UNCHANGED <<table, undo, free, disk, used, view, faults, dirty>> /\ UNCHANGED history

Begin(r) ==
  /\ pc[r] = "begin" /\ free > 0
  /\ free' = free - 1
  /\ pc' = [pc EXCEPT ![r] = "tx"]
  /\ UNCHANGED <<table, undo, todo, disk, used, faults, dirty>>
  /\ UNCHANGED clients /\ UNCHANGED history

-----------------------------------------------------------------------------
(* Steps inside a transaction.                                               *)

\* Mutation of QueryFilterData: the rows are not closed and keep the connection.
QueryFilterDataOpen(r) ==
  /\ Running(r, "query") \/ Running(r, "childQuery")
  /\ free > 0
  /\ Continue(r, <<>>)
  /\ free' = free - 1
  /\ UNCHANGED <<table, undo, pc, disk, used, faults, dirty>>
  /\ UNCHANGED clients /\ UNCHANGED history

\* A query outside the transaction: it takes a second connection and gives it
\* back, and sees what is committed.
QueryFilterData(r) ==
  /\ Running(r, "query") \/ Running(r, "childQuery")
  /\ free > 0
  /\ Continue(r, <<>>)
  /\ UNCHANGED <<table, undo, pc, free, disk, used, faults, dirty>>
  /\ UNCHANGED clients /\ UNCHANGED history

\* A value that is not of the type the code takes for granted: gin answers the
\* panic, and the transaction keeps its locks and its connection.
Bad == {"badRow", "badField", "badFilter"}
Panic(r) ==
  /\ \E op \in Bad : Running(r, op)
  /\ pc' = [pc EXCEPT ![r] = "panicked"]
  /\ UNCHANGED <<table, undo, todo, free, disk, used, faults, dirty>>
  /\ UNCHANGED clients /\ UNCHANGED history

Permitted(r, row) == row # Absent /\ (user[r] \in Filtered => row.owner = user[r])

\* Mutation of Selected: the permission filter is left out.
SelectedAll(r) == {o \in Step(r).ids : Committed(o) # Absent}

Selected(r) == {o \in Step(r).ids : Permitted(r, Committed(o))}
GetPermissionIds(r) ==
  /\ Running(r, "select") /\ free > 0
  /\ \/ /\ Selected(r) # {}
        /\ LET basis == [o \in Orders |-> IF o \in Selected(r) THEN Committed(o) ELSE NoVersion]
           IN  Continue(r, <<DeleteStep(Selected(r), basis)>>)
        /\ UNCHANGED <<table, undo, pc, free, disk, used, dirty>>
        /\ UNCHANGED clients /\ UNCHANGED history
     \/ /\ Selected(r) = {}     \* ResultNoPermission
        /\ Abort(r)
  /\ UNCHANGED faults

\* The related fields of a row that are still to be saved.
Fields(s, rel) == [op |-> "fields", scan |-> {}, id |-> s.id, rel |-> rel, seen |-> s.seen]

\* No permission is asked for a new row.
CreateRow(r) ==
  /\ Running(r, "create") /\ ~Blocked(r)
  /\ LET s == Step(r) IN
     \/ /\ table[s.id] = Absent
        /\ Execute(r, [k \in {s.id} |->
                         [owner |-> s.owner, version |-> 0, born |-> num[r], stamp |-> num[r]]])
        /\ Continue(r, <<Fields(s, s.rel)>>)
        /\ UNCHANGED <<used, torn, batched>>
     \/ /\ table[s.id] # Absent         \* ResultDuplicatePrimaryKey
        /\ Abort(r) /\ UNCHANGED faults

Updated(r, row, owner) ==
  [owner |-> owner, version |-> row.version + 1, born |-> row.born, stamp |-> num[r]]

\* Mutation of Matches: the version is not compared.
MatchesAnyVersion(r, s) == Permitted(r, table[s.id])

Matches(r, s) ==
  /\ Permitted(r, table[s.id])
  /\ s.basis # NoVersion => table[s.id].version = s.basis.version

UpdateRow(r) ==
  /\ Running(r, "update") /\ ~Blocked(r)
  /\ LET s == Step(r) IN
     \/ /\ Matches(r, s)
        /\ Execute(r, [k \in {s.id} |-> Updated(r, table[k], s.owner)])
        /\ Continue(r, <<Fields(s, s.rel)>>)
        /\ UNCHANGED <<used, torn, batched>>
     \/ /\ ~Matches(r, s)               \* ResultWrongDataVersion
        /\ Abort(r) /\ UNCHANGED faults

DeleteRow(r) ==
  /\ Running(r, "delete") /\ ~Blocked(r)
  /\ LET s == Step(r) IN
     \/ /\ Permitted(r, table[s.id])
        /\ Execute(r, [k \in {s.id} |-> Absent])
        /\ Continue(r, DeleteReleated({s.id}))
        /\ UNCHANGED <<used, torn, batched>>
     \/ /\ ~Permitted(r, table[s.id])   \* ResultNotDeleteData
        /\ Abort(r) /\ UNCHANGED faults

\* What one related field of a row asks for.
Insert(k, o) == [op |-> "insert", scan |-> {k}, id |-> o]
Remove(k, must) == [op |-> "remove", scan |-> {k}, must |-> must]
Keep(k) == [op |-> "keep", scan |-> {k}]
Write(o, f, n) == [op |-> "write", scan |-> {}, id |-> o, file |-> f, name |-> n]
Unlink(o, f, n) == [op |-> "unlink", scan |-> {}, id |-> o, file |-> f, name |-> n]

\* The next auto-increment ID.
NextFile == CHOOSE f \in Files \ used : TRUE

FieldSteps(u, s, x) ==
  CASE x.op = "addTag" -> {<<Insert(<<s.id, x.key>>, s.id)>>}
    [] x.op = "dropTag" -> {<<Remove(<<s.id, x.key>>, FALSE)>>}
    [] x.op = "addChild" -> {ChildSteps(u, Insert(x.key, s.id))}
    [] x.op = "setChild" -> {ChildSteps(u, Keep(x.key))}
    [] x.op = "dropChild" -> {ChildSteps(u, Remove(x.key, TRUE))}
    [] x.op = "addFile" -> {<<Insert(NextFile, s.id), Write(s.id, NextFile, "own")>>}
    [] x.op = "setFile" -> {<<Unlink(s.id, f, x.name), Write(s.id, f, x.name)>> : f \in s.seen}
    [] x.op = "dropFile" -> {<<Unlink(s.id, f, x.name), Remove(f, FALSE)>> : f \in s.seen}
    [] x.op = "badField" -> {<<Plain("badField")>>}

\* saveRelatedField ranges over a Go map: the fields come in any order. (Files
\* bounds the IDs.)
SaveRelatedField(r) ==
  /\ Running(r, "fields")
  /\ LET s == Step(r) IN
     \/ /\ \A x \in s.rel : FieldSteps(user[r], s, x) = {}
        /\ Continue(r, <<>>) /\ UNCHANGED used
     \/ \E x \in s.rel : \E steps \in FieldSteps(user[r], s, x) :
          /\ x.op = "addFile" => Files \ used # {}
          /\ Continue(r, steps \o <<Fields(s, s.rel \ {x})>>)
          /\ used' = IF x.op = "addFile" THEN used \cup {NextFile} ELSE used
  /\ UNCHANGED <<table, undo, pc, free, disk, faults, dirty>>
  /\ UNCHANGED clients /\ UNCHANGED history

\* createManyToManyRow, createFileRow, and createRow of a child.
InsertRow(r) ==
  /\ Running(r, "insert") /\ ~Blocked(r)
  /\ \/ /\ \A k \in Step(r).scan : table[k] = Absent
        /\ Execute(r, [k \in Step(r).scan |-> [parent |-> Step(r).id]])
        /\ Continue(r, <<>>)
        /\ UNCHANGED <<used, torn, batched>>
     \/ /\ \E k \in Step(r).scan : table[k] # Absent
        /\ Abort(r) /\ UNCHANGED faults

\* The rows are there and, if children, within the user's filter of their model.
Found(r) ==
  \A k \in Step(r).scan : table[k] # Absent /\ (k \in Children => k \in Reach[user[r]])

\* deleteManyToManyRow and deleteFileRow delete what is there; deleteRow of a
\* child wants to find it.
RemoveRow(r) ==
  /\ Running(r, "remove") /\ ~Blocked(r)
  /\ LET found == Found(r) IN
     \/ /\ Step(r).must => found
        /\ Execute(r, [k \in Step(r).scan |-> Absent])
        /\ Continue(r, <<>>)
        /\ UNCHANGED <<used, torn, batched>>
     \/ /\ Step(r).must /\ ~found
        /\ Abort(r) /\ UNCHANGED faults

\* updateRow of a child, which keeps its order; also refused if its version,
\* which is not modelled, is not the one sent.
KeepRow(r) ==
  /\ Running(r, "keep") /\ ~Blocked(r)
  /\ \/ /\ Found(r)
        /\ Execute(r, [k \in Step(r).scan |-> table[k]])
        /\ Continue(r, <<>>)
        /\ UNCHANGED <<used, torn, batched>>
     \/ Abort(r) /\ UNCHANGED faults

\* deleteManyToMany, deleteOne2Many and the rows of deleteFile.
DropRelated(r) ==
  /\ Running(r, "drop") /\ ~Blocked(r)
  /\ Execute(r, [k \in Scan(r) |-> IF Belongs(table[k], Step(r).ids) THEN Absent ELSE table[k]])
  /\ Continue(r, <<>>)
  /\ UNCHANGED <<used, torn, batched>>

\* os.Remove and os.Create act at once, whatever becomes of the transaction;
\* the files in lost are from then on left to chance.
OnDisk(r, gone, new, lost, steps) ==
  /\ disk' = (disk \ gone) \cup new
  /\ torn' = torn \cup lost
  /\ dirty' = [dirty EXCEPT ![r] = @ \cup ({e[2] : e \in gone \cup new} \ torn')]
  /\ Continue(r, steps)
  /\ UNCHANGED <<table, undo, pc, free, used, batched>> /\ UNCHANGED clients

\* The file name a step is about; a name that is not the row's goes nowhere.
Named(r) == <<Step(r).id, Step(r).file, Step(r).name>>
Misnamed(r) == IF Step(r).name = "own" THEN {} ELSE {Step(r).file}

\* deleteFile looks for the mark of an order's ID anywhere in a file's name.
Swept(ids) ==
  {e \in disk : e[1] \in ids \/ (e[3] = "own" /\ Marks[e[2]] \cap ids # {})}
SweepFiles(r) ==
  /\ Running(r, "sweep") /\ UNCHANGED faults
  /\ LET ids == Step(r).ids IN
     OnDisk(r, Swept(ids), {}, {e[2] : e \in {e \in Swept(ids) : e[1] \notin ids}}, <<>>)

UnlinkFile(r) ==
  /\ Running(r, "unlink") /\ UNCHANGED faults
  /\ OnDisk(r, {Named(r)}, {}, Misnamed(r), <<>>)

\* updateFileRow does not look whether there still is a row.
WriteFile(r) ==
  /\ Running(r, "write") /\ UNCHANGED faults
  /\ OnDisk(r, {}, {Named(r)},
            Misnamed(r) \cup (IF table[Step(r).file] = Absent THEN {Step(r).file} ELSE {}), <<>>)

\* The file is created and its content cannot be written: it stays, the request fails.
WriteBreaks(r) ==
  /\ Running(r, "write") /\ faults < MaxFaults /\ faults' = faults + 1
  /\ OnDisk(r, {}, {Named(r)}, {Step(r).file}, <<Plain("fail")>>)
Fail(r) == Running(r, "fail") /\ Abort(r) /\ UNCHANGED faults

\* An error of os.ReadDir or os.Remove is none of the request.
RemovalFails(r) ==
  /\ faults < MaxFaults /\ faults' = faults + 1
  /\ \/ Running(r, "unlink") /\ OnDisk(r, {}, {}, {Step(r).file}, <<>>)
     \/ /\ Running(r, "sweep")
        /\ OnDisk(r, {}, {}, {e[2] : e \in {e \in disk : e[1] \in Step(r).ids}}, <<>>)

\* Mutation of DeleteIds: what is related goes first, the rows last.
DeleteIdsLast(r) ==
  /\ Running(r, "deleteIds") /\ ~Blocked(r)
  /\ LET s == Step(r) IN
     \/ /\ "last" \in DOMAIN s
        /\ Execute(r, [k \in s.scan |-> Absent]) /\ Continue(r, <<>>)
     \/ /\ "last" \notin DOMAIN s
        /\ Continue(r, DeleteReleated(s.scan) \o
             <<[op |-> s.op, scan |-> s.scan, basis |-> s.basis, last |-> TRUE]>>)
        /\ UNCHANGED <<table, undo, pc, free, disk, dirty, faults>> /\ UNCHANGED clients
  /\ UNCHANGED <<used, torn, batched>>

\* Delete: the selected rows and, whether or not they were still there, what
\* is related to them.
DeleteIds(r) ==
  /\ Running(r, "deleteIds") /\ ~Blocked(r)
  /\ LET ids == Step(r).scan IN
     /\ Execute(r, [k \in ids |-> Absent])
     /\ Continue(r, DeleteReleated(ids))
  /\ UNCHANGED <<used, torn, batched>>

UpdateWhere(r) ==
  /\ Running(r, "updateWhere") /\ ~Blocked(r)
  /\ LET s == Step(r) IN
     Execute(r, [k \in s.scan |-> IF Permitted(r, table[k]) THEN Updated(r, table[k], s.owner)
                                  ELSE table[k]])
  /\ Continue(r, <<>>)
  /\ UNCHANGED <<used, torn, batched>>

\* BatchDelete: the rows only.
DeleteWhere(r) ==
  /\ Running(r, "deleteWhere") /\ ~Blocked(r)
  /\ LET ids == {k \in Step(r).scan : Permitted(r, table[k])} IN
     /\ Execute(r, [k \in Step(r).scan |-> IF k \in ids THEN Absent ELSE table[k]])
     /\ batched' = batched \cup ids
  /\ Continue(r, <<>>)
  /\ UNCHANGED <<used, torn>>

Commit(r) ==
  /\ pc[r] = "tx" /\ todo[r] = <<>>
  /\ Release(r)
  /\ UNCHANGED <<table, torn, faults>>

-----------------------------------------------------------------------------
(* Failures: a lock wait that times out or is chosen to end a deadlock, an   *)
(* error of MySQL or of the file system, a failing commit (applied or not),  *)
(* and the service stopping, which loses the requests and not the files.     *)

LockTimeout(r) ==
  /\ pc[r] = "tx" /\ todo[r] # <<>> /\ Blocked(r)
  /\ Abort(r) /\ UNCHANGED faults

StepFails(r) ==
  /\ pc[r] = "tx" /\ todo[r] # <<>> /\ faults < MaxFaults
  /\ Step(r).op \notin {"fields", "unlink", "sweep", "fail"} \cup Bad
  /\ Abort(r) /\ faults' = faults + 1

CommitFails(r) ==
  /\ pc[r] = "tx" /\ todo[r] = <<>> /\ faults < MaxFaults
  /\ table' \in {table, RolledBack(r)}
  /\ torn' = torn \cup dirty[r]
  /\ Release(r) /\ faults' = faults + 1

Crash ==
  /\ faults < MaxFaults /\ faults' = faults + 1
  /\ table' = [k \in Keys |-> Committed(k)]
  /\ undo' = [r \in Requests |-> <<>>] /\ todo' = [r \in Requests |-> <<>>]
  /\ pc' = [r \in Requests |-> "idle"] /\ free' = Conns
  /\ torn' = torn \cup UNION {dirty[r] : r \in Requests}
  /\ dirty' = [r \in Requests |-> {}]
  /\ UNCHANGED <<disk, used, batched>> /\ UNCHANGED clients

-----------------------------------------------------------------------------
Init ==
  /\ table = Start
  /\ undo = [r \in Requests |-> <<>>] /\ todo = [r \in Requests |-> <<>>]
  /\ pc = [r \in Requests |-> "idle"] /\ free = Conns
  /\ user = [r \in Requests |-> CHOOSE u \in Users : TRUE] /\ num = [r \in Requests |-> 0]
  /\ used = {f \in Files : Start[f] # Absent}
  /\ disk = {<<Start[f].parent, f, "own">> : f \in used}
  /\ view = [u \in Users |-> [k \in Orders \cup Files |-> Absent]]
  /\ sent = 0 /\ faults = 0
  /\ dirty = [r \in Requests |-> {}] /\ torn = {} /\ batched = {}

\* One step of a running request.
Proceed(r) ==
  \/ QueryFilterData(r) \/ GetPermissionIds(r)
  \/ CreateRow(r) \/ UpdateRow(r) \/ DeleteRow(r) \/ SaveRelatedField(r)
  \/ InsertRow(r) \/ RemoveRow(r) \/ KeepRow(r) \/ DropRelated(r)
  \/ SweepFiles(r) \/ UnlinkFile(r) \/ WriteFile(r) \/ Fail(r) \/ Panic(r)
  \/ DeleteIds(r) \/ UpdateWhere(r) \/ DeleteWhere(r) \/ Commit(r)

Next ==
  \/ \E u \in Users : Query(u)
  \/ \E r \in Requests :
       \/ \E u \in Users, b \in Bodies : Send(r, u, b)
       \/ Begin(r) \/ Proceed(r)
       \/ LockTimeout(r) \/ StepFails(r) \/ WriteBreaks(r) \/ RemovalFails(r) \/ CommitFails(r)
  \/ Crash

\* The service runs every request as far as it can; database/sql hands out
\* connections in order, and InnoDB ends lock waits after a while.
Fairness ==
  \A r \in Requests :
    WF_vars(Begin(r)) /\ WF_vars(Proceed(r)) /\ WF_vars(LockTimeout(r))

Spec == Init /\ [][Next]_vars /\ Fairness

-----------------------------------------------------------------------------
(* Properties.                                                               *)

\* Request r changes or removes the row of o in this step.
Wrote(r, o) ==
  /\ todo[r] # <<>> /\ todo'[r] # todo[r]
  /\ o \in DOMAIN undo'[r] /\ table'[o] # table[o]

\* updateRow: a save that sends the version its user saw overwrites nothing
\* that was written since, by whatever operation (unless the row was deleted
\* and created anew with the same ID, which starts over at version 0).
NoLostUpdate ==
  [][\A r \in Requests, o \in Orders :
       /\ Wrote(r, o) /\ Step(r).op = "update" /\ Step(r).basis # NoVersion
       /\ Step(r).basis.born = table[o].born
       => Step(r).basis.stamp = table[o].stamp]_vars

\* getPermissionIds, updateRow, deleteRow, update and batch delete: a user
\* whose dataset has a filter changes rows of that filter only; a delete also
\* removes a row that left the filter after its IDs were selected.
OthersRowsKept ==
  [][\A r \in Requests, o \in Orders :
       Wrote(r, o) /\ table[o] # Absent /\ user[r] \in Filtered =>
         \/ table[o].owner = user[r]
         \/ /\ Step(r).op = "deleteIds"
            /\ Step(r).basis[o].owner = user[r] /\ Step(r).basis[o].stamp # table[o].stamp]_vars

\* DeleteReleated: what is committed of tags, children and files belongs to an
\* order that exists, also when saves and deletes of the order run at the same
\* time; only a batch delete leaves such rows behind.
NoOrphans ==
  \A k \in Keys \ Orders :
    Committed(k) # Absent =>
      Committed(Committed(k).parent) # Absent \/ Committed(k).parent \in batched

\* SaveFile and deleteFile: when no transaction is about to change a file, its
\* row and its content are both there, under one name, or both gone. Excepted
\* are files that a failed request touched, that a client named otherwise than
\* their row or whose row was gone, that could not be written or removed, and
\* those with the mark of a deleted order in their name.
FilesMatchRows ==
  \A f \in Files \ torn :
    (\A r \in Requests : f \notin dirty[r] /\ f \notin DOMAIN undo[r]) =>
      {e \in disk : e[2] = f} =
        IF table[f] = Absent THEN {} ELSE {<<table[f].parent, f, "own">>}

\* Every connection is held by a request that panicked or that waits for another one.
PoolExhausted ==
  /\ Cardinality({r \in Requests : pc[r] \in {"tx", "panicked"}}) = Conns
  /\ \A r \in Requests :
       pc[r] = "tx" => \E op \in {"query", "childQuery", "select"} : Running(r, op)

\* Execute: every request is answered, deadlocks of the database, failures and
\* locks that a panic left behind and all, unless panics and permission
\* filters have used up the connections.
RequestsAnswered ==
  \A r \in Requests :
    pc[r] \in {"begin", "tx"} ~> (pc[r] \in {"idle", "panicked"} \/ PoolExhausted)
=============================================================================
