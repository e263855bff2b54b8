------------------------------ MODULE FormView ------------------------------
(* A form that edits one row (src/formview), in a frame of the main frame:   *)
(* its redux slice of the original data, the changes and the result; a       *)
(* selection that depends on another (cascade); a table of rows within the   *)
(* row; the operations it sends, none of which the main frame queues; the    *)
(* requests for options, which do not pass through the main frame's queue;   *)
(* and the row in the database, which other users save as well.              *)
EXTENDS Naturals

CONSTANTS
  Parents, Under,    \* values of the first selection; child: its parent
  Texts,             \* values of a field in the rows of the table
  Rows,              \* the row as it may be at the start
  Keys,              \* keys of rows of the table; a new row takes a free one
  MaxEdits, MaxSaves, MaxOthers, MaxReloads, MaxSearches,
  Nothing

Children == DOMAIN Under
Fields == {"parent", "child"}

\* A row with a parent and a child has a child of its parent; without a parent
\* the form offers, and the row may have, any child.
Fits(p, c) == p # Nothing /\ c # Nothing => Under[c] = p
Legal(row) == Fits(row.fields["parent"], row.fields["child"])

\* What a form shows: version, fields, and the rows of the table by key; those
\* that are not in the database yet are new.
Tables == UNION {[K -> [new : BOOLEAN, text : Texts \cup {Nothing}]] : K \in SUBSET Keys}
Data == [version : Nat, fields : [Fields -> Parents \cup Children \cup {Nothing}], table : Tables]

\* A change of it: of some fields, and of some rows of the table.
Nodes == UNION {[K -> [type : {"create", "update", "delete"}, text : Texts \cup {Nothing}]] :
                  K \in SUBSET Keys}
Changes == [version : Nat, table : Nodes,
            fields : UNION {[F -> Parents \cup Children \cup {Nothing}] : F \in SUBSET Fields}]

InDatabase(data) == \A k \in DOMAIN data.table : ~data.table[k].new

ASSUME FormAssumption ==
  /\ Under \in [Children -> Parents]
  /\ {MaxEdits, MaxSaves, MaxOthers, MaxReloads, MaxSearches} \subseteq Nat
  /\ \A row \in Rows : row \in Data /\ InDatabase(row) /\ Legal(row)
  /\ Nothing \notin Texts \cup Nat \cup Changes

VARIABLES
  row,      \* the row in the database: version, fields, table
  form,     \* the frame: its stage, the slice data, the options of the child
  running,  \* the operation of the form the main frame runs, or nothing
  answer,   \* the message on its way to the frame, or nothing
  asked,    \* requests for options without an answer
  edits, saves, others, reloads, searches,
  stale,    \* history: data came while there were changes
  misled,   \* history: a child was chosen from options that were not fetched
            \* for the parent it gets
  saved     \* history: what the last save that was accepted made of the row,
            \* and what the user saw; or nothing

vars == <<row, form, running, answer, asked, edits, saves, others, reloads, searches,
          stale, misled, saved>>
bounds == <<edits, saves, others, reloads, searches>>
history == <<stale, misled, saved>>

-----------------------------------------------------------------------------
\* f with v at x; g, but as f says where it says anything.
Put(f, x, v) == [y \in DOMAIN f \cup {x} |-> IF y = x THEN v ELSE f[y]]
Over(f, g) == [x \in DOMAIN f \cup DOMAIN g |-> IF x \in DOMAIN f THEN f[x] ELSE g[x]]

\* A change that has none yet.
NoChange(version) == [version |-> version, fields |-> <<>>, table |-> <<>>]

(* The slice data (redux/dataSlice.js). A change is a node of the row: the   *)
(* version it had, the fields that were set, and the rows of the table, each *)
(* created, updated or deleted.                                              *)

\* setData: changes made before stay as they are.
SetData(f, data) == [f EXCEPT !.origin = data, !.updated = data, !.loaded = TRUE]

\* Mutation of UpdateNode: the node has no version.
UpdateNodeOnly(f) ==
  IF f.update # Nothing THEN f.update
  ELSE NoChange(Nothing)

\* getUpdateNodes: a node is made with the version the row has now.
UpdateNode(f) ==
  IF f.update # Nothing THEN f.update
  ELSE NoChange(f.updated.version)

\* modiData, of a field of the row and of a row of the table.
ModiField(f, field, value) ==
  [f EXCEPT !.update = [UpdateNode(f) EXCEPT !.fields = Put(@, field, value)],
            !.updated.fields[field] = value]

TableNode(f, k) ==
  IF k \in DOMAIN UpdateNode(f).table THEN UpdateNode(f).table[k]
  ELSE [type |-> "update", text |-> Nothing]
ModiRow(f, k, text) ==
  [f EXCEPT !.update = [UpdateNode(f) EXCEPT
                          !.table = Put(@, k, [TableNode(f, k) EXCEPT !.text = text])],
            !.updated.table[k].text = text]

CreateRow(f, k) ==
  [f EXCEPT !.update = [UpdateNode(f) EXCEPT !.table = Put(@, k, [type |-> "create", text |-> Nothing])],
            !.updated.table = Put(@, k, [new |-> TRUE, text |-> Nothing])]

Without(f, k) == [x \in DOMAIN f \ {k} |-> f[x]]

\* Mutation of DeleteRow: a new row is deleted like an old one.
DeleteRowAsOld(f, k) ==
  [f EXCEPT !.update = [UpdateNode(f) EXCEPT !.table = Put(@, k, [type |-> "delete", text |-> Nothing])],
            !.updated.table = Without(@, k)]

\* deleteRow: a row that is new leaves no trace.
DeleteRow(f, k) ==
  [f EXCEPT !.update = [UpdateNode(f) EXCEPT
              !.table = IF f.updated.table[k].new THEN Without(@, k)
                        ELSE Put(@, k, [type |-> "delete", text |-> Nothing])],
            !.updated.table = Without(@, k)]

\* What a change makes of data: the service (Save) does this to the row. A row
\* that is not there cannot be updated or deleted.
Applies(update, data) ==
  \A k \in DOMAIN update.table : update.table[k].type # "create" <=> k \in DOMAIN data.table
Apply(update, data) ==
  LET kept == {k \in DOMAIN data.table \cup DOMAIN update.table :
                 k \in DOMAIN update.table => update.table[k].type # "delete"}
      Text(k) == IF k \in DOMAIN update.table /\ update.table[k].text # Nothing
                 THEN update.table[k].text
                 ELSE IF k \in DOMAIN data.table THEN data.table[k].text ELSE Nothing
  IN [version |-> data.version, fields |-> Over(update.fields, data.fields),
      table |-> [k \in kept |-> [new |-> k \notin DOMAIN data.table, text |-> Text(k)]]]

\* As the row is in the database, and in what the user sees.
Stored(data) == [data EXCEPT !.table = [k \in DOMAIN @ |-> [@[k] EXCEPT !.new = FALSE]]]
Seen(data) == <<data.fields, [k \in DOMAIN data.table |-> data.table[k].text]>>

-----------------------------------------------------------------------------
(* Operations of the form: the main frame runs one, or turns it down with a  *)
(* message if it runs another (queenable is not set).                        *)

Send(op) == (running = Nothing /\ running' = op) \/ running' = running

Operation(kind) == [kind |-> kind, update |-> Nothing, seen |-> Nothing, stale |-> FALSE]

\* The effects of Form: ask for the configuration, then for the data.
Show ==
  /\ form.stage = "init"
  /\ form' = [form EXCEPT !.stage = "asked"]
  /\ Send(Operation("conf"))
  /\ UNCHANGED <<row, answer, asked>> /\ UNCHANGED bounds /\ UNCHANGED history

\* Messages of the main frame: MODEL_CONF, QUERY_RESULT, RELOAD_DATA. After
\* the first and the last the data are queried.
ReceiveConf ==
  /\ answer # Nothing /\ answer.kind = "conf"
  /\ form' = [form EXCEPT !.stage = "ready"]
  /\ Send(Operation("query"))
  /\ UNCHANGED stale
ReceiveData ==
  /\ answer # Nothing /\ answer.kind = "query"
  /\ form' = [SetData(form, answer.data) EXCEPT !.options = [of |-> Nothing, list |-> {}]]
  /\ stale' = (stale \/ form.update # Nothing)
  /\ UNCHANGED running
ReceiveReload ==
  /\ answer # Nothing /\ answer.kind = "reload"
  /\ form' = [form EXCEPT !.loaded = FALSE]
  /\ IF form.stage = "ready" /\ form.loaded THEN Send(Operation("query")) ELSE UNCHANGED running
  /\ UNCHANGED stale
Receive ==
  /\ ReceiveConf \/ ReceiveData \/ ReceiveReload
  /\ answer' = Nothing
  /\ UNCHANGED <<row, asked, misled, saved>> /\ UNCHANGED bounds

\* The form shows the data, and the user may edit them.
Shown == form.stage = "ready" /\ form.loaded

Edit(f) ==
  /\ edits < MaxEdits /\ edits' = edits + 1
  /\ form' = f
  /\ UNCHANGED <<row, running, answer, asked, saves, others, reloads, searches, stale, saved>>

\* Mutation of SetParent: the child stays as it is.
SetParentOnly(p) ==
  /\ p # form.updated.fields["parent"]
  /\ Edit(ModiField(form, "parent", p)) /\ UNCHANGED misled

\* A value, or none, is chosen; the effect of the child's control on a new
\* value of its parent clears the child.
SetParent(p) ==
  /\ p # form.updated.fields["parent"]
  /\ Edit(ModiField(ModiField(form, "parent", p), "child", Nothing)) /\ UNCHANGED misled

\* onChange: one of the options that were fetched last, for whatever parent,
\* or none.
SetChild(c) ==
  /\ c \in form.options.list \cup {Nothing}
  /\ Edit(ModiField(form, "child", c))
  /\ misled' = (\/ misled
                \/ c # Nothing /\ form.updated.fields["parent"] \notin {Nothing, form.options.of})

\* createRow takes the next number: a key no row has had.
AddRow(k) ==
  /\ k \notin DOMAIN form.updated.table \cup DOMAIN form.origin.table \cup DOMAIN row.table
  /\ form.update # Nothing => k \notin DOMAIN form.update.table
  /\ Edit(CreateRow(form, k)) /\ UNCHANGED misled
EditRow(k, text) ==
  /\ k \in DOMAIN form.updated.table
  /\ Edit(ModiRow(form, k, text)) /\ UNCHANGED misled
RemoveRow(k) ==
  /\ k \in DOMAIN form.updated.table
  /\ Edit(DeleteRow(form, k)) /\ UNCHANGED misled

\* onFocus and onSearch: the options under the parent that is set now, or all
\* of them if there is none.
Search ==
  /\ searches < MaxSearches /\ searches' = searches + 1
  /\ asked' = asked \cup {[n |-> searches, parent |-> form.updated.fields["parent"]]}
  /\ UNCHANGED <<row, form, running, answer, edits, saves, others, reloads>> /\ UNCHANGED history

\* The answers come in any order; the control knows them by its field only.
QueryResponse(q) ==
  /\ q \in asked /\ asked' = asked \ {q}
  /\ form' = IF Shown
             THEN [form EXCEPT !.options = [of |-> q.parent, list |-> {c \in Children : Fits(q.parent, c)}]]
             ELSE form
  /\ UNCHANGED <<row, running, answer>> /\ UNCHANGED bounds /\ UNCHANGED history

\* FormHeader.doOperation: the changes are saved, if there are any.
DoOperation ==
  /\ saves < MaxSaves /\ saves' = saves + 1
  /\ Send([Operation("save") EXCEPT !.update = form.update, !.seen = Seen(form.updated), !.stale = stale])
  /\ UNCHANGED <<row, form, answer, asked, edits, others, reloads, searches>> /\ UNCHANGED history

-----------------------------------------------------------------------------
(* The main frame and the service.                                           *)

\* The operation is done; what follows its success is sent to the frame.
Done(message) == running' = Nothing /\ answer' = message
Message(kind) == [kind |-> kind, data |-> row]

Fetch ==
  /\ running # Nothing /\ running.kind \in {"conf", "query"} /\ answer = Nothing
  /\ Done(Message(running.kind))
  /\ UNCHANGED <<row, form, asked>> /\ UNCHANGED bounds /\ UNCHANGED history

\* A save with the version the row has; afterwards the form may be reloaded.
Save ==
  /\ running # Nothing /\ running.kind = "save" /\ answer = Nothing
  /\ running.update # Nothing
  /\ running.update.version \in {Nothing, row.version} /\ Applies(running.update, row)
  /\ row' = [Stored(Apply(running.update, row)) EXCEPT !.version = @ + 1]
  /\ saved' = [row |-> Seen(row'), seen |-> running.seen, stale |-> running.stale]
  /\ \/ Done(Nothing) /\ UNCHANGED reloads
     \/ reloads < MaxReloads /\ reloads' = reloads + 1 /\ Done(Message("reload"))
  /\ UNCHANGED <<form, asked, edits, saves, others, searches, stale, misled>>

\* It is refused, fails, or there was nothing to save.
Refuse ==
  /\ running # Nothing
  /\ Done(answer)
  /\ UNCHANGED <<row, form, asked>> /\ UNCHANGED bounds /\ UNCHANGED history

\* Another operation reloads the form.
Reload ==
  /\ form.stage = "ready" /\ answer = Nothing /\ reloads < MaxReloads
  /\ reloads' = reloads + 1 /\ answer' = Message("reload")
  /\ UNCHANGED <<row, form, running, asked, edits, saves, others, searches>> /\ UNCHANGED history

\* Another user saves the row, in a form like this one.
OtherSaves(p, c) ==
  /\ others < MaxOthers /\ others' = others + 1
  /\ Fits(p, c)
  /\ row' = [row EXCEPT !.version = @ + 1, !.fields = [parent |-> p, child |-> c]]
  /\ UNCHANGED <<form, running, answer, asked, edits, saves, reloads, searches>> /\ UNCHANGED history

NewForm ==
  [stage |-> "init", loaded |-> FALSE, origin |-> Nothing, updated |-> Nothing,
   update |-> Nothing, options |-> [of |-> Nothing, list |-> {}]]

Init ==
  /\ row \in Rows /\ form = NewForm
  /\ running = Nothing /\ answer = Nothing /\ asked = {}
  /\ edits = 0 /\ saves = 0 /\ others = 0 /\ reloads = 0 /\ searches = 0
  /\ stale = FALSE /\ misled = FALSE /\ saved = Nothing

User ==
  /\ Shown
  /\ \/ \E p \in Parents \cup {Nothing} : SetParent(p)
     \/ \E c \in Children \cup {Nothing} : SetChild(c)
     \/ \E k \in Keys : AddRow(k) \/ RemoveRow(k)
     \/ \E k \in Keys, text \in Texts : EditRow(k, text)
     \/ Search \/ DoOperation

Next ==
  \/ Show \/ Receive \/ User
  \/ \E q \in asked : QueryResponse(q)
  \/ Fetch \/ Save \/ Refuse \/ Reload
  \/ \E p \in Parents \cup {Nothing}, c \in Children \cup {Nothing} : OtherSaves(p, c)

Spec == Init /\ [][Next]_vars

-----------------------------------------------------------------------------
(* Properties.                                                               *)

\* The changes turn the original data into what is shown, after any sequence
\* of edits, answers and saves (modiData, createRow, deleteRow), unless the
\* data came anew while there were changes: setData keeps these.
UpdateIsDifference ==
  Shown /\ ~stale =>
    IF form.update = Nothing THEN Seen(form.updated) = Seen(form.origin)
    ELSE /\ Applies(form.update, form.origin)
         /\ Seen(Apply(form.update, form.origin)) = Seen(form.updated)

\* A save that is accepted leaves the row as the user saw it, and takes
\* nothing back that another user has saved meanwhile.
SavedAsShown == saved # Nothing /\ ~saved.stale => saved.row = saved.seen

\* A child belongs to the parent if there is one, in the form and in the
\* database, whoever has changed or cleared either; unless it was chosen from
\* options that were not fetched for its parent (the answers carry the field
\* only), or data came while there were changes.
ChildOfParent == ~misled /\ ~stale => Legal(row) /\ (Shown => Legal(form.updated))
=============================================================================
