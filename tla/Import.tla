------------------------------- MODULE Import -------------------------------
(* Imports of Excel files (src/service/esi): requests that run at the same   *)
(* time, each of which checks the name of its file, begins a transaction,    *)
(* takes a number from the generator of BatchID, reads the cells of the      *)
(* sheets one after the other and saves every row it recognizes. The steps   *)
(* of GetBatchID are those of BatchID; a request is its caller.              *)
EXTENDS BatchID, Sequences, FiniteSets

CONSTANTS
  File,         \* file name: the sheets, their names, and the specification
                \* (with the fields and sheet selectors) the request names
  Like(_, _),   \* whether a name satisfies column LIKE another name
  MaxImports, MaxFaults

(* A sheet is a sequence of rows, a row a sequence of cells; excelize leaves *)
(* out the empty cells at the end of a row. A field of a specification has   *)
(* the cells its labelRegexp matches, each with the difference of lengths    *)
(* that decides between two fields. Fields have names of their own; values   *)
(* from the request (source input) and escapes are left out.                 *)
Empty == ""
IsSeq(q) == Len(q) \in Nat /\ DOMAIN q = 1..Len(q)
IsSheet(sheet) ==
  IsSeq(sheet) /\ \A r \in DOMAIN sheet :
    LET row == sheet[r] IN IsSeq(row) /\ (row # <<>> => row[Len(row)] # Empty)
IsField(field) ==
  /\ \A cell \in DOMAIN field.labels : field.labels[cell] \in Nat
  /\ field.range \in {"auto", "table", "rightVal"}
  /\ field.endRow \in {"auto", "yes", "no"}
IsSpec(spec) ==
  /\ IsSeq(spec.fields) /\ \A f \in DOMAIN spec.fields : IsField(spec.fields[f])
  /\ spec.maxHeader \in Nat /\ IsSeq(spec.selectors)

ASSUME ImportAssumption ==
  /\ {MaxImports, MaxFaults} \subseteq Nat
  /\ \A name \in DOMAIN File :
       /\ IsSeq(File[name].sheets) /\ \A s \in DOMAIN File[name].sheets : IsSheet(File[name].sheets[s])
       /\ IsSpec(File[name].spec)

VARIABLES
  imp,       \* caller: its import
  stored,    \* committed imports: file name, number, rows
  imports, faults,
  clashed,   \* history: a row was refused because its ID was taken
  restarted  \* history: the service was restarted

import_vars == <<imp, stored, imports, faults, clashed, restarted>>
all_vars == <<vars, import_vars>>

-----------------------------------------------------------------------------
(* patternContentHandler: what the cells of a sheet mean. Rows and columns   *)
(* count from 1. "detected" and "end" belong to the fields of the            *)
(* specification and are kept from sheet to sheet.                           *)
None == 0
MaxOf(S) == CHOOSE m \in S : \A n \in S : n <= m
MinOf(S) == CHOOSE m \in S : \A n \in S : m <= n

\* getContentHandler, for the fields of a request that has just been loaded.
NewHandler(spec) ==
  [detected |-> [f \in DOMAIN spec.fields |-> "none"],
   end |-> [f \in DOMAIN spec.fields |-> spec.fields[f].endRow],
   labels |-> <<>>, values |-> <<>>, data |-> {}, temp |-> <<>>]

\* Mutation of ResetAll: the values of the last row are kept.
ResetAllButTemp(h) == [h EXCEPT !.labels = <<>>, !.values = <<>>, !.data = {}]

ResetAll(h) == [h EXCEPT !.labels = <<>>, !.values = <<>>, !.data = {}, !.temp = <<>>]

With(f, x, v) == [y \in DOMAIN f \cup {x} |-> IF y = x THEN v ELSE f[y]]
Without(f, S) == [x \in DOMAIN f \ S |-> f[x]]

\* RecognizeFieldLabelCell: the fields a cell may be the label of. The one
\* whose expression is closest in length wins, the first of these.
LabelFields(spec, cell) ==
  {f \in DOMAIN spec.fields : ~spec.fields[f].input /\ cell \in DOMAIN spec.fields[f].labels}
LabelField(spec, cell) ==
  LET Distance(f) == spec.fields[f].labels[cell]
      fields == LabelFields(spec, cell)
  IN MinOf({f \in fields : \A g \in fields : Distance(f) <= Distance(g)})

\* Only the rows up to maxHeaderRow are searched for labels, if it is set.
MayBeLabel(spec, row) == spec.maxHeader = 0 \/ row - 1 <= spec.maxHeader
IsLabel(spec, row, cell) == MayBeLabel(spec, row) /\ LabelFields(spec, cell) # {}

\* addRecognizedLabelCell for every field that matches.
AddLabel(h, spec, p, cell) ==
  [h EXCEPT
     !.labels = With(@, p, LabelField(spec, cell)),
     !.detected = [f \in DOMAIN @ |->
        IF f \notin LabelFields(spec, cell) \/ @[f] # "none" THEN @[f]
        ELSE IF spec.fields[f].range = "auto" THEN "rightVal" ELSE spec.fields[f].range]]

\* findRecognizedLabelCell: the label on the left, or the nearest one above
\* with no empty row between.
FindLabel(h, spec, p) ==
  LET left == <<p[1], p[2] - 1>>
      from == IF spec.maxHeader > 0 THEN spec.maxHeader + 1 ELSE p[1] - 1
      above == {r \in 1..from : /\ r..from \subseteq h.data
                                /\ <<r, p[2]>> \in DOMAIN h.labels
                                /\ h.detected[h.labels[<<r, p[2]>>]] = "table"}
  IN IF left \in DOMAIN h.labels /\ h.detected[h.labels[left]] = "rightVal" THEN h.labels[left]
     ELSE IF above # {} THEN h.labels[<<MaxOf(above), p[2]>>] ELSE None

LabelsOf(h, row) == {p \in DOMAIN h.labels : p[1] = row}

\* resetAutoLabel: in a row with a label of a table those that may be either
\* are labels of the table, too; what was read to the right of one is removed.
ResetAutoLabel(h, spec, row) ==
  LET range(p) == spec.fields[h.labels[p]].range
      autos == {p \in LabelsOf(h, row) : range(p) = "auto"}
      gone == {<<row, p[2] + 1>> : p \in autos} \cap DOMAIN h.values
  IN IF autos = {} \/ ~\E p \in LabelsOf(h, row) : range(p) = "table" THEN h
     ELSE [h EXCEPT !.temp = Without(@, {h.values[p] : p \in gone}),
                    !.values = Without(@, gone),
                    !.detected = [f \in DOMAIN @ |->
                       IF f \in {h.labels[p] : p \in autos} THEN "table" ELSE @[f]]]

\* resetAutoEndRow: the last column of a table ends its rows; column 1 does
\* not.
ResetAutoEndRow(h, spec, row) ==
  LET columns == {p[2] : p \in LabelsOf(h, row)}
      last == h.labels[<<row, MaxOf(columns)>>]
  IN IF columns = {} \/ columns = {1} THEN h
     ELSE IF h.detected[last] = "table" /\ h.end[last] # "no" THEN [h EXCEPT !.end[last] = "yes"] ELSE h

\* A new row: the labels of the one before it are complete.
StartRow(h, spec, last, row) ==
  IF row = last THEN h
  ELSE LET done == IF last = 0 THEN h
                   ELSE ResetAutoEndRow(ResetAutoLabel(h, spec, last), spec, last)
       IN [done EXCEPT !.data = @ \cup {row}]

\* RecognizeFieldValueCell and AddModelTableField: an empty cell of a table is
\* passed over unless the field says otherwise.
AddValue(h, spec, p, cell) ==
  LET f == FindLabel(h, spec, p) IN
  IF f = None \/ (spec.fields[f].range = "table" /\ ~spec.fields[f].emptyValue /\ cell = Empty) THEN h
  ELSE [h EXCEPT !.values = With(@, p, f), !.temp = With(@, f, cell)]

\* handleCell: the state after cell p, and the row it completes, or nothing.
\* The values stay for the rows that follow.
HandleCell(h, spec, last, p, cell) ==
  LET begun == StartRow(h, spec, last, p[1])
      after == IF IsLabel(spec, p[1], cell) THEN AddLabel(begun, spec, p, cell)
               ELSE AddValue(begun, spec, p, cell)
      ends == p \in DOMAIN after.values /\ after.end[after.values[p]] = "yes"
  IN [state |-> after, row |-> IF ends THEN <<after.temp>> ELSE <<>>]

-----------------------------------------------------------------------------
(* The sheets of a file.                                                     *)

CellsOf(sheet) == UNION {{<<r, c>> : c \in DOMAIN sheet[r]} : r \in DOMAIN sheet}
Before(p, q) == p[1] < q[1] \/ (p[1] = q[1] /\ p[2] < q[2])
Later(sheet, p) == {q \in CellsOf(sheet) : Before(p, q)}
NextCell(sheet, p) == CHOOSE q \in Later(sheet, p) : \A r \in Later(sheet, p) : ~Before(r, q)

\* getSheetName: the sheet a selector finds by its number, or the first whose
\* name matches; none; or an error, if the sheet is not optional.
SheetOf(req, selector) ==
  LET found == {s \in DOMAIN req.sheets :
                  IF selector.type = "index" THEN s = selector.value ELSE req.names[s] \in selector.value}
  IN IF found # {} THEN MinOf(found) ELSE None
Missing(req, selector) == SheetOf(req, selector) = None /\ selector.optional = "no"

\* The sheets parseBase64File goes through: the first one by default.
FirstSheet == [type |-> "index", value |-> 1, optional |-> "yes"]
Selectors(req) == IF req.spec.selectors = <<>> THEN <<FirstSheet>> ELSE req.spec.selectors

-----------------------------------------------------------------------------
(* A request.                                                                *)

Req(c) == File[imp[c].name]

Idle ==
  [stage |-> "idle", name |-> Nothing, batch |-> Nothing, next |-> 0, sheet |-> None,
   at |-> <<0, 0>>, handler |-> Nothing, rows |-> <<>>]

\* esiImport and checkImportFile: a request whose file was imported before is
\* turned down. The filter on the name is a LIKE.
Check(c, name) ==
  /\ imp[c].stage = "idle" /\ imports < MaxImports
  /\ imports' = imports + 1
  /\ ~\E s \in stored : s.rows # <<>> /\ Like(s.name, name)
  /\ imp' = [imp EXCEPT ![c] = [Idle EXCEPT !.stage = "checked", !.name = name]]
  /\ UNCHANGED <<vars, stored, faults, clashed, restarted>>

\* onInit: the transaction begins, and GetBatchID is called.
OnInit(c) ==
  /\ imp[c].stage = "checked"
  /\ imp' = [imp EXCEPT ![c].stage = "init", ![c].handler = NewHandler(Req(c).spec)]
  /\ Call(c)
  /\ UNCHANGED <<stored, imports, faults, clashed, restarted>>

GetBatchID(c) ==
  /\ imp[c].stage = "init"
  /\ Lock(c) \/ ReadClock(c) \/ Advance(c) \/ Take(c)
  /\ UNCHANGED import_vars

BatchReturned(c) ==
  /\ imp[c].stage = "init" /\ Unlock(c)
  /\ imp' = [imp EXCEPT ![c].stage = "file", ![c].batch = t[c]]
  /\ UNCHANGED <<stored, imports, faults, clashed, restarted>>

Committed(c) == [name |-> imp[c].name, batch |-> imp[c].batch, rows |-> imp[c].rows]

\* Mutation of Failed: onOver(true).
FailedCommits(c) == imp' = [imp EXCEPT ![c] = Idle] /\ stored' = stored \cup {Committed(c)}

\* An error ends the import: onOver(false) rolls back.
Failed(c) == imp' = [imp EXCEPT ![c] = Idle] /\ stored' = stored

\* parseSheet: the next selector.
NextSheet(c) ==
  /\ imp[c].stage = "file" /\ imp[c].next < Len(Selectors(Req(c)))
  /\ LET req == Req(c)
         n == imp[c].next + 1
         selector == Selectors(req)[n]
     IN IF Missing(req, selector) THEN Failed(c)
        ELSE IF SheetOf(req, selector) = None
             THEN imp' = [imp EXCEPT ![c].next = n] /\ stored' = stored
        ELSE /\ stored' = stored
             /\ imp' = [imp EXCEPT ![c].next = n, ![c].stage = "sheet", ![c].at = <<0, 0>>,
                            ![c].sheet = SheetOf(req, selector), ![c].handler = ResetAll(@)]
  /\ UNCHANGED <<vars, imports, faults, clashed, restarted>>

\* getRowID, for models whose rows have no ID of their own: the batch and a
\* number that goes up.
RowID(batch, n) == <<Format[batch], n>>
TakenIDs == UNION {{RowID(s.batch, n) : n \in DOMAIN s.rows} : s \in stored}
PendingIDs(c) == {RowID(imp[c].batch, n) : n \in DOMAIN imp[c].rows}

\* handleRow saves a row in the transaction; the insert waits for one that
\* holds the same ID and fails if the ID is taken.
HandleRow(c, id, next) ==
  /\ \A d \in Caller \ {c} : id \notin PendingIDs(d)
  /\ \/ id \notin TakenIDs /\ imp' = [imp EXCEPT ![c] = next] /\ UNCHANGED <<stored, clashed>>
     \/ id \in TakenIDs /\ clashed' = TRUE /\ Failed(c)

ReadCell(c) ==
  /\ imp[c].stage = "sheet" /\ Later(Req(c).sheets[imp[c].sheet], imp[c].at) # {}
  /\ LET i == imp[c]
         sheet == Req(c).sheets[i.sheet]
         p == NextCell(sheet, i.at)
         read == HandleCell(i.handler, Req(c).spec, i.at[1], p, sheet[p[1]][p[2]])
         Row(values) == [visit |-> i.next, values |-> values]
         next == [i EXCEPT !.at = p, !.handler = read.state,
                    !.rows = IF read.row = <<>> THEN @ ELSE Append(@, Row(read.row[1]))]
     IN IF read.row = <<>> THEN imp' = [imp EXCEPT ![c] = next] /\ UNCHANGED <<stored, clashed>>
        ELSE HandleRow(c, RowID(i.batch, Len(i.rows) + 1), next)
  /\ UNCHANGED <<vars, imports, faults, restarted>>

SheetDone(c) ==
  /\ imp[c].stage = "sheet" /\ Later(Req(c).sheets[imp[c].sheet], imp[c].at) = {}
  /\ imp' = [imp EXCEPT ![c].stage = "file"]
  /\ UNCHANGED <<vars, stored, imports, faults, clashed, restarted>>

\* onOver: the transaction is committed.
OnOver(c) ==
  /\ imp[c].stage = "file" /\ imp[c].next = Len(Selectors(Req(c)))
  /\ stored' = stored \cup {Committed(c)}
  /\ imp' = [imp EXCEPT ![c] = Idle]
  /\ UNCHANGED <<vars, imports, faults, clashed, restarted>>

\* No transaction begins; or a statement fails or is refused, or excelize
\* cannot read the file or the sheet.
Fault(c) ==
  /\ faults < MaxFaults /\ faults' = faults + 1
  /\ \/ imp[c].stage = "checked" /\ imp' = [imp EXCEPT ![c] = Idle] /\ UNCHANGED stored
     \/ imp[c].stage \in {"file", "sheet"} /\ Failed(c)
  /\ UNCHANGED <<vars, imports, clashed, restarted>>

\* The service stops and starts again; its transactions are rolled back.
RestartService ==
  /\ faults < MaxFaults /\ faults' = faults + 1
  /\ Restart /\ restarted' = TRUE
  /\ imp' = [c \in Caller |-> Idle]
  /\ UNCHANGED <<stored, imports, clashed>>

ImportInit ==
  /\ Init
  /\ imp = [c \in Caller |-> Idle] /\ stored = {}
  /\ imports = 0 /\ faults = 0 /\ clashed = FALSE /\ restarted = FALSE

ImportNext ==
  \/ \E c \in Caller :
       \/ \E name \in DOMAIN File : Check(c, name)
       \/ OnInit(c) \/ GetBatchID(c) \/ BatchReturned(c)
       \/ NextSheet(c) \/ ReadCell(c) \/ SheetDone(c) \/ OnOver(c) \/ Fault(c)
  \/ \E n \in Number : SetClock(n) /\ UNCHANGED import_vars
  \/ RestartService

ImportSpec == ImportInit /\ [][ImportNext]_all_vars

-----------------------------------------------------------------------------
(* What a sheet says, read as a whole: the reference for the cell by cell    *)
(* algorithm.                                                                *)

Label(spec, sheet, p) == LabelField(spec, sheet[p[1]][p[2]])
Labels(spec, sheet) == {p \in CellsOf(sheet) : IsLabel(spec, p[1], sheet[p[1]][p[2]])}

\* A label that may be either is one of a table if its row has one of a table.
HeadsColumn(spec, sheet, p) ==
  LET range(q) == spec.fields[Label(spec, sheet, q)].range IN
  \/ range(p) = "table"
  \/ /\ range(p) = "auto"
     /\ \E q \in Labels(spec, sheet) : q[1] = p[1] /\ range(q) = "table"

\* The label a cell is a value of: one on the left that heads no column, or the
\* nearest head of its column above it, with no empty row between; the last row
\* of the header takes the place of the cell, if it is set.
LabelOf(spec, sheet, p) ==
  LET left == {q \in Labels(spec, sheet) : q = <<p[1], p[2] - 1>> /\ ~HeadsColumn(spec, sheet, q)}
      from == IF spec.maxHeader = 0 THEN p[1] ELSE spec.maxHeader + 1
      above == {q \in Labels(spec, sheet) :
                  /\ q[2] = p[2] /\ q[1] < p[1] /\ HeadsColumn(spec, sheet, q)
                  /\ from <= p[1] /\ \A r \in q[1]..from : sheet[r] # <<>>}
  IN IF left # {} THEN left ELSE {q \in above : \A r \in above : r[1] <= q[1]}

\* The cells whose values count, and those that end a row: the last column of
\* a table does, unless the field says no, and any column whose field says so.
Values(spec, sheet) ==
  {p \in CellsOf(sheet) \ Labels(spec, sheet) : \E q \in LabelOf(spec, sheet, p) :
     LET field == spec.fields[Label(spec, sheet, q)] IN
     sheet[p[1]][p[2]] = Empty /\ field.range = "table" => field.emptyValue}
FieldAt(spec, sheet, p) == Label(spec, sheet, CHOOSE q \in LabelOf(spec, sheet, p) : TRUE)
EndsTable(spec, sheet, q) ==
  HeadsColumn(spec, sheet, q) /\ \A r \in Labels(spec, sheet) : r[1] = q[1] => r[2] <= q[2]
EndsRow(spec, sheet, p) ==
  \E q \in LabelOf(spec, sheet, p) :
    LET end == spec.fields[Label(spec, sheet, q)].endRow IN
    end = "yes" \/ (end # "no" /\ EndsTable(spec, sheet, q))

\* The row cell p ends: of every field the last value up to there.
RowAt(spec, sheet, p) ==
  LET read == {q \in Values(spec, sheet) : q = p \/ Before(q, p)}
      last(f) == CHOOSE q \in read : /\ FieldAt(spec, sheet, q) = f
                                     /\ \A r \in read : FieldAt(spec, sheet, r) = f => ~Before(q, r)
  IN [f \in {FieldAt(spec, sheet, q) : q \in read} |-> sheet[last(f)[1]][last(f)[2]]]
RowsIn(spec, sheet) ==
  {[at |-> p, values |-> RowAt(spec, sheet, p)] :
     p \in {q \in Values(spec, sheet) : EndsRow(spec, sheet, q)}}

-----------------------------------------------------------------------------
(* Properties.                                                               *)

\* The selectors of a file that find a sheet, and the sheet of the nth.
Visits(name) ==
  LET req == File[name] IN {n \in DOMAIN Selectors(req) : SheetOf(req, Selectors(req)[n]) # None}
Visited(name, n) == File[name].sheets[SheetOf(File[name], Selectors(File[name])[n])]

\* The rows of the nth selector are those of its sheet, in the order of the
\* cells that end them, after the rows of the selectors before it.
ReadAs(rows, n, ref) ==
  LET earlier == Cardinality({k \in DOMAIN rows : rows[k].visit < n}) IN
  /\ Cardinality({k \in DOMAIN rows : rows[k].visit = n}) = Cardinality(ref)
  /\ \A r \in ref :
       LET row == rows[earlier + Cardinality({q \in ref : ~Before(r.at, q.at)})]
       IN row.visit = n /\ row.values = r.values

\* Labels that mean one thing: those of a field head columns, or end tables,
\* or none does; the cell to the right of the head of a column, which is first
\* taken for its value, is not one, and no row ends before that is known.
Unambiguous(spec, sheet) ==
  /\ \A p, q \in Labels(spec, sheet) : Label(spec, sheet, p) = Label(spec, sheet, q) =>
       /\ HeadsColumn(spec, sheet, p) = HeadsColumn(spec, sheet, q)
       /\ EndsTable(spec, sheet, p) = EndsTable(spec, sheet, q)
  /\ \A q \in Labels(spec, sheet) :
       LET field == spec.fields[Label(spec, sheet, q)]
           right == <<q[1], q[2] + 1>>
       IN HeadsColumn(spec, sheet, q) /\ field.range = "auto"
            /\ right \in CellsOf(sheet) \ Labels(spec, sheet) =>
          /\ right \notin Values(spec, sheet) /\ field.endRow # "yes"
          /\ \A p \in Values(spec, sheet) : p[1] = q[1] => ~EndsRow(spec, sheet, p)

\* A table whose only column is the first ends its rows by itself.
NotOneColumn(spec, sheet) ==
  \A q \in Labels(spec, sheet) :
    EndsTable(spec, sheet, q) /\ q[2] = 1 => spec.fields[Label(spec, sheet, q)].endRow # "auto"

\* Sheets with the same labels in the same cells.
SameLayout(spec, x, y) ==
  {<<p, Label(spec, x, p)>> : p \in Labels(spec, x)} = {<<p, Label(spec, y, p)>> : p \in Labels(spec, y)}

\* The sheets up to the nth selector are laid out alike, and well.
AlikeUpTo(name, n) ==
  LET spec == File[name].spec IN
  \A m \in Visits(name) : m <= n =>
    SameLayout(spec, Visited(name, m), Visited(name, n)) /\ Unambiguous(spec, Visited(name, m))
WellLaidOut(name, n) ==
  /\ AlikeUpTo(name, n)
  /\ \A m \in Visits(name) : m <= n => NotOneColumn(File[name].spec, Visited(name, m))

\* A file that was imported is stored as a whole, every row as the sheet says,
\* read on its own and at once, whatever rows, errors and other imports came
\* between (doImport, handleCell); for the sheets of a file that are laid out
\* as the first of them is.
ImportedAsRead ==
  [][\A s \in stored' \ stored : \A n \in Visits(s.name) :
       WellLaidOut(s.name, n) => ReadAs(s.rows, n, RowsIn(File[s.name].spec, Visited(s.name, n)))
    ]_stored

\* The IDs of the rows differ, as long as the service is not restarted: no
\* import is turned down because another one has used its numbers (getRowID,
\* GetBatchID).
NoIDClash == clashed => restarted
=============================================================================
