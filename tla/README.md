# TLA+ specifications of crvframe

crvframe is a framework for data-centred web applications: a service written
in Go (`src/service`: gin, MySQL, Redis) that interprets configuration files
(models, menus, flows, imports, reports), a main frame written in React
(`src/mainframe`) that executes *operations*, and views (`src/formview`,
`src/listview`, `src/report`) that run in iframes of the main frame.

This directory holds specifications of the parts of crvframe whose behaviour
depends on order, interleaving and failure, or on algorithms with many cases;
the TLC configurations that check them on small instances; and proofs, checked
by TLAPS, of what matters most for instances of any size.

    tlc -workers 2 -config data_store.cfg MCDataStore
    tlapm SessionProofs.tla

## 1. The system

### Components

| component | state | operations | specified in |
|---|---|---|---|
| flow engine, `service/flow` | the instance (list of executed nodes) in Redis, a private copy per request, the effects of nodes in MySQL and in external services | `start`, `push`, six node types | `FlowEngine` |
| sessions, `service/user/loginCache.go`, `service/common/authMiddleware.go` | four Redis keys per session | login, logout, authentication and renewal on every request | `Session` |
| user controller and OAuth, `service/user`, `service/oauth` | accounts in MySQL, authorization codes in Redis | login (both ways), logout, change of password, authorization code | login and logout in `Session` |
| ID generators, `data/batchID.go`, `esi/batchID.go`, `report/pdfReportID.go` | a counter behind a mutex | `GetBatchID`, `GetReportID` | `BatchID`, `IdSource` |
| data repository, writing side, `service/data` (`save*`, `update`, `delete*`, `batchDelete`) | rows with versions, three kinds of related rows, files on disk, transactions, the connection pool | save, update, delete, batch delete | `DataStore`; a flow's view of `save.Execute` is in `FlowEngine` |
| data repository, reading side, `service/data` (`query*`, `filter*`) | the rows read so far, nested results, variables of permission filters | query, with related fields, pages and trees | `Query` |
| import, `service/esi` | the reading position, recognized labels and values, the rows saved | check, import | `Import`, composed with `BatchID` |
| definitions, `service/definition` | configuration files, read only | permissions of models; menus, functions, operations | datasets and rights in `Query` |
| upload, download, images, `service/data` | keys in Redis, files on disk | get key, upload, download | files of rows in `DataStore` |
| operations, `mainframe/src/operation`, slices `operation`, `request`, `dialog` | current operation, queue, request, dialog, confirmation | `setOperation`, `operationDone`, `doNextOperation`, `confirm`, and the effects of `OperationDialog` | `OperationQueue` |
| tabs, `tabSlice.js`, `FrameTab` | open tabs, active tab | open, close, activate, close all, by operations and by the user at the tab bar | `OperationQueue` |
| frames, `ChildFrame.js`, slices `frame`, `data` | iframes, handshake, messages on their way | INIT, open with parameters, answers | `ListView` |
| list view, `src/listview` | slices of views: filter, page, selection, rows | filter, page, view, select all, bulk operation, refresh | `ListView` |
| form view, `src/formview` | the slice of original, changed and shown values, options of selects | edit, rows of a subtable, search, save, reload | `FormView` |
| reports, operation log, redirect, cas, log, configuration, report view | see section 7 | | not modelled |

`PROJECT.json` holds the same list with the source files of each component.

### Interactions

* The main frame posts a message or a menu click into the *queue*; the
  effects of `OperationDialog` execute it: they open a tab or a dialog, or send
  a request to the service. The answer may hold another operation, and so
  may the configuration (`successOperation`, `errorOperation`): a chain.
* Views live in iframes. They ask for their configuration when they load, send
  every query and every save as an operation to the main frame, and get answers
  as messages. `OperationQueue` has the main frame in detail, `ListView` and
  `FormView` have a view in detail and an abbreviated main frame.
* Every request but the login passes `AuthMiddleware`, which turns the token
  into user, application and roles and renews the four keys of the session.
* A flow's form node answers with an operation that opens a form; the form
  view pushes the flow again with what the user has entered. A save node
  uses the data repository, a request node calls an external service.
* Saves, updates and deletes ask the reading side for the rows that the user's
  permission filters name, over a second connection.
* Saves, imports and reports take their IDs from one of three copies of the
  same generator; an import saves its rows in a transaction.

### What is hard

* *Interleaving.* Requests run in goroutines. The flow engine loads, runs and
  saves an instance without a lock; sessions are read and written one Redis
  command at a time; a query is a chain of statements without a transaction;
  saves and deletes of one row meet in the database; the ID generator relies on a mutex.
* *Partial failure.* A node's effect is committed before the instance is saved;
  a Redis command in the middle of a session may fail; files are written while
  the transaction may still roll back; an executor may panic,
  which gin turns into a status 500, inside a transaction that stays open.
* *Crash and restart.* The service restarts with Redis, MySQL and the files intact.
* *Stale reads.* The effects of a React render act on the state of their own
  render although dispatches have happened since; a form is loaded again while it has
  changes; IDs are selected in one statement and deleted in another.
* *Order of messages.* Answers to queries of one view arrive when another is
  shown, INIT is asked before anybody listens or after the listener is removed.
* *Protocol order.* Forms answered twice, early or after the end of the flow;
  logouts with an old token; a confirmation that belongs to an earlier error.
* *Limits.* The connection pool, the default limit of a query, pages of related
  rows, depth of a tree, the last tab, the same second, a clock that is set back.

`PROJECT.json` ("hazards") lists each place in the code where this bites,
with the properties that cover it.

### What makes each component correct

* Flow: the record of an instance is a path of its graph and never ahead of
  the effects; forms complete only after they were opened; rows of one instance
  never reach another; an instance a client was told of without an error exists; effects are repeated
  only because of failures; requests end.
* Sessions: a token stands for the login it came from; only the account itself
  ends its session; a logout is final; one session per account.
* IDs: unique within a run of the service, growing in the order of the calls.
* Writing: a save with a version overwrites nothing its user has not seen; nobody
  changes rows outside their filter; related rows and files go with their row;
  every request is answered while connections are left.
* Reading: an answer holds only what was there, asked for and permitted, and all of
  it, at every depth and on every page; it ends.
* Import: what is stored is what the sheets say, as a whole or not at all.
* Operations: each runs once, in order, with its own answer; chains end and
  the queue drains; tabs have different keys and the active one is open.
* Views: rows on the screen are those the filter on the screen asks for; bulk
  operations act on them; what a form sends is the difference to what it loaded.

## 2. Modules

`FlowEngine`, `Session`, `BatchID`, `DataStore`, `Query`, `Import`,
`OperationQueue`, `ListView` and `FormView` specify the code. `IdSource` is the
abstract specification `BatchID` implements; `Import` extends `BatchID`, with
imports as the callers of the generator. The `MC...`
modules give the constants of the instances TLC checks. The modules `...Proofs`
hold the theorems. Each code module also contains, next to the
definition concerned, operators commented "Mutation of ...": plausible bugs in
that definition. Each checked property fails when one of them takes the place
of the definition, as listed in `PROJECT.json` ("mutants"): no property holds
merely because of the way the model is shaped.

### FlowEngine

State: `flowOf` (the flow an instance ID was created for), `store` (Redis),
`known` (IDs a client has received), `promised` (those received in an answer without an error), `leaked` (connections of transactions that
panicked), and per request `pc, on, mem, req, reply`. The rest is history:
`effect` counts commits and calls, `saved` and `submitted` collect rows,
`asked` the forms opened, `faults` the failures.

| action | code |
|---|---|
| `StartFlow`, `PushFlow` | `FlowController.start`, `push` up to the loop: create or load the instance |
| `RunPass`, `RunFormStage0/1`, `RunSave`, `RunRequest`, `RunMerge` | one turn of the loop `flowInstance.push` with the executor of the node |
| `RunFormPanic`, `RunSaveRefused`, `RunSaveCommitError`, `RunSavePanic`, `RunRequestFails`, `RunRequestPanic`, `RunMergePanic`, `RunUnknown` | the other ways an executor ends |
| `SaveInstance` | `saveInstance` and the answer |
| `Crash`, `Expire` | the service restarts; `flowInstanceExpired` is over |

A step is what other requests can observe: load, one node, save. Nodes hold
what their executors test: the stage, whether there is a modelID, and the
list, which may be missing, nil or a set of rows. `Reloaded` and
`FlowDataFromMap` tell what JSON does to an entry: a list that went through
Redis fails the type assertion of `getFlowDataFromMap` and is lost to a merge
node. The fields a merge copies into the first row are left out; of the selected row keys it
may copy instead, only that looking for them panics if the output has no modelID
(`RunMergePanic`; `KeySource` says which outputs are asked for keys, whether they hold any is open).

A save that fails is answered with the error and, beside it, the result with the ID of the
instance (`CreateResponse`). Such an ID is `known`, and clients may push it, but it is not
`promised`: `KnownIsStored` is about IDs that came without an error.

### Session

State: `redis` with the four keys of every session (`userID` per account,
`tokenDB`, `userRoles` and `token` per token), `old` (keys whose time to live
may run out), the clock, and per request its place, purpose, token, identity and
`todo`, the Redis commands it has still to send. History: tokens granted,
logged out, generated twice (`again`), and whether a key has expired (`lapsed`).
`SetCache` and `RemoveCache` are the command sequences of `loginCache.go`;
`Execute` sends one command, which may fail (`SetCache` stops, `RemoveCache`
goes on). A token is the second of its login, as in `GetLoginToken`; two logins
of the same second share it, and the properties except such tokens by name.

### BatchID and IdSource

One action per statement of `GetBatchID` between which another goroutine, a
restart or a change of the clock can happen. `IdSource` says what callers rely on:
an ID not used since the service started, later than every ID handed out
before the call began. The refinement maps `issued`, `before` and `t` to `used`,
`floor` and `got`. Where clocks are set back once a year an hour of dates
occurs twice; `FormatAssumption` excludes it.

### DataStore

A model ("orders") with a many-to-many field (tags), a one-to-many field with
cascade (children) and a file field. State: `table` (all rows, uncommitted
changes in place), `undo` (what each transaction has locked and found there),
`free` (connections), `disk` (file contents), `view` (what each user last saw),
and per request `pc`, `user`, `num` and `todo`, the statements and file
operations still to run. A body is turned into such statements by `Steps`, and
those that depend on what is found (`SaveRelatedField`, `GetPermissionIds`,
`DeleteIds`) put theirs at the head of `todo`.

| action | code |
|---|---|
| `Send`, `Begin` | the controller's handler; `repository.Begin` takes a connection |
| `QueryFilterData`, `GetPermissionIds` | `ProcessFilter`; `getPermissionIds`, both over a second connection |
| `CreateRow`, `UpdateRow`, `DeleteRow` | one row of a save: `createRow`, `updateRow` with `version`, `deleteRow` |
| `SaveRelatedField`, `InsertRow`, `RemoveRow`, `KeepRow`, `WriteFile`, `UnlinkFile` | `saveRelatedField` (a Go map: any order) and the three kinds of fields |
| `DeleteIds`, `DropRelated`, `SweepFiles` | `delete.Execute` and `DeleteReleated` |
| `UpdateWhere`, `DeleteWhere` | `update.Execute`, `batchDelete.Execute` |
| `Commit`, `LockTimeout`, `StepFails`, `Fail`, `CommitFails`, `Crash` | the end of a transaction, one way or the other |
| `WriteBreaks`, `RemovalFails` | errors of the file system between two statements |
| `Panic` | a failed type assertion or a nil filter inside the transaction |

Rows are locked as InnoDB does: by every statement that names or selects them,
until the end of the transaction; others wait, or their wait times out. Row
contents are abstracted to an owner (what the permission filter looks at) and a
stamp (the request that wrote it). The values of a row's `version` and the
comparison in `updateRow` are as in the code, so that `NoLostUpdate` relates
versions to stamps. `UpdateWhere` raises the version as `update.go` does.
`Files` bounds the IDs of new files. Gap locks are left out: a row inserted while
a statement waits, which that statement would have selected, is not seen by it.

The rows of a one-to-many field go through `SaveList` of the child model, with its own dataset:
its filter may be looked up over a second connection (`childQuery`), and `Reach` says which
children it lets a user change. An update of a child keeps its order; versions of
children are left out, so `KeepRow` may be refused at any time.

A file on disk is named after its field, its order, its ID and the name its client sends. The
service takes all four from the request when a file is replaced or removed and does not
compare them with `core_file` (`updateFileRow`, `deleteFileRow`). In the model clients send
field, order and ID as they have read them, and the name as it was ("own") or another. A delete
removes every file whose name has the mark `_row<id>_` anywhere in it (`Swept`): `Marks` says which
marks the name holds that a file was uploaded under. Other names hold none. `os.Create` may succeed and
the write fail (`WriteBreaks`); removals fail silently (`RemovalFails`).

Values of a type the code takes for granted (`badRow`, `badField`), and a delete of all rows
without a filter by a user who has one (`badFilter`), panic. gin answers, but nobody ends the
transaction: the request stays "panicked" with its locks and its connection until the service restarts.

### Query

State: the tables (`db`), which others write between any two statements
(`Write`), the request, `data` (the results of the filter data queries), and
`stack`: the query at work with its nested queries, each with the field it will
look up next. `GetCount` and
`GetRows` run the statements, `Resume` is what happens in memory between two of
them; `Merge...` put the rows of a related field into the
rows above, with the loops of `mergeResult` of each kind. The pure parts are
operators: `WellFormed` and `Meets` (`FilterToSQLWhere`), `ReplaceVars`
(`replaceFilterVar`, `getPathData`), `HasRight`, `MergeDatasets` and `ProcessFilter`
(`definition`), `QueryLimit` with `RightPage` (a page less than 1 refuses the query), and
`RelatedQuery` with its five kinds. The reference is
independent of them: `Fits` and `Belongs` say of whole tables which rows a filter
admits and which rows belong to one another.
The history `ever` and `always` is what an answer may and must hold.

### Import

Each caller of `BatchID` has an import of its own, `imp`. `patternContentHandler` is
a function of cells: labels are recognized by the nearest match, values are
taken from labels on the left or above, rows end at the last column of a table or
where a field says so. The reference (`LabelOf`, `Values`, `RowsIn`) says what a sheet
means without a reading position. Rows are saved one at a time, and each may fail.
Pattern matching of labels is a table in the constants (`labels`).

| action or operator | code |
|---|---|
| `Check`, `OnInit`, `GetBatchID`, `BatchReturned` | `checkImportFile`; `onInit` begins the transaction and draws the number |
| `NextSheet`, `ReadCell`, `SheetDone` | `parseSheet`: selector, cell, end of the sheet |
| `HandleCell` with `StartRow`, `AddLabel`, `AddValue` | `handleCell` and what it calls |
| `HandleRow` | `handleRow`: the insert, which may wait for another import or find its ID taken |
| `OnOver`, `Failed`, `Fault`, `RestartService` | commit, rollback, errors, restart |

`ImportedAsRead` compares what is committed with the reference, row by row and in order. It
speaks of sheets that are laid out well, `WellLaidOut`, since the code does not do what the
reference says of others:

* `Unambiguous`: the labels of one field all head columns or none does (the code
  keeps one direction per field), and the cell to the right of a label that turns out to head a
  column, which the code takes for its value until the row is over, has not been used by then;
* `SameLayout`: the sheets before this one have the same labels in the same cells (directions
  and ends of rows stay with the fields from sheet to sheet);
* `NotOneColumn`: no table has its only label in the first column (section 4).

These conditions look at the sheets alone, not at what was read of them.

### OperationQueue

State: `store`, a record of the redux slices involved and the page shown,
`due` (do effects of the last render wait), `listening` (the flag of the
message listener, as mounted). The page uses `ReactDOM.render`: a dispatch
renders at once, its effects run later (`FlushEffects`) or just before the next
dispatch from outside (`Dispatch`). `RunEffects` runs the effects of a render
that closed over `c` on the state `s` of the moment: the staleness of the code
is the difference of the two. The reducers are operators on `store`. An
operation has one of nine types (`Kinds`), which stand for the branches of the
effect that executes it; operations that merely dispatch (messages,
notifications, reload and update of frames) are "instant".

The module's constants are the configuration: which operations exist, what
follows each, which may queue.

Besides clicking menus and confirming errors the user shows and closes tabs at the tab bar
(`ActivateTab`, `CloseTabByUser`, when no dialog covers it). Such a dispatch renders with
effects still due, which look for tabs among those of their own render: the history `lost` keeps the
keys of tabs that were closed while the current operation was about to show them.

Left out: the dialog's log tab, which is opened by an effect of its own and can
only make effects run earlier; the redirect of an OAuth logout; the field
`operation` that `closeDialog` puts into the output; the page MenuGroup.

### ListView

State: `tab` (parameters, whether its frame has loaded, is waited for, was sent
INIT), `list` (the window in the frame: its stage, the timer of `FrameDialog`, the
slices), messages `up` and `down`, and `main`, an abbreviated main frame with the
current operation, the queue and the confirmation. Every change of the query
parameters sends a query, as the effect of `ListTable` does; the answer is filed
under the view that is current when it arrives (`SetData`). `Load`, `AskInit`,
`Timeout`, `AnswerInit`, `OtherInit` and `ReceiveLateInit` are the handshake, including
frames that load slowly or ask at the same time. A link may name a view, a filter, both or
none; without a filter, `SetViewFilter` leaves filter and page as they are.

### FormView

State: `row` (the row in the database with its version), `form` (the slice: origin,
updated, update; options of the second select), the operation the main frame runs
for it, and the message on its way. `UpdateNode`, `ModiField`, `ModiRow`, `CreateRow`,
`DeleteRow` are the reducers of `dataSlice.js`; `DoOperation` sends the difference, which
`Save` applies to the row and `Refuse` turns down. `Apply` is
the reference: what a difference makes of a row. Both selects can be cleared. Without a parent the
query for options has no filter on it, and all children are offered (`Fits`): a row may then
have a child and no parent. A change of the parent, clearing included, clears the child.

## 3. Runs

Actions and their disjuncts all fire in the passing runs. Deadlock is not
checked: every system here may stop, when all bounds are used up and nobody asks
for anything more.

| run | shows | bounds |
|---|---|---|
| `flow_concurrent` | `ExecutionFollowsGraph`, `RecordedImpliesDone`, `KnownIsStored`, `NoForeignRows` while two requests work on one instance or on two, with crashes and failures of saves and of Redis | 2 handlers, 2 instances, one flow (`lookup`: form, request, merge, save), two results of the request, history counters saturate at 1 |
| `flow_sequential` | `ProgressIsKept`, `RepeatsPaidByFaults`, `EveryRequestAnswered`, `FormAnsweredOnlyIfAsked` for unusual bodies | 1 handler, 1 instance, 6 flows (with a dead end, two forms in a row, selected row keys, a missing node, a missing start), 6 bodies, pool of 2, counters saturate at 2 |
| `flow_failed_continue` | finding: a failed flow is lost | 1 handler, 1 instance |
| `session_concurrent` | `ServedAsOwner`, `KeysAgree`, `EndedByOwner` with failing commands | 2 handlers, 2 accounts with the same user ID in two applications, 2 seconds |
| `session_sequential` | `LogoutIsFinal`, `OneSession`, `SessionLasts` with expiring keys and logins in the same second | 1 handler, 2 accounts, 2 seconds |
| `data_store` | `NoLostUpdate`, `OthersRowsKept`, `NoOrphans`, `FilesMatchRows`, `RequestsAnswered` with lock waits, deadlocks, panics, failing statements, writes and commits, a crash | 2 transactions of an administrator and of a filtered user, who may not change the child, 2 orders, one tag, one child, 3 files, one of them uploaded under a name with the mark of the other order, 11 bodies that meet on them, 2 connections, 1 fault |
| `query` | `AnswerIsSound`, `AnswerIsComplete`, `PageIsExact`, `DescentEnds` with writes and failures between statements | 8 requests (one for page 0), 4 users, 3 datasets, 3 items in two trees, 2 teams, limit 2, 2 writes, 1 fault, depth 6 |
| `imports` | `ImportedAsRead`, `NoIDClash`, `ImplementsIdSource` with failing saves, restarts and a clock set at will | 2 imports, 5 files (labels above, beside, empty rows and values, two sheets, sheets missing), numbers 0 to 2, 1 fault |
| `ops_queue` | `RunsOnce`, `QueuedIsKept`, `QueueInOrder`, `AnswerIsOwn`, `TabsSound`, `ChainEnds`, `QueueDrains` | 11 operations (one of them of no supported location), 4 accepted (two of them when the page is entered), 2 tabs that the user may show and close, all ways a request may end |
| `ops_set_lost` | finding: an operation that was set is never executed | 4 accepted |
| `list_view` | `ShownIsAsked`, `BulkFromList`, `ListSettles` | 2 views, 2 pages, a filter, links with and without parameters, 4 actions of the user, the tab opened twice, 1 operation of others, 1 fault |
| `form_view` | `UpdateIsDifference`, `SavedAsShown`, `ChildOfParent` | 2 parents with a child each, a table of up to 2 rows, 3 edits, 2 saves, 1 save of another user, 1 reload, 1 search |

Why the bounds are enough to mean something: a conflict over a flow instance,
a session, a row or the counter takes two actors and a third makes no difference that
the code tells apart, for the code has no operation over several instances or
sessions; two instances are needed for rows to cross over, two accounts with one
user ID for keys to collide, two logins of an account for its earlier token to
be removed; two orders for locks to be taken in opposite orders, two connections
for filters to use up the pool. A query of three items has parent, child and
grandchild, a limit of two cuts, and two writes can move a row away and bring another
in between two statements. Saturating counters lose the exact number of repeats, so
`RepeatsPaidByFaults` is checked up to the second effect of a node; a third
repeats the step that makes the second. Four accepted operations allow one
current, one that follows and two queued, which is what order and overwriting need.
In the list, four actions suffice for a filter, a page, another view and a bulk
operation while answers are on their way. The proofs lift the bounds for what they cover.

Properties that hold for one request at a time only (`ProgressIsKept`,
`RepeatsPaidByFaults`, `LogoutIsFinal`, `OneSession`, `SessionLasts`) are checked with one
handler. With two they fail, and the code claims nothing: two pushes of an
instance each run the nodes and the later save wins; a renewal that overlaps a
logout brings the session back. `OneSession` and `SessionLasts` end with the first key
that expires, as the four keys of a session may expire in any order.

Some properties name what they except, because the code does not promise more:

* `KnownIsStored`: IDs that came with an error of the save, and expired instances.
* `RepeatsPaidByFaults`: the last node of a flow, which each further push executes again.
* `NoLostUpdate`: saves without a version (the client may leave it out) and rows that were
  deleted and created anew.
* `OthersRowsKept`: a delete may remove a row that left the filter after it was selected.
* `NoOrphans`: orders that a batch delete removed, which leaves related rows behind.
* `FilesMatchRows`: files `torn` by what the code does not undo or compare: those a failed request
  touched; those replaced or removed under another name; those written although their row
  was gone; those that could not be written or removed; and those of other orders that a delete
  swept away because of a mark in their name.
* `UpdateIsDifference`, `ChildOfParent`, `SavedAsShown`: data that came while there were changes;
  `ChildOfParent` also a child chosen from options fetched for another parent.
* `AnswerIsComplete`: answers a limit has cut. `DescentEnds`: trees with a cycle.
* `BulkFromList`: lists that are not up to date. `ListSettles`: frames that were never initialised, and
  queries that were refused or lost.
* `TabsSound`: the user closed a tab while an operation was about to show it. The effect finds it
  in the tabs of its render and makes a key active that no tab has; no tab is shown
  until one is clicked or opened. Without the exception the run fails with this.
* `ChainEnds`, `QueueDrains`: the states in which an operation is current that no branch completes (`Stuck`).
* `RequestsAnswered`, `EveryRequestAnswered`: see the next section.

The hazards in `PROJECT.json` that have a note and no property are those whose harm is excepted
in this way: the models have them, and no property claims that they do no harm.

### Fairness

`FlowEngine!Fairness`: a request with work to do goes on, because goroutines are
scheduled; no fairness for crashes, clients or Redis, and none for a request node: its
`http.Client` has no timeout, and a service that never answers keeps the request for good.
`EveryRequestAnswered` therefore ends where a service is being called (and begins anew when it has
answered), and excepts the state in which every connection of the pool
is held by a transaction that panicked: then saves wait for good.
`DataStore!Fairness`: a request that can begin or go on does, and a lock wait that
cannot end times out (`innodb_lock_wait_timeout`, deadlock detection), also one for a lock
that a panicked request keeps. `RequestsAnswered` counts a panic as an answer, which gin gives, and
excepts the state `PoolExhausted`, in which every connection belongs to a transaction that panicked or
waits for another one to look up its filter. Without the exception the run fails with either.
`OperationQueue!FairSpec`: the scheduler of React runs the effects of a render,
and a request ends with an answer or an error, as fetch promises do (a browser gives up one
that is never answered). Users are never
assumed to act, which is why `QueueDrains` excepts the states that wait for them.
`ListView!Fairness`: messages between windows are delivered and handled, requests
end, queued operations are taken; nothing about the user, so that
`ListSettles` excepts a confirmation that is open and a tab that is closed.

## 4. Findings

* `flow_failed_continue` (`nodeExecutorSave.go:26`): when the transaction of a
  save node is refused, the executor dereferences a nil result; the request
  panics and the instance is not cached, though the comment at
  `controller.go:105` says a failed flow can be continued.
* `ops_set_lost` (`OperationDialog.js:443`): the effect that takes the next
  operation tests the state of its own render; an operation set since is
  overwritten, though `operationSlice.js:45` says that none may be set
  while the current one has not finished.

Seen while modelling; the models follow the code in all of these, no run
states them:

* `Completed` of a flow instance is never set (`flow/controller.go:83`, `151`):
  finished flows are cached, and a further push executes the last node again
  (`instance.go:85` tells otherwise). `RepeatsPaidByFaults` excepts last nodes.
* The list of an output reloaded from Redis never reaches a merge
  (`nodeExecutorMerge.go:113`).
* An operation that opens the location "current" is only logged and stays
  current, so that all others wait (`OperationDialog.js:332`). `ops_queue` has such an
  operation; `ChainEnds` and `QueueDrains` fail without their exception, `Stuck`.
* A tab that the user closes while an operation is about to show it becomes the active one
  (`OperationDialog.js:150`), see `TabsSound`.
* A failed save of a flow instance is answered with an ID that the next push may not find
  (`flow/controller.go:87`).
* A file that is replaced under another name leaves its old content, and a row with the old name
  (`saveFile.go:304`); deleting an order removes files of others that have its mark in their name
  (`deleteReleatedModel.go:44`).
* A value of another type than expected leaves the transaction of a save open, with its locks
  (`save.go:103`); so does a delete of all rows without a filter (`delete.go:66`).
* Logout leaves the queue, so that queued operations run in the next login; an
  answer TOKEN_EXPIRED to a query of the last login logs the next one out.
* `setOperation` empties the list of results and leaves `needConfirm`
  (`operationSlice.js:57`): the user may be asked to confirm a list without an error,
  against the comment at `OperationDialog.js:381`.
* Two logins of an account within a second share their token
  (`loginToken.go:11`); `again` names such tokens.
* The filters of two datasets are merged into a slice of Go maps
  (`definition/definition.go:86`), which the conversion to SQL does not read
  (`filterToSQLWhere.go:137`) unless replacing a variable has decoded it anew: without a
  variable a user with two datasets is refused.
* A many-to-one field puts the filter of its query as a pointer
  (`queryManyToOne.go:64`), so that the filter the field itself has is ignored, though the
  comment at line 48 speaks of it.
* A variable of a filter that cannot be replaced stays in the SQL as text (`Text` in
  `Query`), related queries run without the permission filter of their model, and a query
  whose columns lack the ID panics when it has related fields (`Resume`).
* The row and the direction that were detected for a field stay from one sheet of
  an import to the next (`patternContentHandler.go:391`, against the comment at
  `esiFile.go:110`): a later sheet laid out otherwise loses values.
  `ImportedAsRead` speaks of sheets laid out alike.
* The last label of a row ends the rows of its table, as the comment at
  `patternContentHandler.go:400` says, but only if its column, counted from 0, is greater than 0
  (line 387). Of a table with a single column at the left of the sheet no row is saved, and the
  import succeeds. `ImportedAsRead` excepts such tables (`NotOneColumn`), and fails without the
  exception; with a field that says `endRow: yes` they are read.
* A file that was imported before is turned down, but the check sees only what is committed
  (`esi/controller.go:93`): two imports of one file at the same time are both stored.

## 5. Proofs

`BatchIDProofs`, for any number of callers, any numbers and any clock:
`SpecTypeOK`, `SpecIdsDiffer`, `SpecImplementsIdSource`. `IdsDiffer` is not inductive: it
needs to know who is between Lock and Unlock. The inductive invariant is
`IInv == TypeOK /\ MutexInv /\ HeldInv`: a caller inside holds the mutex, so that at
most one is inside; every number issued is at most the counter, which is not
issued yet when a caller is about to take it; numbers in hand are issued and differ. Each
step then is a step of `IdSource` or a stutter (`StepIssues`), and Take is the one
that issues.

`FlowEngineProofs`, for any flow graphs, instances, handlers, rows, bodies, faults and bounds:
`SpecTypeOK`, `SpecExecutionFollowsGraph`, `SpecRecordedImpliesDone`,
`SpecFormAnsweredOnlyIfAsked`. The three speak of lists in Redis and of lists in
requests; a list moves between the two, so they are proved together:
`IInv == TypeOK /\ StoreSound /\ HandlersSound`, where a list is *sound* when it is a
path of its flow and each entry is done and asked, and a handler at work
holds a sound list for an instance that exists. Lemmas show that soundness
survives growth of the history (`SoundGrows`: effects and asked forms are never
taken back), JSON (`SoundReloaded`), replacing the last entry and appending one
(`SoundReplace`, `SoundAppend`). `AdvanceStep` and `AbortStep` treat what all executors
share, then there is one lemma per action.

`SessionProofs`, for any accounts, handlers, roles, clock and failures: `SpecTypeOK`,
`SpecServedAsOwner`, `SpecKeysAgree`, `SpecEndedByOwner`. The properties speak of what is
stored and of who is served, but a value passes from Redis to a handler, into the
commands it has still to send and back. `IInv == TypeOK /\ OneLogin /\ RedisFits /\
HandlersKnow /\ CommandsFit` says of all three that they come from the login of
their token (unless the token was generated twice): `Fits` of a key and its value,
`Known` of a handler at each place, `Commands` of what it has to send, where only
`RemoveUser` sends deletions, and only for the account of the token. Lemmas show
that keys of different kinds differ, that the three survive new logins, and that a tail
of commands fits if the whole did.

`SessionProofs` goes on with requests that come one at a time, as in the run
`session_sequential`: `SpecLogoutIsFinal`, `SpecOneSession` and `SpecSessionLasts`, under the
hypothesis `OneAtATime` (one handler, and Redis does not fail; keys may expire). With two
handlers all three are false (section 3). `SInv` follows the one request at work: of the
commands it has still to send it knows whether they renew, set or remove (`Places`), and
those it has sent have been carried out on keys that are fresh, so that none of these can
expire before the last is sent; what a request has read is what is there (`Reads`); every live
token is the one its account is registered with (`Sessions`); a granted token is live until its
account logs in or out again (`Lasts`). The last three hold until the first key expires
(`lapsed`), `Final` always: no token that was logged out is live, or in the hands of a
request.

`DataStoreProofs`, for any users, rows, bodies, requests, connections and failures:
`SpecNoLostUpdate` and `SpecOthersRowsKept`. Both relate a row that was read, in an
answer or by the selection of a delete, to the row that is written
later. `IInv` has four parts: types; locks and request numbers (`LocksApart`,
`LocksHeld`, `Numbered`: a row is locked by one transaction, and requests at work
have numbers of their own); `Fits`, of everything that was read and what is committed
in its place (with the same `born`, the version is no greater, and the same version is the
same write; no request at work has written it); and `Draft`, of what a transaction
has made of each row it locked. `DraftFits` is the core: a commit
replaces a row by a draft of it, which only ever raises the version, so what
fitted the row fits the draft. There is one lemma per action; statements share
`ExecuteKeeps`, ends of transactions `ReleaseKeeps`, other steps `ContinueKeeps`. An action
property then needs only that a step that writes a row is a statement of the request that
has it locked (`WroteIs`).

`DataStoreProofs` goes on with `SpecNoOrphans`. Besides the property itself,
`KInv` says of each transaction (`Tidy`) that what it would commit is whole but for the
related rows it has still to delete (`WholeFor`); that it has the order of every
related row it has added locked (`OrdersLocked`), and that order is there while rows are
to be added to it (`StepsReady`); and that it finishes one row of a save before it
begins the next (`Sorted`). The transactions can then be looked at one by one: a
delete that finds rows of its order waits for the transaction that has them
locked, and one that would add rows to the order waits for the delete.

The third part is about contents on disk: `SpecFilesMatchRows`, on top of `IInv` and
`KInv`. A row and its content change in two steps, and nothing takes the second back when
a transaction ends. `FileInvariant` says that there is an order for each file, its home, such
that rows, answers and contents know the file under its home only, and whoever has
touched the file has locked its home (`Kin`); that a file nobody at work has touched is on disk,
under its own name and no other, if and only if its row is committed (`Settled`); and of each request
(`AtWork`) that the steps it has planned are for files of its own orders (`Placed`), that the two
steps of a file follow each other (`Paired`: insert and write, unlink and write or remove, drop and
sweep), and that between them only the file of the step at work may be half done (`Due`).
The locks on homes keep the requests apart: `OthersAtWork`. A new file gets its home when its
ID is drawn (`HomeFree`), so the homes are quantified in the invariant and not fixed
beforehand. Files that are `torn` are left out of `Settled` and `Due`, and a step that
names a file otherwise, sweeps a file of another order, or fails, tears the file at
once; so the invariant has to show that no other file is touched outside its home. A request that panicked keeps
its locks, and with them the files it has touched.

`FlowEngineProofs` goes on with rows: `SpecNoForeignRows` and
`SpecKnownIsStored`, on top of `IInv`; the second says that what is promised is
stored, for the answer without an error leaves after the save, and only expiry removes an instance. What a save node commits comes from the request of its
handler, and that from a client, a service, or the output of an earlier node, which may
have gone through Redis; so `RInv` says of the requests, of the lists of handlers and of
those in Redis that they hold rows of their own instance only. Lemmas show that
neither JSON (`ReloadedRows`) nor the search of a merge (`FlowDataRows`) brings others in.

The third part of `FlowEngineProofs` is about requests that come one at a time, as in the
run `flow_sequential`: `SpecProgressIsKept` and `SpecRepeatsPaidByFaults`, under the hypothesis
`OneHandler`; with two handlers both are false (section 3). `KInv` says that what a
handler will save keeps the progress of what is stored. For the second theorem flows must
have no cycle (`Acyclic`: a rank grows along their edges), since a cycle is a flow that is
meant to execute its nodes again. `PInv` says of each list, at work or at rest, that
it passes no node twice and stops at a completed node only where the flow ends (`Tidy`), and
that a node has been executed at most once per failure, and once more only if the list
has passed it (`Paid`): the list that a push goes on from tells what it will not execute
again.

`ListViewProofs`, for any views, conditions, filters, links and pages, and any number of
messages on their way: `SpecShownIsAsked` and `SpecBulkFromList`. Answers reach the
list along a line of four sequences: the messages to the frame, the current
operation of the main frame, its queue, and the messages from the frame. `IInv` says
that the last query sent is the last of this line until its answer is shown, that no
query is left in the line then, and that the view on the screen asks for what the last query
asked for. Each action moves messages along the line, removes some or adds
some at its end; the lemmas `Line...` treat these cases once. A query that
overtakes others, or is given up, is marked so in `latest`, and counts as shown never again.

`FormViewProofs`, for any row, table and hierarchy of values and any number of edits, saves,
reloads and other users: `SpecUpdateIsDifference`, `SpecSavedAsShown` and
`SpecChildOfParent`. The properties compare whole rows; the invariant says the same field by
field and key by key (`Differ`), and each edit of `dataSlice.js` keeps that
(`FieldDiffers`, `RowDiffers`, `RemovedDiffers`). A save meets another row than the one its
changes were made from only if somebody has saved it meanwhile: so `FitsRow` says of the
data in the form and in an answer that they are the row or have an older version,
and `SaveFits` of a save on its way that with the version of the row it makes of it what
its user saw. `DifferMeans` leads back to the properties.

`OperationQueueProofs`, for any operations, chains of follow-ups, tabs, operations at
login and number of operations set: `SpecQueueInOrder`, `SpecQueuedIsKept`,
`SpecAnswerIsOwn` and `SpecTabsSound`. All reducers change one record, so the invariant,
`Good`, is one of a single state: `Numbers` (numbers are given in order, and a number that was
executed or queued was given), `InOrder`, `Kept`, `Own` and `TabsOf`. The difficulty is in
the effects of a render: they decide by the state `c` that the render has
closed over, and change the state `t` that earlier effects have made of it. `Stale(c, t)`
says what the two still have to do with each other: the tab an effect is about to show, the same operation
if `c` had one, and otherwise no operation in `t` that was queued or waits for an answer. A tab
that an effect finds in `c` is open in `t`, or the user closed it (`lost`). One
lemma for each reducer and each effect shows that `Good` is kept under `Stale`. A
login sets the operations of its page in a loop; `LoopKeeps` follows it by induction, stated with
sets, as the minimal counterexample in the natural numbers.

`SpecRunsOnce` has the hypothesis that no chain of follow-ups returns to an operation it
has begun with (`Acyclic`; an operation that follows itself is executed again, as
configured). `OInv` says that what was executed under the number of the current
operation comes before it in its chain, or is the operation itself, waiting for its
answer (`Once`), and that a page which is not shown has no effects left to run. The second
half is needed where the validation of an operation throws: the reducer then leaves an
operation current that has been executed, and only because React unmounts the page is it
not executed again.

`ImportProofs`, for any files, specifications and number of imports at a time:
`SpecNoIDClash`, and `ImportImplementsIdSource`. The proof composes: each step of an import
is a step of the generator or leaves it alone (`StepOfGenerator`), so `BatchIDProofs!IInv`
holds of imports, too. `RowInv` adds that the numbers of imports at work, of those
stored, and of one that was taken but not returned yet were given out and differ. A
clash would need two rows with the same formatted number, and formatting is
injective (`FormatAssumption`).

The second part of `ImportProofs` proves `SpecImportedAsRead`, again for any files,
specifications and number of imports. The code sees one cell at a time and changes its mind:
a label that may head a column counts as one with its value beside it until the row is over, so
that what the handler holds in the middle of a row is not what the sheet says. The proof goes
from small to large.

* One sheet: `HandlerKnows` says what the handler holds when the cells up to `p` have been read.
  The labels are those of the sheet up to `p`; the direction of a field (`HeadsKnown`) is settled for
  labels of earlier rows only; the values are those of the sheet but for the ones beside a label of
  this row that is about to head a column; the row in hand has the last value of
  each field. `FindLabelIs`, `ResetAutoLabelIs`, `ResetAutoEndRowIs`, `StartRowIs`, `AddLabelIs` and
  `AddValueIs` follow the code, and `HandleCellReads` sums them up: after cell `p` the handler
  knows the sheet up to `p`, and it gives a row exactly if `p` ends one, the one `RowAt` says.
* Sheet to sheet: directions and ends are kept, so `Carried` says of them that they come from
  the labels of a sheet with the layout of the next (`CarriedOver`, `NewHandlerIs`, `ResetAllIs`).
* Rows: `RowsRead` counts. Those of earlier selectors are complete, those of the current
  one are the rows that end up to `p`; the cells are finite and their order total
  (`AppendKeeps`, `AppendReads`, `RowsUpToNext`).
* Import: `ReadInv` holds these of each import at work, with `SheetsRead` of the sheets it has
  finished; there is one lemma per action. `OnOver` then commits what `SheetsRead` says.

The theorems rest on the assumptions on constants in the modules, on the hypotheses
named above where a theorem has one, and on nothing else. TLC evaluates these assumptions in each
run, and has checked each inductive invariant on instances like those of the runs (`ReadInv`
to the end with one import at a time; with two at a time up to 42 000 states, since evaluating it
takes long).

Model-checked only: liveness (`EveryRequestAnswered`, `RequestsAnswered`,
`ChainEnds`, `QueueDrains`, `ListSettles`), which is out of the prover's reach, and
the properties of `Query`. Filters are nested, and so are the results of related fields: `WellFormed`,
`ReplaceVars`, `Resume`, and in the reference `Sound` and `Complete`, are recursive operators over
this data, which the prover's backends do not take, and what they compute for every
filter would need an induction over data. The four properties of `Query` are about nothing but
that.

## 6. What could follow

* A version of `Query` for one level of related fields without recursion, about which
  `AnswerIsSound` could be proved.
* The main frame of `ListView` as an abstraction that `OperationQueue` implements; the
  two are separate modules now, with the same reducers in different detail.

## 7. Not modelled

* *Reports*: SQL from templates and the layout of PDF files; their keys are one read
  and one write of a cache, their IDs those of `BatchID`. *Report view*: charts.
* *Operation log*: one row for each request, never read by the program.
* *redirect, cas, log, configuration*: they forward, look up or write, and keep no
  state that outlives a request.
* *Keys of uploads and downloads*: written once, read once, they expire.
* *OAuth server*: the authorization code, a value written and read once; *change of
  password*: one statement.
* *Definitions* apart from datasets: filtering of menus and operations by role.
* Of queries: sorters, summaries, distinct, filters in the request's own filter data and the text of
  the SQL. Of list views: widths of columns and the like. Of forms: controls other
  than selects and tables, which call the same reducers with a value.
* *Frames in dialogs*: the same handshake as in tabs.
* SQL text, JSON layout, spreadsheets, PDF, charts and pages are formatting. The
  password check and its hash, the checksum of bodies (a verdict in `Session`) and
  CORS are not behaviour over time. The sample applications and build scripts are data.
