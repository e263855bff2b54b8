------------------------------- MODULE ListView -------------------------------
(* A list view (src/listview) in an iframe of a tab of the main frame        *)
(* (src/mainframe): the handshake when the frame loads, the redux slices of  *)
(* the view, the queries its table sends whenever their parameters change,   *)
(* the operations its buttons send, and the main frame, which runs one       *)
(* operation at a time and posts the results back. OperationQueue has the    *)
(* main frame in detail; here an operation and the UPDATE_FRAME_DATA or      *)
(* RELOAD_FRAME_DATA that follows its success are one step.                  *)
EXTENDS Naturals, Sequences, FiniteSets

CONSTANTS
  Views,        \* the views of the model, all in the tab
  First,        \* views[0]
  Conds,        \* conditions on rows
  ViewFilter,   \* view: the conditions its configuration adds to every query
  Filters,      \* the filters a user sets, each a set of conditions
  Links,        \* the params menu items open the tab with
  Pages,
  MaxActs, MaxOpens, MaxOthers, MaxFaults,
  NoParams      \* nothing: no rows, no view, no filter

Asked == [view : Views, conds : SUBSET Conds, page : Pages]

ASSUME ListAssumption ==
  /\ First \in Views /\ ViewFilter \in [Views -> SUBSET Conds]
  /\ Filters \subseteq SUBSET Conds /\ {} \in Filters
  /\ Links \subseteq [view : Views \cup {NoParams}, filter : Filters \cup {NoParams}]
  /\ Pages \subseteq Nat /\ 1 \in Pages
  /\ NoParams \notin Views \cup Asked
  /\ {MaxActs, MaxOpens, MaxOthers, MaxFaults} \subseteq Nat

VARIABLES
  tab,    \* the tab: whether it is open, the params it was opened with, and
          \* whether its frame has loaded, is waited for, and was sent INIT
  list,   \* the window in the frame: its stage, its timer, the slice data
  up,     \* messages from the frame to the main frame
  down,   \* messages to the frame
  main,   \* current operation (none or one), queue, needConfirm
  opens, acts, others, faults,
  latest, \* history: the last query sent, its number, and what became of it
  bulk    \* history: the last bulk operation that was accepted

vars == <<tab, list, up, down, main, opens, acts, others, faults, latest, bulk>>
bounds == <<opens, acts, others, faults>>

-----------------------------------------------------------------------------
(* The slices of the view.                                                   *)

\* initViewItem: a view as it is before its first query.
NewView == [filter |-> {}, page |-> 1, rows |-> NoParams, all |-> FALSE]

\* A window whose script has not run yet.
Blank ==
  [stage |-> "script", timer |-> FALSE, current |-> NoParams, queueable |-> TRUE,
   views |-> [v \in Views |-> NewView]]

Here(l) == l.views[l.current]
Change(l, view) == [l EXCEPT !.views[l.current] = view]

\* setFieldFilter, resetFieldFilter, setFilter: the query starts at page 1.
SetFilter(l, f) == Change(l, [Here(l) EXCEPT !.filter = f, !.page = 1])
SetPagination(l, p) == Change(l, [Here(l) EXCEPT !.page = p])
SetCurrentView(l, v) == [l EXCEPT !.current = v]
SetSelectAll(l, b) == Change(l, [Here(l) EXCEPT !.all = b])

\* setViewFilter: the params of the link that opened the tab once more; one
\* without a filter leaves filter and page as they are.
SetViewFilter(l, params) ==
  LET shown == IF params.view = NoParams THEN l ELSE SetCurrentView(l, params.view)
  IN  IF params.filter = NoParams THEN shown ELSE SetFilter(shown, params.filter)

\* refreshData with queryQueenable, as RELOAD_DATA does.
RefreshData(l) == [l EXCEPT !.queueable = TRUE]

\* setData: the rows go to the view that is current now.
SetData(l, rows) ==
  [Change(l, [Here(l) EXCEPT !.rows = rows, !.all = FALSE]) EXCEPT !.queueable = FALSE]

\* initDataView: the view and the filter the tab was opened with.
InitDataView(l, params) ==
  SetViewFilter([l EXCEPT !.stage = "shown",
                   !.current = IF params.view = NoParams THEN First ELSE params.view], params)

\* The filter of a query and of an operation: ListTable and ListOperationBar
\* merge the user's conditions with those of the view in the same way.
QueryFilter(l) == Here(l).filter \cup ViewFilter[l.current]

QueryParams(l) == [view |-> l.current, conds |-> QueryFilter(l), page |-> Here(l).page]

-----------------------------------------------------------------------------
(* What the frame does. Every change of the parameters of a query, or of the *)
(* object that holds them, renders the table, whose effect sends a query.    *)

Message(kind, queueable) ==
  [kind |-> kind, queueable |-> queueable, n |-> 0, params |-> NoParams, seen |-> NoParams]

\* The view is rendered with slices l, whose query parameters are new.
Render(l) ==
  /\ list' = l
  /\ latest' = [n |-> latest.n + 1, params |-> QueryParams(l), fate |-> "sent"]
  /\ up' = Append(up, [Message("query", l.queueable) EXCEPT
                !.n = latest.n + 1, !.params = QueryParams(l)])

\* The user's hand is free: the list is shown and no confirmation covers it.
CanAct == tab.open /\ list.stage = "shown" /\ ~main.confirm /\ acts < MaxActs

UserSets(l) ==
  /\ acts' = acts + 1
  /\ Render(l)
  /\ UNCHANGED <<tab, down, main, opens, others, faults, bulk>>

ChangeFilter(f) == CanAct /\ UserSets(SetFilter(list, f))
ChangePage(p) == CanAct /\ p # Here(list).page /\ UserSets(SetPagination(list, p))
Refresh == CanAct /\ UserSets(list)

ChangeView(v) == CanAct /\ v # list.current /\ UserSets(SetCurrentView(list, v))

SelectAll ==
  /\ CanAct /\ ~Here(list).all
  /\ list' = SetSelectAll(list, TRUE) /\ acts' = acts + 1
  /\ UNCHANGED <<tab, up, down, main, opens, others, faults, latest, bulk>>

\* Mutation of DoOperation: the filter of the view's configuration is left out.
DoOperationOwn ==
  /\ CanAct /\ Here(list).all
  /\ up' = Append(up, [Message("bulk", FALSE) EXCEPT
             !.params = [QueryParams(list) EXCEPT !.conds = Here(list).filter],
             !.seen = [rows |-> Here(list).rows, fate |-> latest.fate]])
  /\ acts' = acts + 1
  /\ UNCHANGED <<tab, list, down, main, opens, others, faults, latest, bulk>>

\* ListOperationBar.doOperation: an operation on all rows of the filter, such
\* as the batch delete; history: the rows the user sees.
DoOperation ==
  /\ CanAct /\ Here(list).all
  /\ up' = Append(up, [Message("bulk", FALSE) EXCEPT
             !.params = QueryParams(list),
             !.seen = [rows |-> Here(list).rows, fate |-> latest.fate]])
  /\ acts' = acts + 1
  /\ UNCHANGED <<tab, list, down, main, opens, others, faults, latest, bulk>>

\* The page's script has run: its listener is there, and 200 ms later it
\* asks for INIT.
Mount ==
  /\ tab.open /\ list.stage = "script"
  /\ list' = [list EXCEPT !.stage = "mounted", !.timer = TRUE]
  /\ UNCHANGED <<tab, up, down, main, latest, bulk>> /\ UNCHANGED bounds
AskInit ==
  /\ tab.open /\ list.timer
  /\ list' = [list EXCEPT !.timer = FALSE]
  /\ up' = Append(up, Message("init", FALSE))
  /\ UNCHANGED <<tab, down, main, latest, bulk>> /\ UNCHANGED bounds

\* receiveMessageFromMainFrame: nobody listens yet, or the reducer finds no
\* current view and throws.
Ignored(m) ==
  /\ \/ list.stage = "script"
     \/ m.kind \notin {"init", "conf"} /\ list.stage # "shown"
  /\ UNCHANGED <<list, up, latest>>

\* INIT: the view asks for the configuration of the model.
ReceiveInit(m) ==
  /\ m.kind = "init" /\ list.stage = "mounted"
  /\ list' = [list EXCEPT !.stage = "configuring"]
  /\ up' = Append(up, Message("conf", TRUE))
  /\ UNCHANGED latest

\* MODEL_CONF: the views are set up; one an earlier page of the tab has asked
\* for may come as well, before INIT or as a second one, which renders anew.
ReceiveConf(m) ==
  /\ m.kind = "conf"
  /\ \/ /\ list.stage \in {"mounted", "configured"}
        /\ list' = [list EXCEPT !.stage = "configured"]
        /\ UNCHANGED <<up, latest>>
     \/ list.stage = "configuring" /\ Render(InitDataView(list, tab.params))
     \/ list.stage = "shown" /\ Render(list)

\* INIT when the configuration is there already.
ReceiveLateInit(m) ==
  m.kind = "init" /\ list.stage = "configured" /\ Render(InitDataView(list, tab.params))

\* QUERY_RESULT.
ReceiveData(m) ==
  /\ m.kind = "query" /\ list.stage = "shown"
  /\ list' = SetData(list, m.params)
  /\ latest' = IF m.n = latest.n /\ latest.fate = "answered" THEN [latest EXCEPT !.fate = "shown"]
               ELSE latest
  /\ UNCHANGED up

\* RELOAD_DATA.
ReceiveReload(m) == m.kind = "reload" /\ list.stage = "shown" /\ Render(RefreshData(list))

\* FRAME_PARAMS of a link to a tab that is open, which renders unless it names
\* neither a filter nor another view.
ReceiveParams(m) ==
  /\ m.kind = "open" /\ list.stage = "shown"
  /\ IF m.params.filter = NoParams /\ m.params.view \in {NoParams, list.current}
       THEN UNCHANGED <<list, up, latest>>
       ELSE Render(SetViewFilter(list, m.params))

Receive ==
  /\ tab.open /\ down # <<>>
  /\ LET m == Head(down) IN
       \/ Ignored(m) \/ ReceiveInit(m) \/ ReceiveConf(m) \/ ReceiveLateInit(m)
       \/ ReceiveData(m) \/ ReceiveReload(m) \/ ReceiveParams(m)
  /\ down' = Tail(down)
  /\ UNCHANGED <<tab, main, bulk>> /\ UNCHANGED bounds

-----------------------------------------------------------------------------
(* What the main frame does.                                                 *)

\* ChildFrame: when the frame has loaded the main frame waits for INIT, ten
\* seconds long, and takes the INIT of any frame for that of its own.
Load ==
  /\ tab.open /\ ~tab.loaded
  /\ tab' = [tab EXCEPT !.loaded = TRUE, !.waiting = TRUE]
  /\ UNCHANGED <<list, up, down, main, latest, bulk>> /\ UNCHANGED bounds
Timeout ==
  /\ tab.waiting
  /\ tab' = [tab EXCEPT !.waiting = FALSE]
  /\ UNCHANGED <<list, up, down, main, latest, bulk>> /\ UNCHANGED bounds

AnswerInit ==
  /\ tab' = IF tab.waiting THEN [tab EXCEPT !.waiting = FALSE] ELSE tab
  /\ down' = IF tab.waiting THEN Append(down, Message("init", FALSE)) ELSE down

OtherInit ==
  /\ tab.waiting /\ others < MaxOthers
  /\ AnswerInit /\ others' = others + 1
  /\ UNCHANGED <<list, up, main, opens, acts, faults, latest, bulk>>

Idle == main.current = <<>>

\* The last query has met its fate.
Fate(m, fate) ==
  latest' = IF m.kind = "query" /\ m.n = latest.n THEN [latest EXCEPT !.fate = fate] ELSE latest

Bulk(m) == bulk' = IF m.kind = "bulk" THEN m ELSE bulk

\* Mutation of Accept: the newest operation is queued first.
AcceptFirst(m) ==
  \/ /\ Idle /\ (main.queue = <<>> \/ main.confirm)
     /\ main' = [main EXCEPT !.current = <<m>>]
     /\ IF main.queue = <<>> THEN UNCHANGED latest ELSE Fate(m, "overtook")
     /\ Bulk(m)
  \/ /\ Idle /\ main.queue # <<>> /\ ~main.confirm
     /\ main' = [main EXCEPT !.current = <<Head(main.queue)>>, !.queue = Tail(@)]
     /\ Fate(m, "lost") /\ UNCHANGED bulk
  \/ /\ ~Idle /\ m.queueable
     /\ main' = [main EXCEPT !.queue = <<m>> \o @]
     /\ UNCHANGED <<latest, bulk>>
  \/ /\ ~Idle /\ ~m.queueable
     /\ Fate(m, "refused") /\ UNCHANGED <<main, bulk>>

\* setOperation: an idle main frame runs the operation at once. If others are
\* in the queue it overtakes them while errors wait to be confirmed, or else
\* is lost to the next of them. A busy one queues it or turns it down.
Accept(m) ==
  \/ /\ Idle /\ (main.queue = <<>> \/ main.confirm)
     /\ main' = [main EXCEPT !.current = <<m>>]
     /\ IF main.queue = <<>> THEN UNCHANGED latest ELSE Fate(m, "overtook")
     /\ Bulk(m)
  \/ /\ Idle /\ main.queue # <<>> /\ ~main.confirm
     /\ main' = [main EXCEPT !.current = <<Head(main.queue)>>, !.queue = Tail(@)]
     /\ Fate(m, "lost") /\ UNCHANGED bulk
  \/ /\ ~Idle /\ m.queueable
     /\ main' = [main EXCEPT !.queue = Append(@, m)]
     /\ UNCHANGED <<latest, bulk>>
  \/ /\ ~Idle /\ ~m.queueable
     /\ Fate(m, "refused") /\ UNCHANGED <<main, bulk>>

\* receiveMessageFromSubFrame.
Handle ==
  /\ up # <<>>
  /\ up' = Tail(up)
  /\ \/ Head(up).kind = "init" /\ AnswerInit /\ UNCHANGED <<main, latest, bulk>>
     \/ Head(up).kind # "init" /\ Accept(Head(up)) /\ UNCHANGED <<tab, down>>
  /\ UNCHANGED list /\ UNCHANGED bounds

\* A link of the menu that opens the tab, or another operation; menus queue.
Menu(m) ==
  /\ ~main.confirm /\ acts < MaxActs /\ acts' = acts + 1
  /\ Accept(m)
  /\ UNCHANGED <<tab, list, up, down, others, faults>>
Link(params) ==
  /\ opens < MaxOpens /\ opens' = opens + 1
  /\ Menu([Message("open", TRUE) EXCEPT !.params = params])
Other == Menu(Message("other", TRUE)) /\ UNCHANGED opens

Done == [main EXCEPT !.current = <<>>]
Post(m) == down' = IF tab.open THEN Append(down, m) ELSE down

\* openTab, if the tab is closed; otherwise its frame is sent the params.
OpenTab(m) ==
  /\ m.kind = "open" /\ ~tab.open
  /\ tab' = [open |-> TRUE, params |-> m.params, loaded |-> FALSE, waiting |-> FALSE]
  /\ list' = Blank /\ down' = <<>>
  /\ latest' = [n |-> latest.n + 1, params |-> NoParams, fate |-> "none"]
SendParams(m) ==
  /\ m.kind = "open" /\ tab.open
  /\ Post(m)
  /\ UNCHANGED <<tab, list, latest>>

\* updateFrameData and reloadFrameData: to whatever frame has the tab's key.
Update(m) ==
  /\ m.kind \in {"conf", "query", "bulk"}
  /\ Post(IF m.kind = "bulk" THEN Message("reload", FALSE) ELSE m)
  /\ Fate(m, IF latest.fate = "sent" THEN "answered" ELSE latest.fate)
  /\ UNCHANGED <<tab, list>>

\* The current operation ends, and so does what follows its success.
Succeed ==
  /\ ~Idle /\ main' = Done
  /\ LET m == main.current[1] IN
       \/ OpenTab(m) \/ SendParams(m) \/ Update(m)
       \/ m.kind = "other" /\ UNCHANGED <<tab, list, down, latest>>
  /\ UNCHANGED <<up, bulk>> /\ UNCHANGED bounds

\* A request fails; the user has to confirm.
Fail ==
  /\ ~Idle /\ main.current[1].kind # "open" /\ faults < MaxFaults
  /\ faults' = faults + 1
  /\ main' = [Done EXCEPT !.confirm = TRUE]
  /\ Fate(main.current[1], "failed")
  /\ UNCHANGED <<tab, list, up, down, opens, acts, others, bulk>>

\* Mutation of TakeNext: one operation alone in the queue waits for another.
TakeNextOfTwo ==
  /\ Idle /\ Len(main.queue) > 1 /\ ~main.confirm
  /\ main' = [main EXCEPT !.current = <<Head(main.queue)>>, !.queue = Tail(@)]
  /\ UNCHANGED <<tab, list, up, down, latest, bulk>> /\ UNCHANGED bounds

\* The effect that starts the next operation of the queue.
TakeNext ==
  /\ Idle /\ main.queue # <<>> /\ ~main.confirm
  /\ main' = [main EXCEPT !.current = <<Head(main.queue)>>, !.queue = Tail(@)]
  /\ UNCHANGED <<tab, list, up, down, latest, bulk>> /\ UNCHANGED bounds

Confirm ==
  /\ main.confirm /\ Idle
  /\ main' = [main EXCEPT !.confirm = FALSE]
  /\ UNCHANGED <<tab, list, up, down, latest, bulk>> /\ UNCHANGED bounds

\* The user closes the tab: its frame is gone, its messages are not.
CloseTab ==
  /\ tab.open /\ ~main.confirm /\ acts < MaxActs /\ acts' = acts + 1
  /\ tab' = [tab EXCEPT !.open = FALSE, !.waiting = FALSE]
  /\ list' = Blank /\ down' = <<>>
  /\ UNCHANGED <<up, main, opens, others, faults, latest, bulk>>
-----------------------------------------------------------------------------
NoTab == [open |-> FALSE, params |-> NoParams, loaded |-> FALSE, waiting |-> FALSE]

Init ==
  /\ tab = NoTab /\ list = Blank /\ up = <<>> /\ down = <<>>
  /\ main = [current |-> <<>>, queue |-> <<>>, confirm |-> FALSE]
  /\ opens = 0 /\ acts = 0 /\ others = 0 /\ faults = 0
  /\ latest = [n |-> 0, params |-> NoParams, fate |-> "none"]
  /\ bulk = Message("none", FALSE)

User ==
  \/ \E f \in Filters : ChangeFilter(f)
  \/ \E p \in Pages : ChangePage(p)
  \/ \E v \in Views : ChangeView(v)
  \/ Refresh \/ SelectAll \/ DoOperation
  \/ \E l \in Links : Link(l)
  \/ Other \/ CloseTab \/ Confirm
Run == Succeed \/ Fail

Next ==
  \/ User \/ Mount \/ AskInit \/ Receive
  \/ Load \/ Timeout \/ OtherInit \/ Handle \/ Run \/ TakeNext

\* The browsers deliver every message and run every effect, a request ends in
\* one way or the other; the user may do nothing.
Fairness ==
  /\ WF_vars(Receive) /\ WF_vars(Handle) /\ WF_vars(Run) /\ WF_vars(TakeNext)

Spec == Init /\ [][Next]_vars /\ Fairness

-----------------------------------------------------------------------------
(* Properties.                                                               *)

\* What the user sees is what the filter, view and page on the screen say,
\* once the last query has been answered in its turn: no earlier answer, no
\* answer to another view or to an earlier page of the tab comes after it
\* (setData files an answer under the view that is current by then).
ShownIsAsked ==
  list.stage = "shown" /\ latest.fate = "shown" => Here(list).rows = QueryParams(list)

\* An operation on all rows (doOperation with selectedAll) acts on the filter
\* and the view of the rows the user sees, if these were up to date.
BulkFromList ==
  bulk.kind = "bulk" /\ bulk.seen.fate = "shown" =>
    bulk.params.view = bulk.seen.rows.view /\ bulk.params.conds = bulk.seen.rows.conds

\* A query does not stay open: its answer is shown or given up, or the user
\* is asked to confirm an error, or closes the tab.
ListSettles ==
  latest.fate \in {"sent", "answered"} ~>
    latest.fate \notin {"sent", "answered"} \/ main.confirm \/ ~tab.open
=============================================================================
