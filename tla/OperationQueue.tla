---------------------------- MODULE OperationQueue ----------------------------
(***************************************************************************)
(* The operations of the main frame (src/mainframe): the redux slices      *)
(* operation, request, tab and dialog, and OperationDialog, the component  *)
(* whose effects execute the current operation and take the next one from  *)
(* the queue.                                                              *)
(*                                                                         *)
(* The page is rendered by ReactDOM.render (index.js:7), React's legacy    *)
(* root: a dispatch renders at once, but the effects of a render run in a  *)
(* task of their own (FlushEffects) or, when another dispatch comes first, *)
(* right before the render of that dispatch (Dispatch).  Either way they   *)
(* read the state their render has closed over, "c" below, and change the  *)
(* state of the moment, "s".                                               *)
(***************************************************************************)
EXTENDS Naturals, Sequences, FiniteSets, SequencesExt

CONSTANTS
  Op,          \* operation items, as menus, views and buttons configure them
  Type,        \* operation: what it does, see Execute
  Success,     \* operation: its successOperation
  Error,       \* operation: its errorOperation
  KeyOf,       \* operation: params.key, the tab it opens or closes
  Queenable,   \* the operations configured to wait in the queue
  Validation,  \* operation: what its inputValidation answers
  Returned,    \* operation: the operation a reply to its request may hold
  Logout,      \* what createLogoutOperation makes
  InitOps,     \* the operations the login returned, executed at start
  Answer,      \* how requests may end
  MaxSets,     \* bound on the operations accepted
  NoOp         \* no operation, no dialog, no tab

\* "current" stands for every operation that no branch of the dialog
\* completes: opening or closing in a place or of a type it does not support.
Kinds == {"modal", "tab", "current", "closeModal", "closeTab", "request",
          "badLink", "instant", "logout"}

ASSUME OpAssumption ==
  /\ NoOp \notin Op /\ Logout \in Op /\ Queenable \subseteq Op
  /\ Type \in [Op -> Kinds]
  /\ Success \in [Op -> {NoOp} \cup Op] /\ Error \in [Op -> {NoOp} \cup Op]
  /\ Returned \in [Op -> {NoOp} \cup Op] /\ DOMAIN KeyOf = Op
  /\ Validation \in [Op -> {"valid", "invalid", "broken"}]
  /\ InitOps \in Seq(Op) /\ MaxSets \in Nat
  /\ Answer \subseteq {"ok", "operation", "error", "expired"}
ASSUME LogoutAssumption ==
  \A o \in Op : Type[o] = "logout" => Success[o] = NoOp

VARIABLES
  store,     \* the redux slices, the page shown, and the history below
  due,       \* do effects of the last render wait to run: "no", "yes", or
             \* "mount" when the page has just been entered
  listening  \* "runing" (sic) as the mounted message listener has closed over it

vars == <<store, due, listening>>

\* An operation that was accepted: the item, and the number of the
\* setOperation call it stems from.
Item(o, n) == [op |-> o, n |-> n, pending |-> FALSE]
NoItem == Item(NoOp, 0)

\* initialState of the slices.  The history is: the number of operations
\* accepted, those set at once and those queued, the operations executed,
\* whether one of them was executed again, and the tabs the user closed while
\* an operation was about to show them.
Fresh(n) ==
  [current |-> NoItem, queue |-> <<>>, needConfirm |-> FALSE, failed |-> FALSE,
   request |-> [state |-> "idle", for |-> NoItem],
   tabs |-> <<>>, active |-> NoOp, lost |-> {}, dialog |-> NoOp, screen |-> "main",
   sets |-> n, direct |-> {}, queued |-> {}, ran |-> {}, again |-> FALSE]

Idle(s) == s.current.op = NoOp

Key == {KeyOf[o] : o \in Op}

-----------------------------------------------------------------------------
(* Reducers of operationSlice.                                             *)

\* "failed" stands for doneList holding an item whose result is an error.
Confirmed(s) ==
  [s EXCEPT !.current = NoItem, !.failed = FALSE, !.needConfirm = FALSE]

\* Mutation of SetOperation: the current operation is replaced.
SetOperationAlways(s, o, queenable) ==
  [s EXCEPT !.current = Item(o, s.sets + 1), !.failed = FALSE,
            !.sets = @ + 1, !.direct = @ \cup {s.sets + 1}]

\* Mutation of SetOperation: the newest operation is queued first.
SetOperationFirst(s, o, queenable) ==
  LET n == s.sets + 1
  IN CASE Idle(s) ->
            [s EXCEPT !.current = Item(o, n), !.failed = FALSE,
                      !.sets = n, !.direct = @ \cup {n}]
       [] ~Idle(s) /\ queenable ->
            [s EXCEPT !.queue = <<Item(o, n)>> \o @, !.sets = n, !.queued = @ \cup {n}]
       [] OTHER -> s

SetOperation(s, o, queenable) ==
  LET n == s.sets + 1
  IN CASE Idle(s) ->
            [s EXCEPT !.current = Item(o, n), !.failed = FALSE,
                      !.sets = n, !.direct = @ \cup {n}]
       [] ~Idle(s) /\ queenable ->
            [s EXCEPT !.queue = Append(@, Item(o, n)),
                      !.sets = n, !.queued = @ \cup {n}]
       [] OTHER -> s

DoNextOperation(s) ==
  IF s.queue = <<>> THEN s
  ELSE [s EXCEPT !.current = Head(s.queue), !.queue = Tail(@),
                 !.needConfirm = FALSE, !.failed = FALSE]

OperationPending(s) == [s EXCEPT !.current.pending = TRUE]

\* The chain goes on with operation o, or ends.
Follow(s, o) ==
  [s EXCEPT !.current = IF o = NoOp THEN NoItem ELSE Item(o, s.current.n)]

\* Mutation of FollowError: without an errorOperation the operation stays.
FollowErrorStays(s, o) ==
  [IF o = NoOp THEN s ELSE Follow(s, o) EXCEPT !.failed = TRUE, !.needConfirm = (o = NoOp)]

\* ... after an error; without an errorOperation the user has to confirm.
FollowError(s, o) ==
  [Follow(s, o) EXCEPT !.failed = TRUE, !.needConfirm = (o = NoOp)]

\* ... after a success; the input of o is validated first.  A script that
\* throws makes the reducer throw: the draft is dropped and React unmounts
\* the page.
FollowSuccess(s, o) ==
  CASE o = NoOp \/ Validation[o] = "valid" -> Follow(s, o)
    [] o # NoOp /\ Validation[o] = "invalid" -> FollowError(s, Error[o])
    [] OTHER -> [s EXCEPT !.screen = "blank"]

OperationDone(s, result) ==
  LET o == s.current.op
  IN IF Idle(s) THEN s
     ELSE CASE result = "ok" -> FollowSuccess(s, Success[o])
            [] result = "operation" -> FollowSuccess(s, Returned[o])
            [] result = "expired" -> [Follow(s, Logout) EXCEPT !.failed = TRUE]
            [] OTHER -> FollowError(s, Error[o])

-----------------------------------------------------------------------------
(* Reducers of tabSlice: tabs are known by their keys.                     *)

IsOpen(tabs, key) == \E i \in DOMAIN tabs : tabs[i] = key

OpenTab(s, key) ==
  [s EXCEPT !.tabs = IF IsOpen(@, key) THEN @ ELSE Append(@, key), !.active = key,
            !.lost = @ \ {key}]

\* Mutation of CloseTab: the active tab is not looked at.
CloseTabOnly(s, key) ==
  IF ~IsOpen(s.tabs, key) THEN s
  ELSE [s EXCEPT !.tabs = RemoveAt(@, CHOOSE k \in DOMAIN @ : @[k] = key)]

\* The active tab, when closed, gives way to the one after it, or before.
CloseTab(s, key) ==
  IF ~IsOpen(s.tabs, key) THEN s
  ELSE LET i == CHOOSE k \in DOMAIN s.tabs : s.tabs[k] = key
           rest == RemoveAt(s.tabs, i)
           j == IF i > Len(rest) THEN Len(rest) ELSE i
       IN [s EXCEPT !.tabs = rest,
                    !.active = CASE @ # key -> @
                                 [] @ = key /\ rest = <<>> -> NoOp
                                 [] OTHER -> rest[j]]

SetActiveTab(s, key) == [s EXCEPT !.active = key]

CloseAllTab(s) == [s EXCEPT !.tabs = <<>>, !.active = NoOp]

-----------------------------------------------------------------------------
(* Effects of OperationDialog, rendered with state c, on the state s.      *)

\* History: the operation of c has been executed.
Ran(c, s) ==
  [s EXCEPT !.again = @ \/ <<c.current.n, c.current.op>> \in s.ran,
            !.ran = @ \cup {<<c.current.n, c.current.op>>}]

OpenTabFunc(c, s) ==
  LET key == KeyOf[c.current.op]
  IN CASE ~IsOpen(c.tabs, key) -> OpenTab(s, key)
       [] IsOpen(c.tabs, key) /\ c.active # key -> SetActiveTab(s, key)
       [] OTHER -> s

\* Mutation of DoRequest: the operation is not marked as pending.
DoRequestUnmarked(c, s) ==
  CASE c.request.state = "sent" -> s
    [] c.request.state # "sent" /\ ~c.current.pending ->
         [Ran(c, s) EXCEPT !.request = [state |-> "sent", for |-> c.current]]
    [] OTHER -> OperationDone(s, c.request.state)

\* doRequest and downloadFile: send the request, take its answer, or wait.
DoRequest(c, s) ==
  CASE c.request.state = "sent" -> s
    [] c.request.state # "sent" /\ ~c.current.pending ->
         OperationPending([Ran(c, s) EXCEPT !.request = [state |-> "sent", for |-> c.current]])
    [] OTHER -> OperationDone(s, c.request.state)

\* operationDone, closeAllTab, close, and the way to the login page.
DoLogout(c, s) ==
  [CloseAllTab(OperationDone(Ran(c, s), "ok")) EXCEPT !.dialog = NoOp, !.screen = "login"]

\* The effect that executes the current operation.
Execute(c, s) ==
  LET o == c.current.op
      r == Ran(c, s)
  IN IF Idle(c) THEN s
     ELSE CASE Type[o] = "current" -> s
            [] Type[o] = "modal" -> OperationDone([r EXCEPT !.dialog = o], "ok")
            [] Type[o] = "closeModal" -> OperationDone([r EXCEPT !.dialog = NoOp], "ok")
            [] Type[o] = "tab" -> OperationDone(OpenTabFunc(c, r), "ok")
            [] Type[o] = "closeTab" -> OperationDone(CloseTab(r, KeyOf[o]), "ok")
            [] Type[o] = "request" -> DoRequest(c, s)
            [] Type[o] = "badLink" -> OperationDone(r, "error")
            [] Type[o] = "logout" -> DoLogout(c, s)
            [] OTHER -> OperationDone(r, "ok")

\* Mutation of TakeNext: the current operation is not waited for.
TakeNextEarly(c, s) ==
  IF s.screen # "blank" /\ c.queue # <<>> /\ ~c.needConfirm THEN DoNextOperation(s) ELSE s

\* Mutation of TakeNext: the last operation of the queue is left in it.
TakeNextOfMany(c, s) ==
  IF s.screen # "blank" /\ Len(c.queue) > 1 /\ ~c.needConfirm /\ Idle(c)
    THEN DoNextOperation(s) ELSE s

\* The effect that takes the next operation from the queue.
TakeNext(c, s) ==
  IF s.screen # "blank" /\ c.queue # <<>> /\ ~c.needConfirm /\ Idle(c)
    THEN DoNextOperation(s) ELSE s

\* FrameContent's effect when the page is entered: the operations of the login.
RunInitOps(s) ==
  LET after[k \in 0 .. Len(InitOps)] ==
        IF k = 0 THEN s
        ELSE SetOperation(after[k - 1], InitOps[k], InitOps[k] \in Queenable)
  IN after[Len(InitOps)]

\* All effects of a page rendered with c, in the order React runs them.
RunEffects(c, s) ==
  LET t == IF due = "mount" THEN RunInitOps(s) ELSE s
  IN TakeNext(c, Execute(c, t))

\* The page is rendered with t; a page that has no OperationDialog has no
\* effects of it.
Render(t) ==
  /\ store' = t
  /\ due' = IF t.screen = "main" THEN "yes" ELSE "no"

\* A dispatch outside of effects, whose reducers lead to s: it renders, and
\* effects that are due run before that.
Dispatch(s) ==
  /\ s # store
  /\ IF due = "no"
       THEN Render(s) /\ UNCHANGED listening
       ELSE Render(RunEffects(store, s)) /\ listening' = ~Idle(store)

FlushEffects ==
  /\ due # "no"
  /\ listening' = ~Idle(store)
  /\ LET t == RunEffects(store, store)
     IN IF t = store THEN due' = "no" /\ UNCHANGED store ELSE Render(t)

-----------------------------------------------------------------------------
(* What happens to the page.                                               *)

MayAccept ==
  store.sets + (IF due = "mount" THEN Len(InitOps) ELSE 0) < MaxSets

\* A click on a menu item, which the dialogs cover; menus always queue.
Menu(o) ==
  /\ MayAccept /\ store.screen = "main"
  /\ ~store.needConfirm /\ store.dialog = NoOp
  /\ Dispatch(SetOperation(store, o, TRUE))

\* A notification, or the cancel button of a frame dialog.
Notify(o) ==
  /\ MayAccept /\ store.screen = "main"
  /\ Dispatch(SetOperation(store, o, o \in Queenable))

\* A view in an iframe asks for an operation; while one is running it is
\* turned down unless it may queue.
FrameMessage(o) ==
  /\ MayAccept /\ store.screen = "main"
  /\ store.tabs # <<>> \/ store.dialog # NoOp
  /\ listening => o \in Queenable
  /\ Dispatch(SetOperation(store, o, o \in Queenable))

\* The current operation is one that opens a tab, or shows it if it is open.
Opening(s) == ~Idle(s) /\ Type[s.current.op] = "tab"

\* The tab bar, which the dialogs cover.
TabBar == store.screen = "main" /\ ~store.needConfirm /\ store.dialog = NoOp

ActivateTab(key) ==
  /\ TabBar /\ IsOpen(store.tabs, key)
  /\ Dispatch(SetActiveTab(store, key))

CloseTabByUser(key) ==
  /\ TabBar /\ IsOpen(store.tabs, key)
  /\ Dispatch([CloseTab(store, key) EXCEPT
        !.lost = @ \cup {k \in {key} : Opening(store) /\ KeyOf[store.current.op] = k}])

\* errorCallback: a query some view has sent, maybe in an earlier login,
\* is answered with TOKEN_EXPIRED.
TokenExpired ==
  /\ MayAccept /\ store.screen # "blank"
  /\ Dispatch(SetOperation(store, Logout, FALSE))

\* requestAction, downloadAction or downloadByKeyAction ends.
Respond(r) ==
  /\ store.screen # "blank" /\ store.request.state = "sent"
  /\ r = "operation" => Returned[store.request.for.op] # NoOp
  /\ Dispatch([store EXCEPT !.request.state = r])

\* The user reads the errors.
Confirm ==
  /\ store.screen = "main" /\ store.needConfirm /\ Idle(store)
  /\ Dispatch(Confirmed(store))

\* The next login; the slices are as the logout has left them.
Login ==
  /\ store.screen = "login" /\ store.sets + Len(InitOps) <= MaxSets
  /\ store' = [store EXCEPT !.screen = "main"]
  /\ due' = "mount" /\ listening' = FALSE

\* The user reloads a page that went blank; the session goes on.
Reload ==
  /\ store.screen = "blank" /\ store.sets + Len(InitOps) <= MaxSets
  /\ store' = Fresh(store.sets)
  /\ due' = "mount" /\ listening' = FALSE

Init == store = Fresh(0) /\ due = "mount" /\ listening = FALSE

Event ==
  \/ \E o \in Op : Menu(o) \/ Notify(o) \/ FrameMessage(o)
  \/ \E key \in Key : ActivateTab(key) \/ CloseTabByUser(key)
  \/ TokenExpired
  \/ \E r \in Answer : Respond(r)
  \/ Confirm \/ Login \/ Reload

Next == FlushEffects \/ Event

Spec == Init /\ [][Next]_vars

\* Effects run, and every request ends, with an answer or an error.
FairSpec ==
  /\ Spec
  /\ WF_vars(FlushEffects)
  /\ WF_vars(\E r \in Answer : Respond(r))

-----------------------------------------------------------------------------
(* Properties.                                                             *)

\* However late the effects of a render run, no operation is executed, and
\* no request sent, a second time (OperationDialog.js:324-363, an effect
\* that runs after every render).
RunsOnce == ~store.again

\* The numbers of the operations that were executed, waiting, or current.
Begun == {x[1] : x \in store.ran} \cup {store.current.n}
Waiting == {store.queue[i].n : i \in DOMAIN store.queue}

\* An operation that was put into the queue stays there until it is taken
\* out to be executed (operationSlice.js:48-49, 60-68).
QueuedIsKept == store.queued \subseteq Waiting \cup Begun

\* The queue is first in, first out: no operation overtakes an older one
\* (operationSlice.js:14 "in order").
QueueInOrder ==
  /\ \A i, j \in DOMAIN store.queue : i < j => store.queue[i].n < store.queue[j].n
  /\ \A w \in Waiting, b \in store.queued \cap Begun : b < w

\* A request in flight belongs to the current operation, and so does the
\* answer that will complete a pending one: the single request slice is
\* never shared by two operations (OperationDialog.js:237-267).
AnswerIsOwn ==
  store.screen = "main" =>
    /\ store.request.state = "sent" => store.current.pending
    /\ store.current.pending =>
         store.request.for.n = store.current.n /\ store.request.for.op = store.current.op

\* Tabs have different keys, and the active one is open, unless the user
\* closed it while an operation was about to show it: the effect then still
\* finds it in the tabs of its render and activates a tab that is gone
\* (tabSlice.js:25-60, OperationDialog.js:147-172, FrameTab/index.js:22-32).
TabsSound ==
  /\ IsInjective(store.tabs)
  /\ store.tabs # <<>> => IsOpen(store.tabs, store.active) \/ store.active \in store.lost

\* An operation that is set is executed before another takes its place:
\* "while the current operation has not finished no new one may be set"
\* (operationSlice.js:45).
SetIsExecuted == store.direct \subseteq Begun

\* The operation n is current and the page shows it.
Busy(n) == store.current.n = n /\ store.screen = "main"

\* The current operation is one that no branch of the dialog completes.
Stuck == ~Idle(store) /\ Type[store.current.op] = "current"

\* Every chain of operations ends, or comes to an operation that is not
\* supported, where it stays (OperationDialog.js:324-363).
ChainEnds == \A n \in 1 .. MaxSets : Busy(n) ~> (~Busy(n) \/ Stuck)

\* Every queued operation is taken up, unless the page waits for its user, to
\* confirm errors, to log in or to reload, or stays at an operation that is
\* not supported (OperationDialog.js:440-446).
QueueDrains ==
  \A n \in 1 .. MaxSets :
    n \in Waiting ~>
      (n \notin Waiting \/ store.needConfirm \/ store.screen # "main" \/ Stuck)
=============================================================================
