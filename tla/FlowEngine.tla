----------------------------- MODULE FlowEngine -----------------------------
(***************************************************************************)
(* The flow engine of the service (src/service/flow).                      *)
(*                                                                         *)
(* A flow is a graph of typed nodes.  POST /flow/start creates an instance *)
(* and runs the synchronous nodes up to the first one that waits for a     *)
(* user (a form) or up to the last one; POST /flow/push loads the instance *)
(* from Redis and goes on from the last node of its list.  Each request is *)
(* served by a goroutine of its own, there is no lock around load, run and *)
(* save, and the effects of a node (a database transaction, a call of an   *)
(* external service) happen long before the instance is saved.             *)
(*                                                                         *)
(* A handler is modelled at the grain other handlers can observe: one step *)
(* to load, one step per node executed, one step to save and answer.       *)
(***************************************************************************)
EXTENDS Naturals, Sequences

CONSTANTS
  Instance,     \* instance IDs getInstanceID can return (never twice)
  Handler,      \* goroutines serving /flow/start and /flow/push
  Flow,         \* flow IDs with a configuration file
  Node,         \* node IDs used by the configurations
  Kind,         \* Kind[f][n]: type of node n of flow f, "unknown" if none
  Edge,         \* Edge[f][n]: target of the first edge of f leaving n
  Start,        \* Start[f]: the first node of type start
  MainSource,   \* MainSource[f][n]: mainSource of the merge node n
  KeySource,    \* KeySource[f][n]: nodes whose selected row keys n merges in
  Row,          \* data rows carried by requests
  ClientRsp,    \* bodies the clients of /flow/start and /flow/push send
  ServiceRsp,   \* results the external services answer
  MaxOpenConns, \* size of the database connection pool
  Cap,          \* the history counters saturate at Cap
  Faults,       \* failures of the environment that may happen
  NoNode, NoFlow, Absent, NoRsp, NoList, NilList

\* List of a flowReqRsp: a nil pointer, a pointer to a nil slice, or rows.
List == {NoList, NilList} \cup SUBSET Row

\* flowReqRsp, the common body of requests, responses and node outputs,
\* reduced to what the executors test: stage, presence of modelID, and list.
Rsp == [stage : {0, 1}, model : BOOLEAN, list : List]
RspPtr == {NoRsp} \cup Rsp

Kinds == {"start", "form", "save", "end", "merge", "request", "unknown"}
FaultKinds == {"crash", "redis", "save", "http", "expire"}

ASSUME FlowAssumption ==
  /\ NoNode \notin Node
  /\ Kind \in [Flow -> [Node -> Kinds]]
  /\ Edge \in [Flow -> [Node -> Node \cup {NoNode}]]
  /\ Start \in [Flow -> Node \cup {NoNode}]
  /\ MainSource \in [Flow -> [Node -> Node]]
  /\ KeySource \in [Flow -> [Node -> SUBSET Node]]
ASSUME DataAssumption ==
  /\ \A r \in Rsp : r # NoRsp
  /\ \A L \in SUBSET Row : L # NoList /\ L # NilList
  /\ NoList # NilList
  /\ ClientRsp \subseteq Rsp
  /\ ServiceRsp \subseteq RspPtr
  /\ NoFlow \notin Flow
ASSUME BoundAssumption ==
  /\ MaxOpenConns \in Nat \ {0}
  /\ Cap \in Nat \ {0}
  /\ Faults \subseteq FaultKinds

\* An entry of flowInstance.Nodes.  data tells what Data holds: nothing
\* (nil map), only "stage0", or an "output", as the Go structure or as the
\* generic map that json.Unmarshal makes of it.
Entry == [id : Node, completed : BOOLEAN,
          data : {"nil", "stage0", "struct", "map"}, out : RspPtr]
\* instanceRepository holds a non-empty list of entries, or nothing.
Entries == Seq(Entry)
ASSUME StoreAssumption == Absent \notin Entries

VARIABLES
  flowOf,     \* flow of every instance ever created
  store,      \* Redis: instance ID -> saved list of entries
  known,      \* instances whose ID some client has received
  promised,   \* history: those received in an answer without an error
  leaked,     \* connections held by transactions nobody will end
  pc,         \* handler: idle, run (the last entry of mem), save
  on,         \* handler: the instance it works on
  mem,        \* handler: its private copy of flowInstance.Nodes
  req,        \* handler: the flowRep given to the next executor
  reply,      \* handler: what it answers, or answered last
  effect,     \* history: commits and external calls per instance and node
  saved,      \* history: rows committed for an instance
  submitted,  \* history: rows clients and services gave to an instance
  asked,      \* history: forms of an instance that ran stage 0
  faults      \* history: failures met while an instance was being run

store_vars == <<flowOf, store, known, promised, leaked>>
handler_vars == <<pc, on, mem, req, reply>>
history == <<effect, saved, submitted, asked, faults>>
vars == <<flowOf, store, known, promised, leaked, pc, on, mem, req, reply,
          effect, saved, submitted, asked, faults>>

TypeOK ==
  /\ flowOf \in [Instance -> Flow \cup {NoFlow}]
  /\ store \in [Instance -> {Absent} \cup Entries]
  /\ known \subseteq Instance
  /\ promised \subseteq known
  /\ leaked \in 0 .. MaxOpenConns
  /\ pc \in [Handler -> {"idle", "run", "save"}]
  /\ on \in [Handler -> Instance]
  /\ mem \in [Handler -> Entries]
  /\ req \in [Handler -> RspPtr]
  /\ reply \in [Handler -> {"none", "ok", "form", "error", "panic", "down"}]
  /\ effect \in [Instance -> [Node -> 0 .. Cap]]
  /\ saved \in [Instance -> SUBSET Row]
  /\ submitted \in [Instance -> SUBSET Row]
  /\ asked \in [Instance -> SUBSET Node]
  /\ faults \in [Instance -> 0 .. Cap]

-----------------------------------------------------------------------------
(* Operators on the data of an instance.                                   *)

Inc(n) == IF n < Cap THEN n + 1 ELSE n
RowsOf(r) == IF r = NoRsp \/ r.list \in {NoList, NilList} THEN {} ELSE r.list

CreateInstanceNode(n) ==
  [id |-> n, completed |-> FALSE, data |-> "nil", out |-> NoRsp]

Last(ns) == ns[Len(ns)]
Current(h) == Last(mem[h])
FlowAt(h) == flowOf[on[h]]
KindAt(h) == Kind[FlowAt(h)][Current(h).id]

\* An entry whose executor finished with the given output.
Complete(e, r) == [id |-> e.id, completed |-> TRUE, data |-> "struct", out |-> r]

\* What a list of entries is after json.Marshal and json.Unmarshal.
Reloaded(ns) ==
  [k \in 1 .. Len(ns) |->
     [ns[k] EXCEPT
        !.data = IF @ = "struct" THEN "map" ELSE @,
        !.out  = IF @ # NoRsp /\ @.list = NilList
                   THEN [@ EXCEPT !.list = NoList] ELSE @]]

\* getFlowDataFromMap: the type assertion on the list of a reloaded output
\* never succeeds, so a list survives only as a nil slice; stage is dropped.
FlowDataFromMap(r) ==
  IF r = NoRsp \/ ~r.model THEN NoRsp
  ELSE [stage |-> 0, model |-> TRUE,
        list |-> IF r.list = NoList THEN NoList ELSE NilList]

\* getFlowData: output of the first entry of the list with the given ID.
FirstAt(ns, source) ==
  {k \in 1 .. Len(ns) :
     ns[k].id = source /\ \A j \in 1 .. k - 1 : ns[j].id # source}

\* Mutation of FlowData: outputs are looked up in the instances of all handlers.
FlowDataShared(ns, source) ==
  LET others == {h \in Handler : mem[h] # ns /\ FirstAt(mem[h], source) # {}}
      all == IF others = {} THEN ns ELSE mem[CHOOSE h \in others : TRUE]
      found == FirstAt(all, source)
  IN  IF found = {} THEN NoRsp ELSE all[CHOOSE k \in found : TRUE].out

FlowData(ns, source) ==
  LET e == ns[CHOOSE k \in FirstAt(ns, source) : TRUE]
  IN  IF FirstAt(ns, source) = {} THEN NoRsp
      ELSE CASE e.data = "struct" -> e.out
             [] e.data = "map" -> FlowDataFromMap(e.out)
             [] OTHER -> NoRsp

-----------------------------------------------------------------------------
(* push, the loop of flowInstance: the last entry has been executed and is *)
(* now e, with the given result.                                           *)

\* Mutation of Advance: the end of the graph is not noticed.
AdvancePastEnd(h, e, result, waiting) ==
  LET ns == [mem[h] EXCEPT ![Len(mem[h])] = e]
  IN  \/ /\ e.completed
         /\ mem' = [mem EXCEPT ![h] = Append(ns, CreateInstanceNode(Edge[FlowAt(h)][e.id]))]
         /\ req' = [req EXCEPT ![h] = result]
         /\ UNCHANGED <<pc, on, reply>>
      \/ /\ ~e.completed
         /\ mem' = [mem EXCEPT ![h] = ns]
         /\ pc' = [pc EXCEPT ![h] = "save"]
         /\ reply' = [reply EXCEPT ![h] = waiting]
         /\ UNCHANGED <<on, req>>

\* Mutation of Advance: the next node runs although this one waits.
AdvanceAnyway(h, e, result, waiting) ==
  LET ns == [mem[h] EXCEPT ![Len(mem[h])] = e]
      next == Edge[FlowAt(h)][e.id]
  IN  \/ /\ next # NoNode
         /\ mem' = [mem EXCEPT ![h] = Append(ns, CreateInstanceNode(next))]
         /\ req' = [req EXCEPT ![h] = result]
         /\ UNCHANGED <<pc, on, reply>>
      \/ /\ next = NoNode
         /\ mem' = [mem EXCEPT ![h] = ns]
         /\ pc' = [pc EXCEPT ![h] = "save"]
         /\ reply' = [reply EXCEPT ![h] = "ok"]
         /\ UNCHANGED <<on, req>>

\* Mutation of Advance: the loop does not return at a node that waits.
AdvanceSpins(h, e, result, waiting) ==
  LET ns == [mem[h] EXCEPT ![Len(mem[h])] = e]
      next == Edge[FlowAt(h)][e.id]
  IN  \/ /\ e.completed /\ next # NoNode
         /\ mem' = [mem EXCEPT ![h] = Append(ns, CreateInstanceNode(next))]
         /\ req' = [req EXCEPT ![h] = result]
         /\ UNCHANGED <<pc, on, reply>>
      \/ /\ e.completed /\ next = NoNode
         /\ mem' = [mem EXCEPT ![h] = ns]
         /\ pc' = [pc EXCEPT ![h] = "save"]
         /\ reply' = [reply EXCEPT ![h] = "ok"]
         /\ UNCHANGED <<on, req>>
      \/ /\ ~e.completed
         /\ mem' = [mem EXCEPT ![h] = ns]
         /\ UNCHANGED <<pc, on, req, reply>>

Advance(h, e, result, waiting) ==
  LET ns == [mem[h] EXCEPT ![Len(mem[h])] = e]
      next == Edge[FlowAt(h)][e.id]
  IN  \/ /\ e.completed
         /\ next # NoNode
         /\ mem' = [mem EXCEPT ![h] = Append(ns, CreateInstanceNode(next))]
         /\ req' = [req EXCEPT ![h] = result]
         /\ UNCHANGED <<pc, on, reply>>
      \/ /\ ~(e.completed /\ next # NoNode)
         /\ mem' = [mem EXCEPT ![h] = ns]
         /\ pc' = [pc EXCEPT ![h] = "save"]
         /\ reply' = [reply EXCEPT ![h] = IF e.completed THEN "ok" ELSE waiting]
         /\ UNCHANGED <<on, req>>

\* Mutation of StepFails: Completed is set before the result is looked at.
StepFailsCompleted(h) ==
  /\ mem' = [mem EXCEPT ![h][Len(mem[h])] = Complete(@, NoRsp)]
  /\ pc' = [pc EXCEPT ![h] = "save"]
  /\ reply' = [reply EXCEPT ![h] = "error"]
  /\ UNCHANGED <<on, req>>

\* runNode returned an error: push returns it and the entry stays as it was.
StepFails(h) ==
  /\ pc' = [pc EXCEPT ![h] = "save"]
  /\ reply' = [reply EXCEPT ![h] = "error"]
  /\ UNCHANGED <<on, mem, req>>

\* A nil dereference or a write to a nil map: gin recovers with status 500
\* and the instance is not saved.
Panic(h) ==
  /\ pc' = [pc EXCEPT ![h] = "idle"]
  /\ reply' = [reply EXCEPT ![h] = "panic"]
  /\ mem' = [mem EXCEPT ![h] = << >>]
  /\ req' = [req EXCEPT ![h] = NoRsp]
  /\ UNCHANGED on

Fault(h) == faults' = [faults EXCEPT ![on[h]] = Inc(@)]

Running(h, kind) == pc[h] = "run" /\ KindAt(h) = kind

-----------------------------------------------------------------------------
(* FlowController.                                                         *)

StartFlow(h, i, f, r) ==
  /\ pc[h] = "idle"
  /\ flowOf[i] = NoFlow
  /\ flowOf' = [flowOf EXCEPT ![i] = f]
  /\ on' = [on EXCEPT ![h] = i]
  /\ submitted' = [submitted EXCEPT ![i] = @ \cup RowsOf(r)]
  /\ \/ /\ Start[f] # NoNode
        /\ mem' = [mem EXCEPT ![h] = <<CreateInstanceNode(Start[f])>>]
        /\ req' = [req EXCEPT ![h] = r]
        /\ pc' = [pc EXCEPT ![h] = "run"]
        /\ reply' = [reply EXCEPT ![h] = "none"]
        /\ UNCHANGED faults
     \/ /\ Start[f] = NoNode      \* addInstanceNode(nil)
        /\ reply' = [reply EXCEPT ![h] = "panic"]
        /\ faults' = [faults EXCEPT ![i] = Inc(@)]
        /\ UNCHANGED <<pc, mem, req>>
  /\ UNCHANGED <<store, known, promised, leaked, effect, saved, asked>>

\* Mutation of PushFlow: a finished flow is started again.
PushFlowRestarts(h, i, r) ==
  /\ pc[h] = "idle" /\ i \in known /\ store[i] # Absent
  /\ on' = [on EXCEPT ![h] = i]
  /\ mem' = [mem EXCEPT ![h] =
               IF Last(store[i]).completed
                 THEN <<CreateInstanceNode(Start[flowOf[i]])>> ELSE store[i]]
  /\ req' = [req EXCEPT ![h] = r]
  /\ pc' = [pc EXCEPT ![h] = "run"]
  /\ reply' = [reply EXCEPT ![h] = "none"]
  /\ submitted' = [submitted EXCEPT ![i] = @ \cup RowsOf(r)]
  /\ UNCHANGED <<flowOf, store, known, promised, leaked, effect, saved, asked, faults>>

PushFlow(h, i, r) ==
  /\ pc[h] = "idle"
  /\ i \in known
  /\ store[i] # Absent
  /\ on' = [on EXCEPT ![h] = i]
  /\ mem' = [mem EXCEPT ![h] = store[i]]
  /\ req' = [req EXCEPT ![h] = r]
  /\ pc' = [pc EXCEPT ![h] = "run"]
  /\ reply' = [reply EXCEPT ![h] = "none"]
  /\ submitted' = [submitted EXCEPT ![i] = @ \cup RowsOf(r)]
  /\ UNCHANGED <<flowOf, store, known, promised, leaked, effect, saved, asked, faults>>

\* The answer of a form carries the ID of its instance, with or without an
\* error of the save next to it.
Told(h, ids) == IF reply[h] = "form" THEN ids \cup {on[h]} ELSE ids

\* Mutation of SaveInstance: the error of the save is not answered.
SaveInstanceUnchecked(h) ==
  /\ pc[h] = "save"
  /\ pc' = [pc EXCEPT ![h] = "idle"]
  /\ mem' = [mem EXCEPT ![h] = << >>]
  /\ req' = [req EXCEPT ![h] = NoRsp]
  /\ known' = Told(h, known)
  /\ promised' = Told(h, promised)
  /\ \/ store' = [store EXCEPT ![on[h]] = Reloaded(mem[h])]
     \/ "redis" \in Faults /\ UNCHANGED store
  /\ UNCHANGED <<flowOf, leaked, on, reply, effect, saved, submitted, asked, faults>>

\* The end of start and of push: save, then answer.  The guard of the code,
\* !flowInstance.Completed, is always true: nothing sets that field.
SaveInstance(h) ==
  /\ pc[h] = "save"
  /\ pc' = [pc EXCEPT ![h] = "idle"]
  /\ mem' = [mem EXCEPT ![h] = << >>]
  /\ req' = [req EXCEPT ![h] = NoRsp]
  /\ known' = Told(h, known)
  /\ \/ /\ store' = [store EXCEPT ![on[h]] = Reloaded(mem[h])]
        /\ promised' = Told(h, promised)
        /\ UNCHANGED <<reply, faults>>
     \/ /\ "redis" \in Faults
        /\ reply' = [reply EXCEPT ![h] = "error"]
        /\ Fault(h)
        /\ UNCHANGED <<store, promised>>
  /\ UNCHANGED <<flowOf, leaked, on, effect, saved, submitted, asked>>

-----------------------------------------------------------------------------
(* The node executors; each one is a step of the loop of push.             *)

\* start and end: the request is the output.
RunPass(h) ==
  /\ Running(h, "start") \/ Running(h, "end")
  /\ Advance(h, Complete(Current(h), req[h]), req[h], "none")
  /\ UNCHANGED <<store_vars, history>>

\* form, stage 0: answer the operation that opens the form.
RunFormStage0(h) ==
  /\ Running(h, "form")
  /\ req[h] # NoRsp
  /\ req[h].stage = 0
  /\ LET e == [Current(h) EXCEPT !.data = "stage0", !.out = NoRsp]
     IN  Advance(h, e, NoRsp, "form")
  /\ asked' = [asked EXCEPT ![on[h]] = @ \cup {Current(h).id}]
  /\ UNCHANGED <<store_vars, effect, saved, submitted, faults>>

\* Mutation of RunFormStage1: the output is put into a new map.
RunFormStage1Unasked(h) ==
  /\ Running(h, "form")
  /\ req[h] # NoRsp
  /\ req[h].stage = 1
  /\ Advance(h, Complete(Current(h), req[h]), req[h], "none")
  /\ UNCHANGED <<store_vars, history>>

\* form, stage 1: the data the user entered is the output.
RunFormStage1(h) ==
  /\ Running(h, "form")
  /\ req[h] # NoRsp
  /\ req[h].stage = 1
  /\ Current(h).data # "nil"
  /\ Advance(h, Complete(Current(h), req[h]), req[h], "none")
  /\ UNCHANGED <<store_vars, history>>

\* form: no request, or a stage 1 that never had a stage 0 (nil Data map).
RunFormPanic(h) ==
  /\ Running(h, "form")
  /\ \/ req[h] = NoRsp
     \/ req[h] # NoRsp /\ req[h].stage = 1 /\ Current(h).data = "nil"
  /\ Panic(h)
  /\ Fault(h)
  /\ UNCHANGED <<store_vars, effect, saved, submitted, asked>>

\* What save.Execute commits, and its result.
Commit(i, n, r) ==
  /\ effect' = [effect EXCEPT ![i][n] = Inc(@)]
  /\ saved' = [saved EXCEPT ![i] = @ \cup RowsOf(r)]

CanSave(h) ==
  /\ Running(h, "save")
  /\ req[h] # NoRsp
  /\ req[h].model
  /\ leaked < MaxOpenConns     \* Begin waits for a connection

\* Mutation of RunSave: Completed is not set.
RunSaveUncompleted(h) ==
  /\ CanSave(h)
  /\ req[h].list # NoList
  /\ Advance(h, [Current(h) EXCEPT !.data = "struct"], req[h], "none")
  /\ Commit(on[h], Current(h).id, req[h])
  /\ UNCHANGED <<store_vars, submitted, asked, faults>>

RunSave(h) ==
  /\ CanSave(h)
  /\ req[h].list # NoList
  /\ LET result == [stage |-> 0, model |-> TRUE, list |-> RowsOf(req[h])]
     IN  /\ Advance(h, Complete(Current(h), result), result, "none")
         /\ Commit(on[h], Current(h).id, req[h])
  /\ UNCHANGED <<store_vars, submitted, asked, faults>>

\* Execute fails before the commit and rolls back: no result, so taking the
\* address of its fields panics.
RunSaveRefused(h) ==
  /\ "save" \in Faults
  /\ CanSave(h)
  /\ req[h].list # NoList
  /\ Panic(h)
  /\ Fault(h)
  /\ UNCHANGED <<store_vars, effect, saved, submitted, asked>>

\* The commit reports an error; the database may have committed all the same.
RunSaveCommitError(h) ==
  /\ "save" \in Faults
  /\ CanSave(h)
  /\ req[h].list # NoList
  /\ StepFails(h)
  /\ \/ Commit(on[h], Current(h).id, req[h])
     \/ UNCHANGED <<effect, saved>>
  /\ Fault(h)
  /\ UNCHANGED <<store_vars, submitted, asked>>

\* Without a request or a modelID the executor panics at once; without a
\* list SaveList panics inside the transaction, which nobody ends.
RunSavePanic(h) ==
  /\ \/ /\ Running(h, "save")
        /\ req[h] = NoRsp \/ (req[h] # NoRsp /\ ~req[h].model)
        /\ UNCHANGED leaked
     \/ /\ CanSave(h)
        /\ req[h].list = NoList
        /\ leaked' = leaked + 1
  /\ Panic(h)
  /\ Fault(h)
  /\ UNCHANGED <<flowOf, store, known, promised, effect, saved, submitted, asked>>

CanRequest(h) ==
  /\ Running(h, "request")
  /\ req[h] # NoRsp
  /\ req[h].model

RunRequest(h) ==
  /\ CanRequest(h)
  /\ \E r \in ServiceRsp :
       /\ Advance(h, Complete(Current(h), r), r, "none")
       /\ submitted' = [submitted EXCEPT ![on[h]] = @ \cup RowsOf(r)]
  /\ effect' = [effect EXCEPT ![on[h]][Current(h).id] = Inc(@)]
  /\ UNCHANGED <<store_vars, saved, asked, faults>>

\* The call fails, or answers an error; the service may have acted.
RunRequestFails(h) ==
  /\ "http" \in Faults
  /\ CanRequest(h)
  /\ StepFails(h)
  /\ \/ effect' = [effect EXCEPT ![on[h]][Current(h).id] = Inc(@)]
     \/ UNCHANGED effect
  /\ Fault(h)
  /\ UNCHANGED <<store_vars, saved, submitted, asked>>

RunRequestPanic(h) ==
  /\ Running(h, "request")
  /\ req[h] = NoRsp \/ (req[h] # NoRsp /\ ~req[h].model)
  /\ Panic(h)
  /\ Fault(h)
  /\ UNCHANGED <<store_vars, effect, saved, submitted, asked>>

\* merge: the output of the main source (the fields merged into its first
\* row change no row and are left out).
RunMerge(h) ==
  /\ Running(h, "merge")
  /\ LET n == Current(h).id
         result == FlowData(mem[h], MainSource[FlowAt(h)][n])
     IN  Advance(h, Complete(Current(h), result), result, "none")
  /\ UNCHANGED <<store_vars, history>>

\* merge: selected row keys go into the first row of the main source; an
\* output without a modelID that has some panics.  Which outputs have keys is
\* not part of Rsp, so RunMerge is possible too.
RunMergePanic(h) ==
  /\ Running(h, "merge")
  /\ LET f == FlowAt(h)
         n == Current(h).id
     IN  /\ RowsOf(FlowData(mem[h], MainSource[f][n])) # {}
         /\ \E source \in KeySource[f][n] :
              /\ FlowData(mem[h], source) # NoRsp
              /\ ~FlowData(mem[h], source).model
  /\ Panic(h)
  /\ Fault(h)
  /\ UNCHANGED <<store_vars, effect, saved, submitted, asked>>

\* No configuration for the node ID, or no executor for its type.
RunUnknown(h) ==
  /\ Running(h, "unknown")
  /\ StepFails(h)
  /\ Fault(h)
  /\ UNCHANGED <<store_vars, effect, saved, submitted, asked>>

RunNode(h) ==
  \/ RunPass(h) \/ RunFormStage0(h) \/ RunFormStage1(h) \/ RunFormPanic(h)
  \/ RunSave(h) \/ RunSaveRefused(h) \/ RunSaveCommitError(h) \/ RunSavePanic(h)
  \/ RunRequest(h) \/ RunRequestFails(h) \/ RunRequestPanic(h)
  \/ RunMerge(h) \/ RunMergePanic(h) \/ RunUnknown(h)

-----------------------------------------------------------------------------
(* The environment.                                                        *)

\* The service stops and starts again; Redis and the database go on.
Crash ==
  /\ "crash" \in Faults
  /\ \E h \in Handler : pc[h] # "idle"
  /\ faults' = [i \in Instance |->
                  IF \E h \in Handler : pc[h] # "idle" /\ on[h] = i
                    THEN Inc(faults[i]) ELSE faults[i]]
  /\ reply' = [h \in Handler |-> IF pc[h] # "idle" THEN "down" ELSE reply[h]]
  /\ pc' = [h \in Handler |-> "idle"]
  /\ mem' = [h \in Handler |-> << >>]
  /\ req' = [h \in Handler |-> NoRsp]
  /\ leaked' = 0
  /\ UNCHANGED <<flowOf, store, known, promised, on, effect, saved, submitted, asked>>

\* flowInstanceExpired is over.
Expire(i) ==
  /\ "expire" \in Faults
  /\ store[i] # Absent
  /\ store' = [store EXCEPT ![i] = Absent]
  /\ UNCHANGED <<flowOf, known, promised, leaked, handler_vars, history>>

Init ==
  /\ flowOf = [i \in Instance |-> NoFlow]
  /\ store = [i \in Instance |-> Absent]
  /\ known = {}
  /\ promised = {}
  /\ leaked = 0
  /\ pc = [h \in Handler |-> "idle"]
  /\ on \in [Handler -> Instance]
  /\ mem = [h \in Handler |-> << >>]
  /\ req = [h \in Handler |-> NoRsp]
  /\ reply = [h \in Handler |-> "none"]
  /\ effect = [i \in Instance |-> [n \in Node |-> 0]]
  /\ saved = [i \in Instance |-> {}]
  /\ submitted = [i \in Instance |-> {}]
  /\ asked = [i \in Instance |-> {}]
  /\ faults = [i \in Instance |-> 0]

Next ==
  \/ \E h \in Handler :
       \/ \E i \in Instance, f \in Flow, r \in ClientRsp : StartFlow(h, i, f, r)
       \/ \E i \in Instance, r \in ClientRsp : PushFlow(h, i, r)
       \/ RunNode(h)
       \/ SaveInstance(h)
  \/ Crash
  \/ \E i \in Instance : Expire(i)

Spec == Init /\ [][Next]_vars

\* A goroutine that has work to do is scheduled.  A call of an external
\* service has no timeout and may never end, so no request node is fair.
Fairness ==
  \A h \in Handler : WF_vars((RunNode(h) /\ ~CanRequest(h)) \/ SaveInstance(h))
FairSpec == Spec /\ Fairness

-----------------------------------------------------------------------------
(* Properties.                                                             *)

\* The lists of entries that exist for instance i.
Lists(i) ==
  {ns \in {store[i]} : ns # Absent}
    \cup {mem[h] : h \in {g \in Handler : pc[g] # "idle" /\ on[g] = i}}

IsPath(f, ns) ==
  /\ Len(ns) > 0
  /\ ns[1].id = Start[f]
  /\ \A k \in 1 .. Len(ns) - 1 :
       ns[k].completed /\ ns[k + 1].id = Edge[f][ns[k].id]

\* The entries of an instance, in Redis and in any handler, always are a path
\* of its flow from the start node, completed up to the last but one entry,
\* whatever requests interleave, fail or crash (loop of flowInstance.push).
ExecutionFollowsGraph ==
  \A i \in Instance : \A ns \in Lists(i) : IsPath(flowOf[i], ns)

\* A save or request node recorded as completed has had its effect: the
\* record never runs ahead of the database or of the external service, not
\* even when the commit or the call reported an error (nodeExecutorSave.run,
\* nodeExecutorRequest.run set Completed after the check of the result).
IsDone(i, e) ==
  e.completed /\ Kind[flowOf[i]][e.id] \in {"save", "request"} =>
    effect[i][e.id] > 0
RecordedImpliesDone ==
  \A i \in Instance : \A ns \in Lists(i) : \A k \in 1 .. Len(ns) : IsDone(i, ns[k])

\* No form is completed for an instance unless it was opened for it before:
\* a stage 1 that arrives early does not pass (nodeExecutorForm.run).
IsAsked(i, e) ==
  (e.completed \/ e.data # "nil") /\ Kind[flowOf[i]][e.id] = "form" =>
    e.id \in asked[i]
FormAnsweredOnlyIfAsked ==
  \A i \in Instance : \A ns \in Lists(i) : \A k \in 1 .. Len(ns) : IsAsked(i, ns[k])

\* What an instance commits comes from requests made to that very instance
\* or from answers of the services it called, never from another instance
\* served at the same time (outputs handed from node to node and through
\* Redis, nodeExecutorMerge.getFlowData).
NoForeignRows == \A i \in Instance : saved[i] \subseteq submitted[i]

\* An instance ID that a client was given with an opened form, in an answer
\* without an error, can be pushed: the instance is saved before that answer
\* leaves, and an error of the save is answered (FlowController.start, push).
KnownIsStored ==
  "expire" \notin Faults => \A i \in promised : store[i] # Absent

\* With one request at a time, saving an instance never takes back progress:
\* the entries saved before stay, and stay completed (push then saveInstance).
KeepsProgress(old, new) ==
  /\ Len(old) <= Len(new)
  /\ \A k \in 1 .. Len(old) :
       new[k].id = old[k].id /\ (old[k].completed => new[k].completed)
ProgressIsKept ==
  [][\A i \in Instance :
       store[i] # Absent /\ store'[i] # Absent => KeepsProgress(store[i], store'[i])]_vars

\* With one request at a time, each repetition of a commit or of an external
\* call by a node that has a successor is paid for by a failure of that
\* instance: a panic, an error, a crash or a save that did not happen.  (The
\* last node of a finished flow is executed again by every further push.)
RepeatsPaidByFaults ==
  \A i \in Instance, n \in Node :
    flowOf[i] # NoFlow /\ Edge[flowOf[i]][n] # NoNode =>
      effect[i][n] <= 1 + faults[i]

\* Each request is answered, or calls a service, which need not answer, or
\* meets a pool all of whose connections are held by transactions that
\* panicked (push, save.Execute); the flow is acyclic.
EveryRequestAnswered ==
  \A h \in Handler :
    pc[h] # "idle" ~> (pc[h] = "idle" \/ CanRequest(h) \/ leaked = MaxOpenConns)

=============================================================================
