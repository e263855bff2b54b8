-------------------------- MODULE FlowEngineProofs --------------------------
(***************************************************************************)
(* Proofs about FlowEngine, for every set of instances, handlers, flows    *)
(* and bodies and for every choice of failures.                            *)
(*                                                                         *)
(* The inductive invariant says of every list of entries, in Redis or in a *)
(* handler, that it is a path of its flow and that each of its entries is  *)
(* backed by the effects and by the opened forms of the instance.  Type    *)
(* correctness is part of it: the flow of an instance is known to exist    *)
(* only because a handler or Redis holds a list for it.                    *)
(***************************************************************************)
EXTENDS FlowEngine, SequenceTheorems, TLAPS

\* An entry that is backed by the effects eff and the opened forms ask of an
\* instance of flow f, and a list of such entries that is a path of f.
Backed(f, eff, ask, e) ==
  /\ e.completed /\ Kind[f][e.id] \in {"save", "request"} => eff[e.id] > 0
  /\ (e.completed \/ e.data # "nil") /\ Kind[f][e.id] = "form" => e.id \in ask

Sound(f, eff, ask, ns) ==
  /\ f \in Flow
  /\ IsPath(f, ns)
  /\ \A k \in 1 .. Len(ns) : Backed(f, eff, ask, ns[k])

StoreSound ==
  \A i \in Instance :
    store[i] # Absent => Sound(flowOf[i], effect[i], asked[i], store[i])

HandlersSound ==
  \A h \in Handler :
    pc[h] # "idle" => Sound(flowOf[on[h]], effect[on[h]], asked[on[h]], mem[h])

IInv == TypeOK /\ StoreSound /\ HandlersSound

-----------------------------------------------------------------------------
(* Lemmas about the operators.                                             *)

LEMMA RspType ==
  ASSUME NEW r \in RspPtr, r # NoRsp
  PROVE  r \in Rsp /\ r.stage \in {0, 1} /\ r.model \in BOOLEAN /\ r.list \in List
BY DEF RspPtr, Rsp

LEMMA RowsOfType ==
  ASSUME NEW r \in RspPtr
  PROVE  RowsOf(r) \subseteq Row
<1>1. CASE r = NoRsp
  BY <1>1 DEF RowsOf
<1>2. CASE r # NoRsp
  BY <1>2, RspType DEF RowsOf, List
<1>. QED  BY <1>1, <1>2

LEMMA IncType ==
  ASSUME NEW n \in 0 .. Cap
  PROVE  Inc(n) \in 0 .. Cap /\ Inc(n) > 0
BY BoundAssumption DEF Inc

LEMMA CreateType ==
  ASSUME NEW n \in Node
  PROVE  CreateInstanceNode(n) \in Entry
BY DEF CreateInstanceNode, Entry, RspPtr

LEMMA CompleteType ==
  ASSUME NEW e \in Entry, NEW r \in RspPtr
  PROVE  Complete(e, r) \in Entry
BY DEF Complete, Entry

LEMMA FlowDataFromMapType ==
  ASSUME NEW r \in RspPtr
  PROVE  FlowDataFromMap(r) \in RspPtr
BY RspType DEF FlowDataFromMap, RspPtr, Rsp, List

LEMMA FlowDataType ==
  ASSUME NEW ns \in Entries, NEW source
  PROVE  FlowData(ns, source) \in RspPtr
<1>1. CASE FirstAt(ns, source) = {}
  BY <1>1 DEF FlowData, RspPtr
<1>2. CASE FirstAt(ns, source) # {}
  <2> DEFINE e == ns[CHOOSE k \in FirstAt(ns, source) : TRUE]
  <2>1. (CHOOSE k \in FirstAt(ns, source) : TRUE) \in 1 .. Len(ns)
    BY <1>2 DEF FirstAt
  <2>2. e \in Entry
    BY <2>1 DEF Entries
  <2>3. e.out \in RspPtr
    BY <2>2 DEF Entry
  <2>4. FlowDataFromMap(e.out) \in RspPtr
    BY <2>3, FlowDataFromMapType
  <2>. QED  BY <1>2, <2>3, <2>4 DEF FlowData, RspPtr
<1>. QED  BY <1>1, <1>2

\* JSON changes neither the length of a list nor the parts of an entry that
\* the invariant is about.
LEMMA ReloadedEntries ==
  ASSUME NEW ns \in Entries
  PROVE  /\ Reloaded(ns) \in Entries
         /\ Len(Reloaded(ns)) = Len(ns)
         /\ \A k \in 1 .. Len(ns) :
              /\ Reloaded(ns)[k].id = ns[k].id
              /\ Reloaded(ns)[k].completed = ns[k].completed
              /\ Reloaded(ns)[k].data # "nil" => ns[k].data # "nil"
<1> DEFINE E(k) == [ns[k] EXCEPT
                      !.data = IF @ = "struct" THEN "map" ELSE @,
                      !.out  = IF @ # NoRsp /\ @.list = NilList
                                 THEN [@ EXCEPT !.list = NoList] ELSE @]
<1>0. Len(ns) \in Nat
  BY DEF Entries
<1>1. ASSUME NEW k \in 1 .. Len(ns)
      PROVE  /\ E(k) \in Entry
             /\ E(k).id = ns[k].id
             /\ E(k).completed = ns[k].completed
             /\ E(k).data # "nil" => ns[k].data # "nil"
  <2>1. ns[k] \in Entry
    BY DEF Entries
  <2>2. ns[k].out # NoRsp /\ ns[k].out.list = NilList =>
          [ns[k].out EXCEPT !.list = NoList] \in RspPtr
    BY <2>1, RspType DEF Entry, RspPtr, Rsp, List
  <2>. QED  BY <2>1, <2>2 DEF Entry
<1>2. Reloaded(ns) = [k \in 1 .. Len(ns) |-> E(k)]
  BY DEF Reloaded
<1>. HIDE DEF E
<1>3. Reloaded(ns) \in [1 .. Len(ns) -> Entry]
  BY <1>1, <1>2
<1>4. Reloaded(ns) \in Seq(Entry) /\ Len(Reloaded(ns)) = Len(ns)
  BY <1>0, <1>3, SeqDef
<1>. QED  BY <1>1, <1>2, <1>4 DEF Entries

\* More effects and more opened forms back an entry all the more.
LEMMA SoundGrows ==
  ASSUME NEW f, NEW eff, NEW ask, NEW eff2, NEW ask2, NEW ns \in Entries,
         Sound(f, eff, ask, ns),
         \A n \in Node : eff[n] > 0 => eff2[n] > 0,
         ask \subseteq ask2
  PROVE  Sound(f, eff2, ask2, ns)
<1>1. \A k \in 1 .. Len(ns) : ns[k] \in Entry
  BY DEF Entries
<1>2. \A k \in 1 .. Len(ns) : ns[k].id \in Node
  BY <1>1 DEF Entry
<1>. QED  BY <1>2 DEF Sound, Backed

LEMMA SoundReloaded ==
  ASSUME NEW f, NEW eff, NEW ask, NEW ns \in Entries, Sound(f, eff, ask, ns)
  PROVE  Sound(f, eff, ask, Reloaded(ns))
<1>1. Len(ns) \in Nat
  BY DEF Entries
<1>2. IsPath(f, Reloaded(ns))
  BY <1>1, ReloadedEntries DEF Sound, IsPath
<1>3. \A k \in 1 .. Len(ns) : Backed(f, eff, ask, Reloaded(ns)[k])
  BY ReloadedEntries DEF Sound, Backed
<1>. QED  BY <1>2, <1>3, ReloadedEntries DEF Sound

\* Replacing the last entry, and going on along the edge that leaves it.
LEMMA SoundReplace ==
  ASSUME NEW f, NEW eff, NEW ask, NEW ns \in Entries, Sound(f, eff, ask, ns),
         NEW e \in Entry, e.id = Last(ns).id, Backed(f, eff, ask, e)
  PROVE  /\ [ns EXCEPT ![Len(ns)] = e] \in Entries
         /\ Sound(f, eff, ask, [ns EXCEPT ![Len(ns)] = e])
         /\ Last([ns EXCEPT ![Len(ns)] = e]) = e
<1> DEFINE new == [ns EXCEPT ![Len(ns)] = e]
<1>1. Len(ns) \in Nat \ {0} /\ Len(ns) \in 1 .. Len(ns)
  BY DEF Sound, IsPath, Entries
<1>2. /\ new \in Entries
      /\ Len(new) = Len(ns)
      /\ \A j \in 1 .. Len(ns) : new[j] = IF j = Len(ns) THEN e ELSE ns[j]
  BY <1>1, ExceptSeq DEF Entries
<1>. HIDE DEF new
<1>3. \A j \in 1 .. Len(ns) : new[j].id = ns[j].id
  BY <1>1, <1>2 DEF Last
<1>4. IsPath(f, new)
  BY <1>1, <1>2, <1>3 DEF Sound, IsPath
<1>5. Sound(f, eff, ask, new)
  BY <1>2, <1>4 DEF Sound
<1>6. Last(new) = e
  BY <1>1, <1>2 DEF Last
<1>. QED  BY <1>2, <1>5, <1>6 DEF new

LEMMA SoundAppend ==
  ASSUME NEW f, NEW eff, NEW ask, NEW ns \in Entries, Sound(f, eff, ask, ns),
         Last(ns).completed, NEW next \in Node, next = Edge[f][Last(ns).id]
  PROVE  /\ Append(ns, CreateInstanceNode(next)) \in Entries
         /\ Sound(f, eff, ask, Append(ns, CreateInstanceNode(next)))
<1> DEFINE c == CreateInstanceNode(next)
           new == Append(ns, c)
<1>1. Len(ns) \in Nat \ {0}
  BY DEF Sound, IsPath, Entries
<1>2. c \in Entry /\ c.id = next /\ Backed(f, eff, ask, c)
  BY CreateType DEF CreateInstanceNode, Backed
<1>. HIDE DEF c
<1>3. /\ new \in Entries
      /\ Len(new) = Len(ns) + 1
      /\ \A j \in 1 .. Len(ns) : new[j] = ns[j]
      /\ new[Len(ns) + 1] = c
  BY <1>1, <1>2 DEF Entries
<1>. HIDE DEF new
<1>4. \A k \in 1 .. Len(new) - 1 : new[k].completed /\ new[k + 1].id = Edge[f][new[k].id]
  <2>. SUFFICES ASSUME NEW k \in 1 .. Len(ns)
                PROVE  new[k].completed /\ new[k + 1].id = Edge[f][new[k].id]
    BY <1>1, <1>3
  <2>1. CASE k = Len(ns)
    BY <2>1, <1>1, <1>2, <1>3 DEF Last
  <2>2. CASE k # Len(ns)
    <3>1. k \in 1 .. Len(ns) - 1 /\ k + 1 \in 1 .. Len(ns)
      BY <2>2, <1>1
    <3>. QED  BY <3>1, <1>3 DEF Sound, IsPath
  <2>. QED  BY <2>1, <2>2
<1>5. IsPath(f, new)
  BY <1>1, <1>3, <1>4 DEF Sound, IsPath
<1>6. \A k \in 1 .. Len(new) : Backed(f, eff, ask, new[k])
  BY <1>1, <1>2, <1>3 DEF Sound
<1>7. Sound(f, eff, ask, new)
  BY <1>5, <1>6 DEF Sound
<1>. QED  BY <1>3, <1>7 DEF new, c

-----------------------------------------------------------------------------
(* What the invariant says of a handler that is at work.                   *)

LEMMA Busy ==
  ASSUME IInv, NEW h \in Handler, pc[h] # "idle"
  PROVE  /\ on[h] \in Instance
         /\ flowOf[on[h]] \in Flow
         /\ mem[h] \in Entries
         /\ Sound(flowOf[on[h]], effect[on[h]], asked[on[h]], mem[h])
         /\ Current(h) \in Entry
         /\ Current(h).id \in Node
         /\ Backed(flowOf[on[h]], effect[on[h]], asked[on[h]], Current(h))
<1>1. on[h] \in Instance /\ mem[h] \in Entries
  BY DEF IInv, TypeOK
<1>2. Sound(flowOf[on[h]], effect[on[h]], asked[on[h]], mem[h])
  BY DEF IInv, HandlersSound
<1>3. Len(mem[h]) \in 1 .. Len(mem[h])
  BY <1>1, <1>2 DEF Sound, IsPath, Entries
<1>4. Current(h) \in Entry
  BY <1>1, <1>3 DEF Current, Last, Entries
<1>5. Current(h).id \in Node
  BY <1>4 DEF Entry
<1>6. Backed(flowOf[on[h]], effect[on[h]], asked[on[h]], Current(h))
  BY <1>2, <1>3 DEF Sound, Current, Last
<1>. QED  BY <1>1, <1>2, <1>4, <1>5, <1>6 DEF Sound

\* The loop of push: if the executed entry is backed, so is what follows.
LEMMA AdvanceSound ==
  ASSUME IInv, NEW h \in Handler, pc[h] # "idle",
         NEW e \in Entry, NEW r \in RspPtr, NEW w \in {"none", "form"},
         e.id = Current(h).id,
         NEW eff, NEW ask,
         \A n \in Node : effect[on[h]][n] > 0 => eff[n] > 0,
         asked[on[h]] \subseteq ask,
         Backed(flowOf[on[h]], eff, ask, e),
         Advance(h, e, r, w)
  PROVE  /\ mem' = [mem EXCEPT ![h] = mem'[h]]
         /\ mem'[h] \in Entries
         /\ Sound(flowOf[on[h]], eff, ask, mem'[h])
         /\ on' = on
         /\ pc' \in [Handler -> {"idle", "run", "save"}]
         /\ \A g \in Handler \ {h} : pc'[g] = pc[g]
         /\ req' \in [Handler -> RspPtr]
         /\ reply' \in [Handler -> {"none", "ok", "form", "error", "panic", "down"}]
<1> DEFINE f == flowOf[on[h]]
           ns == [mem[h] EXCEPT ![Len(mem[h])] = e]
           next == Edge[f][e.id]
<1>1. Sound(f, eff, ask, mem[h])
  BY Busy, SoundGrows
<1>2. ns \in Entries /\ Sound(f, eff, ask, ns) /\ Last(ns) = e
  BY <1>1, Busy, SoundReplace DEF Current
<1>3. next \in Node \cup {NoNode}
  <2>1. e.id \in Node
    BY DEF Entry
  <2>. QED  BY <2>1, Busy, FlowAssumption
<1>4. TypeOK
  BY DEF IInv
<1>5. CASE e.completed /\ next # NoNode
  <2>1. /\ mem' = [mem EXCEPT ![h] = Append(ns, CreateInstanceNode(next))]
        /\ req' = [req EXCEPT ![h] = r]
        /\ UNCHANGED <<pc, on, reply>>
    BY <1>5 DEF Advance, FlowAt
  <2>2. /\ Append(ns, CreateInstanceNode(next)) \in Entries
        /\ Sound(f, eff, ask, Append(ns, CreateInstanceNode(next)))
    BY <1>2, <1>3, <1>5, SoundAppend
  <2>3. mem'[h] = Append(ns, CreateInstanceNode(next))
    BY <2>1, <1>4 DEF TypeOK
  <2>. QED  BY <1>4, <2>1, <2>2, <2>3 DEF TypeOK
<1>6. CASE ~(e.completed /\ next # NoNode)
  <2>1. /\ mem' = [mem EXCEPT ![h] = ns]
        /\ pc' = [pc EXCEPT ![h] = "save"]
        /\ reply' = [reply EXCEPT ![h] = IF e.completed THEN "ok" ELSE w]
        /\ UNCHANGED <<on, req>>
    BY <1>6 DEF Advance, FlowAt
  <2>2. mem'[h] = ns
    BY <2>1, <1>4 DEF TypeOK
  <2>. QED  BY <1>2, <1>4, <2>1, <2>2 DEF TypeOK
<1>. QED  BY <1>5, <1>6

\* A step of handler h that creates and stores nothing keeps the lists sound
\* when the list of h stays sound, or h drops it.
LEMMA HandlerStep ==
  ASSUME IInv, TypeOK', NEW h \in Handler,
         flowOf' = flowOf, store' = store, on' = on,
         \A g \in Handler \ {h} : pc'[g] = pc[g] /\ mem'[g] = mem[g],
         \A i \in Instance, n \in Node : effect[i][n] > 0 => effect'[i][n] > 0,
         \A i \in Instance : asked[i] \subseteq asked'[i],
         \/ pc'[h] = "idle"
         \/ Sound(flowOf[on[h]], effect'[on[h]], asked'[on[h]], mem'[h])
  PROVE  IInv'
<1>1. StoreSound'
  <2> SUFFICES ASSUME NEW i \in Instance, store[i] # Absent
               PROVE  Sound(flowOf[i], effect'[i], asked'[i], store[i])
    BY DEF StoreSound
  <2>1. store[i] \in Entries /\ Sound(flowOf[i], effect[i], asked[i], store[i])
    BY DEF IInv, TypeOK, StoreSound
  <2>. QED  BY <2>1, SoundGrows
<1>2. HandlersSound'
  <2> SUFFICES ASSUME NEW g \in Handler, pc'[g] # "idle"
               PROVE  Sound(flowOf[on[g]], effect'[on[g]], asked'[on[g]], mem'[g])
    BY DEF HandlersSound
  <2>1. CASE g = h
    BY <2>1
  <2>2. CASE g # h
    <3>1. /\ mem[g] \in Entries /\ mem'[g] = mem[g]
          /\ on[g] \in Instance
          /\ Sound(flowOf[on[g]], effect[on[g]], asked[on[g]], mem[g])
      BY <2>2, Busy
    <3>. QED  BY <3>1, SoundGrows
  <2>. QED  BY <2>1, <2>2
<1>. QED  BY <1>1, <1>2 DEF IInv

-----------------------------------------------------------------------------
(* The histories, and the two ways a node ends.                            *)

HistoryType ==
  /\ effect \in [Instance -> [Node -> 0 .. Cap]]
  /\ saved \in [Instance -> SUBSET Row]
  /\ submitted \in [Instance -> SUBSET Row]
  /\ asked \in [Instance -> SUBSET Node]
  /\ faults \in [Instance -> 0 .. Cap]

\* Histories keep their types, and nothing done or asked is forgotten.
HistoryGrows ==
  /\ HistoryType'
  /\ \A i \in Instance, n \in Node : effect[i][n] > 0 => effect'[i][n] > 0
  /\ \A i \in Instance : asked[i] \subseteq asked'[i]

LEMMA EffectGrows ==
  ASSUME IInv, NEW i \in Instance, NEW n \in Node,
         effect' = [effect EXCEPT ![i][n] = Inc(@)]
  PROVE  /\ effect' \in [Instance -> [Node -> 0 .. Cap]]
         /\ \A j \in Instance, m \in Node : effect[j][m] > 0 => effect'[j][m] > 0
         /\ effect'[i][n] > 0
<1>1. effect \in [Instance -> [Node -> 0 .. Cap]]
  BY DEF IInv, TypeOK
<1>2. effect[i][n] \in 0 .. Cap
  BY <1>1
<1>3. Inc(effect[i][n]) \in 0 .. Cap /\ Inc(effect[i][n]) > 0
  BY <1>2, IncType
<1>4. effect' = [effect EXCEPT ![i] = [effect[i] EXCEPT ![n] = Inc(effect[i][n])]]
  OBVIOUS
<1>. QED  BY <1>1, <1>3, <1>4

LEMMA FaultType ==
  ASSUME IInv, NEW h \in Handler, Fault(h)
  PROVE  faults' \in [Instance -> 0 .. Cap]
<1>1. faults \in [Instance -> 0 .. Cap] /\ on[h] \in Instance
  BY DEF IInv, TypeOK
<1>2. Inc(faults[on[h]]) \in 0 .. Cap
  BY <1>1, IncType
<1>. QED  BY <1>1, <1>2 DEF Fault

\* A node that was executed and recorded in entry e.
LEMMA AdvanceStep ==
  ASSUME IInv, NEW h \in Handler, pc[h] = "run",
         NEW e \in Entry, NEW r \in RspPtr, NEW w \in {"none", "form"},
         e.id = Current(h).id, Advance(h, e, r, w),
         UNCHANGED store_vars, HistoryGrows,
         Backed(flowOf[on[h]], effect'[on[h]], asked'[on[h]], e)
  PROVE  IInv'
<1> DEFINE eff == effect'[on[h]]
           ask == asked'[on[h]]
<1>1. /\ \A n \in Node : effect[on[h]][n] > 0 => eff[n] > 0
      /\ asked[on[h]] \subseteq ask
  BY Busy DEF HistoryGrows
<1>2. Backed(flowOf[on[h]], eff, ask, e) /\ pc[h] # "idle"
  OBVIOUS
<1>. HIDE DEF eff, ask
<1>3. /\ mem' = [mem EXCEPT ![h] = mem'[h]]
      /\ mem'[h] \in Entries
      /\ Sound(flowOf[on[h]], eff, ask, mem'[h])
      /\ on' = on
      /\ pc' \in [Handler -> {"idle", "run", "save"}]
      /\ \A g \in Handler \ {h} : pc'[g] = pc[g]
      /\ req' \in [Handler -> RspPtr]
      /\ reply' \in [Handler -> {"none", "ok", "form", "error", "panic", "down"}]
  BY <1>1, <1>2, AdvanceSound, ZenonT(30)
<1>4. TypeOK
  BY DEF IInv
<1>5. mem' \in [Handler -> Entries] /\ \A g \in Handler \ {h} : mem'[g] = mem[g]
  BY <1>3, <1>4 DEF TypeOK
<1>6. TypeOK'
  BY <1>3, <1>4, <1>5 DEF TypeOK, store_vars, HistoryGrows, HistoryType
<1>. QED
  BY <1>3, <1>5, <1>6, HandlerStep DEF store_vars, HistoryGrows, eff, ask

\* A node whose executor returned an error or panicked.
LEMMA AbortStep ==
  ASSUME IInv, NEW h \in Handler, pc[h] = "run",
         StepFails(h) \/ Panic(h),
         UNCHANGED <<flowOf, store, known, promised>>, leaked' \in 0 .. MaxOpenConns,
         HistoryGrows
  PROVE  IInv'
<1>1. TypeOK
  BY DEF IInv
<1>2. << >> \in Entries /\ NoRsp \in RspPtr
  BY DEF Entries, RspPtr
<1>3. /\ pc' \in [Handler -> {"idle", "run", "save"}]
      /\ mem' \in [Handler -> Entries]
      /\ req' \in [Handler -> RspPtr]
      /\ reply' \in [Handler -> {"none", "ok", "form", "error", "panic", "down"}]
      /\ on' = on
      /\ \A g \in Handler \ {h} : pc'[g] = pc[g] /\ mem'[g] = mem[g]
      /\ pc'[h] = "idle" \/ mem'[h] = mem[h]
  <2>1. CASE StepFails(h)
    BY <1>1, <2>1 DEF StepFails, TypeOK
  <2>2. CASE Panic(h)
    <3>1. mem' \in [Handler -> Entries] /\ req' \in [Handler -> RspPtr]
      BY <1>1, <1>2, <2>2 DEF Panic, TypeOK
    <3>2. /\ pc' \in [Handler -> {"idle", "run", "save"}]
          /\ reply' \in [Handler -> {"none", "ok", "form", "error", "panic", "down"}]
          /\ on' = on
          /\ pc'[h] = "idle"
      BY <1>1, <2>2 DEF Panic, TypeOK
    <3>3. \A g \in Handler \ {h} : pc'[g] = pc[g] /\ mem'[g] = mem[g]
      BY <1>1, <2>2 DEF Panic, TypeOK
    <3>. QED  BY <3>1, <3>2, <3>3
  <2>. QED  BY <2>1, <2>2
<1>4. TypeOK'
  BY <1>1, <1>3 DEF TypeOK, HistoryGrows, HistoryType
<1>5. /\ mem[h] \in Entries
      /\ Sound(flowOf[on[h]], effect[on[h]], asked[on[h]], mem[h])
      /\ on[h] \in Instance
  BY Busy
<1>6. Sound(flowOf[on[h]], effect'[on[h]], asked'[on[h]], mem[h])
  <2>1. \A n \in Node : effect[on[h]][n] > 0 => effect'[on[h]][n] > 0
    BY <1>5 DEF HistoryGrows
  <2>2. asked[on[h]] \subseteq asked'[on[h]]
    BY <1>5 DEF HistoryGrows
  <2>. QED  BY <1>5, <2>1, <2>2, SoundGrows
<1>. QED  BY <1>3, <1>4, <1>6, HandlerStep DEF HistoryGrows

-----------------------------------------------------------------------------
(* Each action preserves the invariant.                                    *)

LEMMA InitIInv == Init => IInv
<1> SUFFICES ASSUME Init PROVE IInv
  OBVIOUS
<1>1. << >> \in Entries /\ NoRsp \in RspPtr
  BY DEF Entries, RspPtr
<1>2. 0 \in 0 .. Cap /\ 0 \in 0 .. MaxOpenConns
  BY BoundAssumption
<1>3. store \in [Instance -> {Absent} \cup Entries]
  BY DEF Init
<1>4. mem \in [Handler -> Entries] /\ req \in [Handler -> RspPtr]
  BY <1>1 DEF Init
<1>5. TypeOK
  BY <1>2, <1>3, <1>4 DEF Init, TypeOK
<1>6. StoreSound /\ HandlersSound
  BY DEF Init, StoreSound, HandlersSound
<1>. QED  BY <1>5, <1>6 DEF IInv

\* What every executor starts from.
LEMMA AtNode ==
  ASSUME IInv, NEW h \in Handler, NEW kind, Running(h, kind)
  PROVE  /\ pc[h] = "run"
         /\ on[h] \in Instance
         /\ Current(h) \in Entry
         /\ Current(h).id \in Node
         /\ Kind[flowOf[on[h]]][Current(h).id] = kind
         /\ Backed(flowOf[on[h]], effect[on[h]], asked[on[h]], Current(h))
         /\ req[h] \in RspPtr
         /\ HistoryType
BY Busy DEF Running, KindAt, FlowAt, IInv, TypeOK, HistoryType

LEMMA PassStep ==
  ASSUME IInv, NEW h \in Handler, RunPass(h)
  PROVE  IInv'
<1>1. PICK kind \in {"start", "end"} : Running(h, kind)
  BY DEF RunPass
<1>2. PICK e \in Entry : e = Complete(Current(h), req[h])
  BY <1>1, AtNode, CompleteType
<1>3. e.id = Current(h).id
  BY <1>2 DEF Complete
<1>4. HistoryGrows
  BY <1>1, AtNode DEF RunPass, history, HistoryGrows, HistoryType
<1>5. Backed(flowOf[on[h]], effect'[on[h]], asked'[on[h]], e)
  BY <1>1, <1>3, AtNode DEF Backed
<1>6. Advance(h, e, req[h], "none") /\ UNCHANGED store_vars
  BY <1>2 DEF RunPass
<1>. QED  BY <1>1, <1>3, <1>4, <1>5, <1>6, AtNode, AdvanceStep

LEMMA FormStage0Step ==
  ASSUME IInv, NEW h \in Handler, RunFormStage0(h)
  PROVE  IInv'
<1>1. Running(h, "form")
  BY DEF RunFormStage0
<1>2. PICK e : e = [Current(h) EXCEPT !.data = "stage0", !.out = NoRsp]
  OBVIOUS
<1>3. e \in Entry /\ e.id = Current(h).id /\ e.completed = Current(h).completed
  <2>1. Current(h) \in Entry /\ NoRsp \in RspPtr
    BY <1>1, AtNode DEF RspPtr
  <2>. QED  BY <1>2, <2>1 DEF Entry
<1>4. /\ HistoryGrows
      /\ Current(h).id \in asked'[on[h]]
  BY <1>1, AtNode DEF RunFormStage0, HistoryGrows, HistoryType
<1>5. Backed(flowOf[on[h]], effect'[on[h]], asked'[on[h]], e)
  BY <1>1, <1>3, <1>4, AtNode DEF Backed
<1>6. Advance(h, e, NoRsp, "form") /\ UNCHANGED store_vars
  BY <1>2 DEF RunFormStage0
<1>7. NoRsp \in RspPtr
  BY DEF RspPtr
<1>. QED  BY <1>1, <1>3, <1>4, <1>5, <1>6, <1>7, AtNode, AdvanceStep

LEMMA FormStage1Step ==
  ASSUME IInv, NEW h \in Handler, RunFormStage1(h)
  PROVE  IInv'
<1>1. Running(h, "form") /\ Current(h).data # "nil"
  BY DEF RunFormStage1
<1>2. PICK e \in Entry : e = Complete(Current(h), req[h])
  BY <1>1, AtNode, CompleteType
<1>3. e.id = Current(h).id
  BY <1>2 DEF Complete
<1>4. HistoryGrows
  BY <1>1, AtNode DEF RunFormStage1, history, HistoryGrows, HistoryType
<1>5. Backed(flowOf[on[h]], effect'[on[h]], asked'[on[h]], e)
  <2>1. Current(h).id \in asked[on[h]]
    BY <1>1, AtNode DEF Backed
  <2>2. asked'[on[h]] = asked[on[h]]
    BY DEF RunFormStage1, history
  <2>. QED  BY <1>1, <1>3, <2>1, <2>2, AtNode DEF Backed
<1>6. Advance(h, e, req[h], "none") /\ UNCHANGED store_vars
  BY <1>2 DEF RunFormStage1
<1>. QED  BY <1>1, <1>3, <1>4, <1>5, <1>6, AtNode, AdvanceStep

LEMMA MergeStep ==
  ASSUME IInv, NEW h \in Handler, RunMerge(h)
  PROVE  IInv'
<1>1. Running(h, "merge")
  BY DEF RunMerge
<1>2. PICK r : r = FlowData(mem[h], MainSource[FlowAt(h)][Current(h).id])
  OBVIOUS
<1>3. r \in RspPtr
  BY <1>1, <1>2, Busy, FlowDataType DEF Running
<1>4. PICK e \in Entry : e = Complete(Current(h), r)
  BY <1>1, <1>3, AtNode, CompleteType
<1>5. e.id = Current(h).id
  BY <1>4 DEF Complete
<1>6. HistoryGrows
  BY <1>1, AtNode DEF RunMerge, history, HistoryGrows, HistoryType
<1>7. Backed(flowOf[on[h]], effect'[on[h]], asked'[on[h]], e)
  BY <1>1, <1>5, AtNode DEF Backed
<1>8. Advance(h, e, r, "none") /\ UNCHANGED store_vars
  BY <1>2, <1>4 DEF RunMerge
<1>. QED  BY <1>1, <1>3, <1>5, <1>6, <1>7, <1>8, AtNode, AdvanceStep

LEMMA SaveStep ==
  ASSUME IInv, NEW h \in Handler, RunSave(h)
  PROVE  IInv'
<1>1. Running(h, "save") /\ Commit(on[h], Current(h).id, req[h])
  BY DEF RunSave, CanSave
<1>2. PICK r : r = [stage |-> 0, model |-> TRUE, list |-> RowsOf(req[h])]
  OBVIOUS
<1>3. RowsOf(req[h]) \subseteq Row
  BY <1>1, AtNode, RowsOfType
<1>4. r \in RspPtr
  BY <1>2, <1>3 DEF RspPtr, Rsp, List
<1>5. PICK e \in Entry : e = Complete(Current(h), r)
  BY <1>1, <1>4, AtNode, CompleteType
<1>6. e.id = Current(h).id
  BY <1>5 DEF Complete
<1>7. HistoryGrows /\ effect'[on[h]][Current(h).id] > 0
  <2>1. /\ effect' \in [Instance -> [Node -> 0 .. Cap]]
        /\ \A j \in Instance, m \in Node : effect[j][m] > 0 => effect'[j][m] > 0
        /\ effect'[on[h]][Current(h).id] > 0
    BY <1>1, AtNode, EffectGrows DEF Commit
  <2>2. saved' \in [Instance -> SUBSET Row]
    BY <1>1, <1>3, AtNode DEF Commit, HistoryType
  <2>. QED  BY <1>1, <2>1, <2>2, AtNode DEF RunSave, HistoryGrows, HistoryType
<1>8. Backed(flowOf[on[h]], effect'[on[h]], asked'[on[h]], e)
  BY <1>1, <1>6, <1>7, AtNode DEF Backed
<1>9. Advance(h, e, r, "none") /\ UNCHANGED store_vars
  BY <1>2, <1>5 DEF RunSave
<1>. QED  BY <1>1, <1>4, <1>6, <1>7, <1>8, <1>9, AtNode, AdvanceStep

LEMMA RequestStep ==
  ASSUME IInv, NEW h \in Handler, RunRequest(h)
  PROVE  IInv'
<1>1. /\ Running(h, "request")
      /\ effect' = [effect EXCEPT ![on[h]][Current(h).id] = Inc(@)]
      /\ UNCHANGED <<store_vars, saved, asked, faults>>
  BY DEF RunRequest, CanRequest
<1>2. PICK r \in ServiceRsp :
        /\ Advance(h, Complete(Current(h), r), r, "none")
        /\ submitted' = [submitted EXCEPT ![on[h]] = @ \cup RowsOf(r)]
  BY DEF RunRequest
<1>3. r \in RspPtr
  BY DataAssumption
<1>4. PICK e \in Entry : e = Complete(Current(h), r)
  BY <1>1, <1>3, AtNode, CompleteType
<1>5. e.id = Current(h).id
  BY <1>4 DEF Complete
<1>6. HistoryGrows /\ effect'[on[h]][Current(h).id] > 0
  <2>1. /\ effect' \in [Instance -> [Node -> 0 .. Cap]]
        /\ \A j \in Instance, m \in Node : effect[j][m] > 0 => effect'[j][m] > 0
        /\ effect'[on[h]][Current(h).id] > 0
    BY <1>1, AtNode, EffectGrows
  <2>2. submitted' \in [Instance -> SUBSET Row]
    BY <1>1, <1>2, <1>3, AtNode, RowsOfType DEF HistoryType
  <2>. QED  BY <1>1, <2>1, <2>2, AtNode DEF HistoryGrows, HistoryType
<1>7. Backed(flowOf[on[h]], effect'[on[h]], asked'[on[h]], e)
  BY <1>1, <1>5, <1>6, AtNode DEF Backed
<1>8. Advance(h, e, r, "none") /\ UNCHANGED store_vars
  BY <1>1, <1>2, <1>4
<1>. QED  BY <1>1, <1>3, <1>5, <1>6, <1>7, <1>8, AtNode, AdvanceStep

LEMMA FormPanicStep ==
  ASSUME IInv, NEW h \in Handler, RunFormPanic(h)
  PROVE  IInv'
<1>1. Running(h, "form") /\ Panic(h) /\ Fault(h)
  BY DEF RunFormPanic
<1>2. HistoryGrows
  BY <1>1, AtNode, FaultType DEF RunFormPanic, HistoryGrows, HistoryType
<1>3. UNCHANGED <<flowOf, store, known, promised>> /\ leaked' \in 0 .. MaxOpenConns
  BY DEF RunFormPanic, store_vars, IInv, TypeOK
<1>. QED  BY <1>1, <1>2, <1>3, AtNode, AbortStep

LEMMA SaveRefusedStep ==
  ASSUME IInv, NEW h \in Handler, RunSaveRefused(h)
  PROVE  IInv'
<1>1. Running(h, "save") /\ Panic(h) /\ Fault(h)
  BY DEF RunSaveRefused, CanSave
<1>2. HistoryGrows
  BY <1>1, AtNode, FaultType DEF RunSaveRefused, HistoryGrows, HistoryType
<1>3. UNCHANGED <<flowOf, store, known, promised>> /\ leaked' \in 0 .. MaxOpenConns
  BY DEF RunSaveRefused, store_vars, IInv, TypeOK
<1>. QED  BY <1>1, <1>2, <1>3, AtNode, AbortStep

LEMMA SaveCommitErrorStep ==
  ASSUME IInv, NEW h \in Handler, RunSaveCommitError(h)
  PROVE  IInv'
<1>1. Running(h, "save") /\ StepFails(h) /\ Fault(h)
  BY DEF RunSaveCommitError, CanSave
<1>2. UNCHANGED <<submitted, asked>>
  BY DEF RunSaveCommitError
<1>3. HistoryGrows
  <2>1. CASE Commit(on[h], Current(h).id, req[h])
    <3>1. /\ effect' \in [Instance -> [Node -> 0 .. Cap]]
          /\ \A j \in Instance, m \in Node : effect[j][m] > 0 => effect'[j][m] > 0
      BY <1>1, <2>1, AtNode, EffectGrows DEF Commit
    <3>2. saved' \in [Instance -> SUBSET Row]
      BY <1>1, <2>1, AtNode, RowsOfType DEF Commit, HistoryType
    <3>. QED  BY <1>1, <1>2, <3>1, <3>2, AtNode, FaultType DEF HistoryGrows, HistoryType
  <2>2. CASE UNCHANGED <<effect, saved>>
    BY <1>1, <1>2, <2>2, AtNode, FaultType DEF HistoryGrows, HistoryType
  <2>. QED  BY <2>1, <2>2 DEF RunSaveCommitError
<1>4. UNCHANGED <<flowOf, store, known, promised>> /\ leaked' \in 0 .. MaxOpenConns
  BY DEF RunSaveCommitError, store_vars, IInv, TypeOK
<1>. QED  BY <1>1, <1>3, <1>4, AtNode, AbortStep

LEMMA SavePanicStep ==
  ASSUME IInv, NEW h \in Handler, RunSavePanic(h)
  PROVE  IInv'
<1>1. Running(h, "save") /\ Panic(h) /\ Fault(h)
  BY DEF RunSavePanic, CanSave
<1>2. HistoryGrows
  BY <1>1, AtNode, FaultType DEF RunSavePanic, HistoryGrows, HistoryType
<1>3. leaked' \in 0 .. MaxOpenConns
  <2>1. leaked \in 0 .. MaxOpenConns /\ MaxOpenConns \in Nat
    BY BoundAssumption DEF IInv, TypeOK
  <2>. QED  BY <2>1 DEF RunSavePanic, CanSave
<1>4. UNCHANGED <<flowOf, store, known, promised>>
  BY DEF RunSavePanic
<1>. QED  BY <1>1, <1>2, <1>3, <1>4, AtNode, AbortStep

LEMMA RequestFailsStep ==
  ASSUME IInv, NEW h \in Handler, RunRequestFails(h)
  PROVE  IInv'
<1>1. Running(h, "request") /\ StepFails(h) /\ Fault(h)
  BY DEF RunRequestFails, CanRequest
<1>2. UNCHANGED <<saved, submitted, asked>>
  BY DEF RunRequestFails
<1>3. HistoryGrows
  <2>1. CASE effect' = [effect EXCEPT ![on[h]][Current(h).id] = Inc(@)]
    <3>1. /\ effect' \in [Instance -> [Node -> 0 .. Cap]]
          /\ \A j \in Instance, m \in Node : effect[j][m] > 0 => effect'[j][m] > 0
      BY <1>1, <2>1, AtNode, EffectGrows
    <3>. QED  BY <1>1, <1>2, <3>1, AtNode, FaultType DEF HistoryGrows, HistoryType
  <2>2. CASE UNCHANGED effect
    BY <1>1, <1>2, <2>2, AtNode, FaultType DEF HistoryGrows, HistoryType
  <2>. QED  BY <2>1, <2>2 DEF RunRequestFails
<1>4. UNCHANGED <<flowOf, store, known, promised>> /\ leaked' \in 0 .. MaxOpenConns
  BY DEF RunRequestFails, store_vars, IInv, TypeOK
<1>. QED  BY <1>1, <1>3, <1>4, AtNode, AbortStep

LEMMA RequestPanicStep ==
  ASSUME IInv, NEW h \in Handler, RunRequestPanic(h)
  PROVE  IInv'
<1>1. Running(h, "request") /\ Panic(h) /\ Fault(h)
  BY DEF RunRequestPanic
<1>2. HistoryGrows
  BY <1>1, AtNode, FaultType DEF RunRequestPanic, HistoryGrows, HistoryType
<1>3. UNCHANGED <<flowOf, store, known, promised>> /\ leaked' \in 0 .. MaxOpenConns
  BY DEF RunRequestPanic, store_vars, IInv, TypeOK
<1>. QED  BY <1>1, <1>2, <1>3, AtNode, AbortStep

LEMMA MergePanicStep ==
  ASSUME IInv, NEW h \in Handler, RunMergePanic(h)
  PROVE  IInv'
<1>1. Running(h, "merge") /\ Panic(h) /\ Fault(h)
  BY DEF RunMergePanic
<1>2. HistoryGrows
  BY <1>1, AtNode, FaultType DEF RunMergePanic, HistoryGrows, HistoryType
<1>3. UNCHANGED <<flowOf, store, known, promised>> /\ leaked' \in 0 .. MaxOpenConns
  BY DEF RunMergePanic, store_vars, IInv, TypeOK
<1>. QED  BY <1>1, <1>2, <1>3, AtNode, AbortStep

LEMMA UnknownStep ==
  ASSUME IInv, NEW h \in Handler, RunUnknown(h)
  PROVE  IInv'
<1>1. Running(h, "unknown") /\ StepFails(h) /\ Fault(h)
  BY DEF RunUnknown
<1>2. HistoryGrows
  BY <1>1, AtNode, FaultType DEF RunUnknown, HistoryGrows, HistoryType
<1>3. UNCHANGED <<flowOf, store, known, promised>> /\ leaked' \in 0 .. MaxOpenConns
  BY DEF RunUnknown, store_vars, IInv, TypeOK
<1>. QED  BY <1>1, <1>2, <1>3, AtNode, AbortStep

LEMMA RunNodeStep ==
  ASSUME IInv, NEW h \in Handler, RunNode(h)
  PROVE  IInv'
BY PassStep, FormStage0Step, FormStage1Step, FormPanicStep, SaveStep,
   SaveRefusedStep, SaveCommitErrorStep, SavePanicStep, RequestStep,
   RequestFailsStep, RequestPanicStep, MergeStep, MergePanicStep,
   UnknownStep DEF RunNode

\* The list of a new instance is its start node.
LEMMA SoundStart ==
  ASSUME NEW f \in Flow, NEW eff, NEW ask, Start[f] # NoNode
  PROVE  /\ <<CreateInstanceNode(Start[f])>> \in Entries
         /\ Sound(f, eff, ask, <<CreateInstanceNode(Start[f])>>)
<1> DEFINE c == CreateInstanceNode(Start[f])
<1>1. Start[f] \in Node
  BY FlowAssumption
<1>2. c \in Entry /\ c.id = Start[f] /\ Backed(f, eff, ask, c)
  BY <1>1, CreateType DEF CreateInstanceNode, Backed
<1>. HIDE DEF c
<1>3. <<c>> \in Entries /\ Len(<<c>>) = 1 /\ <<c>>[1] = c
  BY <1>2 DEF Entries
<1>4. IsPath(f, <<c>>)
  BY <1>2, <1>3 DEF IsPath
<1>. QED  BY <1>2, <1>3, <1>4 DEF Sound, c

\* An instance that was not created has no list anywhere, so giving it a
\* flow breaks nothing.
LEMMA StartFlowStep ==
  ASSUME IInv, NEW h \in Handler, NEW i \in Instance, NEW f \in Flow,
         NEW r \in ClientRsp, StartFlow(h, i, f, r)
  PROVE  IInv'
<1>1. TypeOK
  BY DEF IInv
<1>2. /\ pc[h] = "idle" /\ flowOf[i] = NoFlow
      /\ flowOf' = [flowOf EXCEPT ![i] = f]
      /\ on' = [on EXCEPT ![h] = i]
      /\ submitted' = [submitted EXCEPT ![i] = @ \cup RowsOf(r)]
      /\ UNCHANGED <<store, known, promised, leaked, effect, saved, asked>>
  BY DEF StartFlow
<1>3. r \in RspPtr /\ RowsOf(r) \subseteq Row
  BY DataAssumption, RowsOfType DEF RspPtr
<1>4. submitted' \in [Instance -> SUBSET Row]
  BY <1>1, <1>2, <1>3 DEF TypeOK
<1>5. flowOf' \in [Instance -> Flow \cup {NoFlow}] /\ on' \in [Handler -> Instance]
  BY <1>1, <1>2 DEF TypeOK
<1>6. \A j \in Instance : store[j] # Absent => j # i /\ flowOf'[j] = flowOf[j]
  BY <1>1, <1>2, DataAssumption DEF IInv, StoreSound, Sound, TypeOK
<1>7. \A g \in Handler : pc[g] # "idle" =>
        g # h /\ on'[g] = on[g] /\ flowOf'[on[g]] = flowOf[on[g]]
  BY <1>1, <1>2, Busy, DataAssumption DEF TypeOK
<1>8. StoreSound'
  BY <1>2, <1>6 DEF IInv, StoreSound
<1>9. CASE Start[f] # NoNode
  <2>1. /\ mem' = [mem EXCEPT ![h] = <<CreateInstanceNode(Start[f])>>]
        /\ req' = [req EXCEPT ![h] = r]
        /\ pc' = [pc EXCEPT ![h] = "run"]
        /\ reply' = [reply EXCEPT ![h] = "none"]
        /\ UNCHANGED faults
    BY <1>9 DEF StartFlow
  <2>2. PICK ns : ns = <<CreateInstanceNode(Start[f])>>
    OBVIOUS
  <2>3. ns \in Entries /\ Sound(f, effect[i], asked[i], ns)
    BY <1>9, <2>2, SoundStart
  <2>4. mem' = [mem EXCEPT ![h] = ns]
    BY <2>1, <2>2
  <2>5. TypeOK'
    <3>1. mem' \in [Handler -> Entries]
      BY <1>1, <2>3, <2>4 DEF TypeOK
    <3>2. /\ req' \in [Handler -> RspPtr]
          /\ pc' \in [Handler -> {"idle", "run", "save"}]
          /\ reply' \in [Handler -> {"none", "ok", "form", "error", "panic", "down"}]
          /\ faults' = faults
      BY <1>1, <1>3, <2>1 DEF TypeOK
    <3>. QED  BY <1>1, <1>2, <1>4, <1>5, <3>1, <3>2 DEF TypeOK
  <2>6. \A g \in Handler : pc'[g] # "idle" =>
          Sound(flowOf'[on'[g]], effect[on'[g]], asked[on'[g]], mem'[g])
    <3>. TAKE g \in Handler
    <3>1. CASE g = h
      BY <3>1, <1>1, <1>2, <2>3, <2>4 DEF TypeOK
    <3>2. CASE g # h
      BY <3>2, <1>1, <1>7, <2>1, <2>4 DEF TypeOK, IInv, HandlersSound
    <3>. QED  BY <3>1, <3>2
  <2>. QED  BY <1>2, <1>8, <2>5, <2>6 DEF IInv, HandlersSound
<1>10. CASE Start[f] = NoNode
  <2>1. /\ reply' = [reply EXCEPT ![h] = "panic"]
        /\ faults' = [faults EXCEPT ![i] = Inc(@)]
        /\ UNCHANGED <<pc, mem, req>>
    BY <1>10 DEF StartFlow
  <2>2. faults' \in [Instance -> 0 .. Cap]
    BY <1>1, <2>1, IncType DEF TypeOK
  <2>3. TypeOK'
    BY <1>1, <1>2, <1>4, <1>5, <2>1, <2>2 DEF TypeOK
  <2>4. HandlersSound'
    BY <1>2, <1>7, <2>1 DEF IInv, HandlersSound
  <2>. QED  BY <1>8, <2>3, <2>4 DEF IInv
<1>. QED  BY <1>9, <1>10

LEMMA PushFlowStep ==
  ASSUME IInv, NEW h \in Handler, NEW i \in Instance, NEW r \in ClientRsp,
         PushFlow(h, i, r)
  PROVE  IInv'
<1>1. TypeOK
  BY DEF IInv
<1>2. r \in RspPtr /\ RowsOf(r) \subseteq Row
  BY DataAssumption, RowsOfType DEF RspPtr
<1>3. store[i] \in Entries /\ Sound(flowOf[i], effect[i], asked[i], store[i])
  BY <1>1 DEF PushFlow, TypeOK, IInv, StoreSound
<1>4. submitted' \in [Instance -> SUBSET Row] /\ mem' \in [Handler -> Entries]
  BY <1>1, <1>2, <1>3 DEF PushFlow, TypeOK
<1>5. TypeOK'
  BY <1>1, <1>2, <1>4 DEF PushFlow, TypeOK
<1>6. StoreSound'
  BY DEF PushFlow, IInv, StoreSound
<1>7. \A g \in Handler : pc'[g] # "idle" =>
        Sound(flowOf[on'[g]], effect[on'[g]], asked[on'[g]], mem'[g])
  <2>. TAKE g \in Handler
  <2>1. CASE g = h
    BY <2>1, <1>1, <1>3 DEF PushFlow, TypeOK
  <2>2. CASE g # h
    BY <2>2, <1>1 DEF PushFlow, TypeOK, IInv, HandlersSound
  <2>. QED  BY <2>1, <2>2
<1>8. HandlersSound'
  BY <1>7 DEF PushFlow, HandlersSound
<1>. QED  BY <1>5, <1>6, <1>8 DEF IInv

LEMMA SaveInstanceStep ==
  ASSUME IInv, NEW h \in Handler, SaveInstance(h)
  PROVE  IInv'
<1>1. TypeOK /\ pc[h] = "save"
  BY DEF IInv, SaveInstance
<1>2. /\ pc' = [pc EXCEPT ![h] = "idle"]
      /\ mem' = [mem EXCEPT ![h] = << >>]
      /\ req' = [req EXCEPT ![h] = NoRsp]
      /\ UNCHANGED <<flowOf, leaked, on, effect, saved, submitted, asked>>
  BY DEF SaveInstance
<1>3. << >> \in Entries /\ NoRsp \in RspPtr
  BY DEF Entries, RspPtr
<1>4. mem' \in [Handler -> Entries] /\ req' \in [Handler -> RspPtr]
  BY <1>1, <1>2, <1>3 DEF TypeOK
<1>5. PICK ns : ns = Reloaded(mem[h])
  OBVIOUS
<1>6. /\ on[h] \in Instance
      /\ ns \in Entries
      /\ Sound(flowOf[on[h]], effect[on[h]], asked[on[h]], ns)
  BY <1>1, <1>5, Busy, ReloadedEntries, SoundReloaded
<1>7. HandlersSound'
  BY <1>1, <1>2 DEF TypeOK, IInv, HandlersSound
<1>told. known' = Told(h, known) /\ known \subseteq known' /\ known' \subseteq Instance
  BY <1>1, <1>6 DEF SaveInstance, Told, TypeOK
<1>8. CASE /\ store' = [store EXCEPT ![on[h]] = ns]
           /\ promised' = Told(h, promised)
           /\ UNCHANGED <<reply, faults>>
  <2>1. store' \in [Instance -> {Absent} \cup Entries] /\ promised' \subseteq known'
    BY <1>told, <1>1, <1>6, <1>8 DEF TypeOK, Told
  <2>2. TypeOK'
    BY <1>told, <1>1, <1>2, <1>4, <1>8, <2>1 DEF TypeOK
  <2>3. \A i \in Instance : store'[i] # Absent =>
          Sound(flowOf[i], effect[i], asked[i], store'[i])
    <3>. TAKE i \in Instance
    <3>1. CASE i = on[h]
      BY <3>1, <1>1, <1>6, <1>8 DEF TypeOK
    <3>2. CASE i # on[h]
      BY <3>2, <1>1, <1>8 DEF TypeOK, IInv, StoreSound
    <3>. QED  BY <3>1, <3>2
  <2>. QED  BY <1>2, <1>7, <2>2, <2>3 DEF IInv, StoreSound
<1>9. CASE /\ reply' = [reply EXCEPT ![h] = "error"]
           /\ Fault(h)
           /\ UNCHANGED <<store, promised>>
  <2>1. TypeOK'
    BY <1>told, <1>1, <1>2, <1>4, <1>9, FaultType DEF TypeOK
  <2>2. StoreSound'
    BY <1>2, <1>9 DEF IInv, StoreSound
  <2>. QED  BY <1>7, <2>1, <2>2 DEF IInv
<1>. QED  BY <1>5, <1>8, <1>9 DEF SaveInstance

LEMMA CrashStep ==
  ASSUME IInv, Crash
  PROVE  IInv'
<1>1. TypeOK
  BY DEF IInv
<1>2. << >> \in Entries /\ NoRsp \in RspPtr /\ 0 \in 0 .. MaxOpenConns
  BY BoundAssumption DEF Entries, RspPtr
<1>3. faults' \in [Instance -> 0 .. Cap]
  <2>1. \A i \in Instance : faults[i] \in 0 .. Cap /\ Inc(faults[i]) \in 0 .. Cap
    BY <1>1, IncType DEF TypeOK
  <2>. QED  BY <2>1 DEF Crash
<1>4. mem' \in [Handler -> Entries] /\ req' \in [Handler -> RspPtr]
  BY <1>2 DEF Crash
<1>5. TypeOK'
  <2>1. /\ pc' \in [Handler -> {"idle", "run", "save"}]
        /\ reply' \in [Handler -> {"none", "ok", "form", "error", "panic", "down"}]
        /\ leaked' \in 0 .. MaxOpenConns
        /\ UNCHANGED <<flowOf, store, known, promised, on, effect, saved, submitted, asked>>
    BY <1>1, <1>2 DEF Crash, TypeOK
  <2>. QED  BY <1>1, <1>3, <1>4, <2>1 DEF TypeOK
<1>. QED  BY <1>5 DEF Crash, IInv, StoreSound, HandlersSound

LEMMA ExpireStep ==
  ASSUME IInv, NEW i \in Instance, Expire(i)
  PROVE  IInv'
<1>1. TypeOK
  BY DEF IInv
<1>2. TypeOK'
  <2>1. store' = [store EXCEPT ![i] = Absent]
    BY DEF Expire
  <2>2. store' \in [Instance -> {Absent} \cup Entries]
    BY <1>1, <2>1 DEF TypeOK
  <2>3. UNCHANGED <<flowOf, known, promised, leaked, handler_vars, history>>
    BY DEF Expire
  <2>. QED  BY <1>1, <2>2, <2>3 DEF TypeOK, handler_vars, history
<1>3. StoreSound'
  BY <1>1 DEF Expire, TypeOK, IInv, StoreSound, history
<1>4. HandlersSound'
  BY DEF Expire, IInv, HandlersSound, handler_vars, history
<1>. QED  BY <1>2, <1>3, <1>4 DEF IInv

LEMMA StutterStep ==
  ASSUME IInv, UNCHANGED vars
  PROVE  IInv'
<1>1. TypeOK'
  BY DEF IInv, TypeOK, vars
<1>2. StoreSound'
  BY DEF IInv, StoreSound, vars
<1>3. HandlersSound'
  BY DEF IInv, HandlersSound, vars
<1>. QED  BY <1>1, <1>2, <1>3 DEF IInv

LEMMA NextIInv == IInv /\ [Next]_vars => IInv'
<1> SUFFICES ASSUME IInv, [Next]_vars PROVE IInv'
  OBVIOUS
<1>1. CASE \E h \in Handler, i \in Instance, f \in Flow, r \in ClientRsp :
             StartFlow(h, i, f, r)
  BY <1>1, StartFlowStep
<1>2. CASE \E h \in Handler, i \in Instance, r \in ClientRsp : PushFlow(h, i, r)
  BY <1>2, PushFlowStep
<1>3. CASE \E h \in Handler : RunNode(h)
  BY <1>3, RunNodeStep
<1>4. CASE \E h \in Handler : SaveInstance(h)
  BY <1>4, SaveInstanceStep
<1>5. CASE Crash
  BY <1>5, CrashStep
<1>6. CASE \E i \in Instance : Expire(i)
  BY <1>6, ExpireStep
<1>7. CASE UNCHANGED vars
  BY <1>7, StutterStep
<1>. QED  BY <1>1, <1>2, <1>3, <1>4, <1>5, <1>6, <1>7 DEF Next

-----------------------------------------------------------------------------
(* The theorems.                                                           *)

\* The invariant of this module holds in every behaviour of the engine.
THEOREM SpecIInv == Spec => []IInv
<1>1. Init => IInv
  BY InitIInv
<1>2. IInv /\ [Next]_vars => IInv'
  BY NextIInv
<1>. QED  BY <1>1, <1>2, PTL DEF Spec

\* Type correctness, for all flows, bodies and failures.
THEOREM SpecTypeOK == Spec => []TypeOK
<1>1. IInv => TypeOK
  BY DEF IInv
<1>. QED  BY <1>1, SpecIInv, PTL

\* Every list of entries of an instance is one of the lists IInv is about.
LEMMA ListsSound ==
  ASSUME IInv, NEW i \in Instance, NEW ns \in Lists(i)
  PROVE  Sound(flowOf[i], effect[i], asked[i], ns)
BY DEF Lists, IInv, StoreSound, HandlersSound

\* Whatever requests interleave, fail or crash, the entries of an instance
\* are a path of its flow (the loop of flowInstance.push).
THEOREM SpecExecutionFollowsGraph == Spec => []ExecutionFollowsGraph
<1>1. IInv => ExecutionFollowsGraph
  BY ListsSound DEF ExecutionFollowsGraph, Sound
<1>. QED  BY <1>1, SpecIInv, PTL

\* A save or request node recorded as completed has had its effect
\* (nodeExecutorSave.run, nodeExecutorRequest.run).
THEOREM SpecRecordedImpliesDone == Spec => []RecordedImpliesDone
<1>1. IInv => RecordedImpliesDone
  BY ListsSound DEF RecordedImpliesDone, IsDone, Sound, Backed
<1>. QED  BY <1>1, SpecIInv, PTL

\* No form is completed that was not opened before (nodeExecutorForm.run).
THEOREM SpecFormAnsweredOnlyIfAsked == Spec => []FormAnsweredOnlyIfAsked
<1>1. IInv => FormAnsweredOnlyIfAsked
  BY ListsSound DEF FormAnsweredOnlyIfAsked, IsAsked, Sound, Backed
<1>. QED  BY <1>1, SpecIInv, PTL

-----------------------------------------------------------------------------
(* Rows: an instance commits rows that were submitted to it only, and an   *)
(* instance ID a client has got can be pushed.                             *)
(*                                                                         *)
(* The rows a save node commits come from the request of its handler, and  *)
(* these from a client, a service, or the output of an earlier node, which *)
(* may have gone through Redis.  So RInv says of all three - requests,     *)
(* lists of handlers, lists in Redis - that they hold rows of their        *)
(* instance only; it rests on IInv.                                        *)

\* All outputs of the list ns hold rows of sub only.
OwnRows(sub, ns) == \A k \in 1 .. Len(ns) : RowsOf(ns[k].out) \subseteq sub

StoreOwn ==
  \A i \in Instance : store[i] # Absent => OwnRows(submitted[i], store[i])

HandlersOwn ==
  \A h \in Handler :
    pc[h] # "idle" =>
      /\ OwnRows(submitted[on[h]], mem[h])
      /\ RowsOf(req[h]) \subseteq submitted[on[h]]

RInv == NoForeignRows /\ StoreOwn /\ HandlersOwn

-----------------------------------------------------------------------------
(* Lemmas about the operators.                                             *)

\* JSON adds no rows to an output.
LEMMA ReloadedRows ==
  ASSUME NEW ns \in Entries, NEW sub, OwnRows(sub, ns)
  PROVE  OwnRows(sub, Reloaded(ns))
<1>1. Len(Reloaded(ns)) = Len(ns)
  BY ReloadedEntries
<1>2. ASSUME NEW k \in 1 .. Len(ns)
      PROVE  RowsOf(Reloaded(ns)[k].out) \subseteq sub
  <2>1. ns[k] \in Entry /\ RowsOf(ns[k].out) \subseteq sub
    BY DEF Entries, OwnRows
  <2>2. Reloaded(ns)[k].out =
          IF ns[k].out # NoRsp /\ ns[k].out.list = NilList
            THEN [ns[k].out EXCEPT !.list = NoList] ELSE ns[k].out
    BY <2>1 DEF Reloaded, Entry
  <2>3. CASE ns[k].out # NoRsp /\ ns[k].out.list = NilList
    <3>1. Reloaded(ns)[k].out.list = NoList
      BY <2>1, <2>2, <2>3, RspType DEF Entry, Rsp
    <3>. QED  BY <3>1 DEF RowsOf
  <2>4. CASE ~(ns[k].out # NoRsp /\ ns[k].out.list = NilList)
    BY <2>1, <2>2, <2>4
  <2>. QED  BY <2>3, <2>4
<1>. QED  BY <1>1, <1>2 DEF OwnRows

\* What the merge node finds are rows of the list it looks at.
LEMMA FlowDataRows ==
  ASSUME NEW ns \in Entries, NEW source, NEW sub, OwnRows(sub, ns)
  PROVE  RowsOf(FlowData(ns, source)) \subseteq sub
<1>1. CASE FirstAt(ns, source) = {}
  BY <1>1 DEF FlowData, RowsOf
<1>2. CASE FirstAt(ns, source) # {}
  <2> DEFINE e == ns[CHOOSE k \in FirstAt(ns, source) : TRUE]
  <2>1. (CHOOSE k \in FirstAt(ns, source) : TRUE) \in 1 .. Len(ns)
    BY <1>2 DEF FirstAt
  <2>2. RowsOf(e.out) \subseteq sub
    BY <2>1 DEF OwnRows
  <2>3. RowsOf(FlowDataFromMap(e.out)) \subseteq sub
    BY DEF FlowDataFromMap, RowsOf
  <2>4. RowsOf(NoRsp) \subseteq sub
    BY DEF RowsOf
  <2>5. FlowData(ns, source) \in {e.out, FlowDataFromMap(e.out), NoRsp}
    BY <1>2 DEF FlowData
  <2>. HIDE DEF e
  <2>. QED  BY <2>2, <2>3, <2>4, <2>5
<1>. QED  BY <1>1, <1>2

LEMMA OwnGrows ==
  ASSUME NEW ns, NEW sub, NEW sub2, OwnRows(sub, ns), sub \subseteq sub2
  PROVE  OwnRows(sub2, ns)
BY DEF OwnRows

\* The loop of push hands on the result, and starts a node without output.
LEMMA AdvanceRows ==
  ASSUME IInv, NEW h \in Handler, pc[h] = "run",
         NEW e \in Entry, NEW r, NEW w, NEW sub,
         e.id = Current(h).id, Advance(h, e, r, w),
         OwnRows(sub, mem[h]), RowsOf(req[h]) \subseteq sub,
         RowsOf(e.out) \subseteq sub, RowsOf(r) \subseteq sub
  PROVE  /\ on' = on
         /\ \A g \in Handler \ {h} : pc'[g] = pc[g] /\ mem'[g] = mem[g] /\ req'[g] = req[g]
         /\ OwnRows(sub, mem'[h])
         /\ RowsOf(req'[h]) \subseteq sub
<1> DEFINE ns == [mem[h] EXCEPT ![Len(mem[h])] = e]
           next == Edge[FlowAt(h)][e.id]
<1>1. TypeOK /\ mem[h] \in Seq(Entry)
  BY DEF IInv, TypeOK, Entries
<1>2. ns \in Seq(Entry) /\ Len(ns) = Len(mem[h])
  <2>1. mem[h] \in [1 .. Len(mem[h]) -> Entry] /\ Len(mem[h]) \in Nat
    BY <1>1
  <2>2. ns \in [1 .. Len(mem[h]) -> Entry]
    BY <2>1
  <2>. QED  BY <2>1, <2>2, SeqDef
<1>3. OwnRows(sub, ns)
  BY <1>1, <1>2 DEF OwnRows
<1>. HIDE DEF ns
<1>4. CASE e.completed /\ next # NoNode
  <2>1. /\ mem' = [mem EXCEPT ![h] = Append(ns, CreateInstanceNode(next))]
        /\ req' = [req EXCEPT ![h] = r]
        /\ UNCHANGED <<pc, on, reply>>
    BY <1>4 DEF Advance, ns
  <2>2. PICK c : c = CreateInstanceNode(next)
    OBVIOUS
  <2>3. RowsOf(c.out) = {}
    BY <2>2 DEF CreateInstanceNode, RowsOf
  <2>4. OwnRows(sub, Append(ns, c))
    BY <1>2, <1>3, <2>3 DEF OwnRows
  <2>5. mem'[h] = Append(ns, c) /\ req'[h] = r
    BY <1>1, <2>1, <2>2 DEF TypeOK
  <2>. QED  BY <1>1, <2>1, <2>4, <2>5 DEF TypeOK
<1>5. CASE ~(e.completed /\ next # NoNode)
  <2>1. /\ mem' = [mem EXCEPT ![h] = ns]
        /\ pc' = [pc EXCEPT ![h] = "save"]
        /\ UNCHANGED <<on, req>>
    BY <1>5 DEF Advance, ns
  <2>2. mem'[h] = ns
    BY <1>1, <2>1 DEF TypeOK
  <2>. QED  BY <1>1, <1>3, <2>1, <2>2 DEF TypeOK
<1>. QED  BY <1>4, <1>5

-----------------------------------------------------------------------------
(* The executors.                                                          *)

\* What a step of handler h that ends or goes on has to show.
LEMMA HandlerRows ==
  ASSUME IInv, RInv, NEW h \in Handler, store' = store, on' = on,
         \A g \in Handler \ {h} : pc'[g] = pc[g] /\ mem'[g] = mem[g] /\ req'[g] = req[g],
         \A i \in Instance : submitted[i] \subseteq submitted'[i],
         \A i \in Instance : saved'[i] \subseteq submitted'[i],
         \/ pc'[h] = "idle"
         \/ /\ OwnRows(submitted'[on[h]], mem'[h])
            /\ RowsOf(req'[h]) \subseteq submitted'[on[h]]
  PROVE  RInv'
<1>1. StoreOwn'
  BY OwnGrows DEF RInv, StoreOwn
<1>2. HandlersOwn'
  <2> SUFFICES ASSUME NEW g \in Handler, pc'[g] # "idle"
               PROVE  /\ OwnRows(submitted'[on[g]], mem'[g])
                      /\ RowsOf(req'[g]) \subseteq submitted'[on[g]]
    BY DEF HandlersOwn
  <2>1. CASE g = h
    BY <2>1
  <2>2. CASE g # h
    <3>1. pc[g] # "idle" /\ mem'[g] = mem[g] /\ req'[g] = req[g]
      BY <2>2
    <3>2. submitted[on[g]] \subseteq submitted'[on[g]]
      BY <3>1, Busy
    <3>. QED  BY <3>1, <3>2, OwnGrows DEF RInv, HandlersOwn
  <2>. QED  BY <2>1, <2>2
<1>. QED  BY <1>1, <1>2 DEF RInv, NoForeignRows

\* What every executor starts from.
LEMMA AtNodeRows ==
  ASSUME IInv, RInv, NEW h \in Handler, pc[h] = "run"
  PROVE  /\ on[h] \in Instance
         /\ OwnRows(submitted[on[h]], mem[h])
         /\ RowsOf(req[h]) \subseteq submitted[on[h]]
BY Busy DEF RInv, HandlersOwn

\* A node that was executed: its output and its result are rows of the
\* instance, those a service has just given included.
LEMMA AdvanceRowsStep ==
  ASSUME IInv, RInv, NEW h \in Handler, pc[h] = "run",
         NEW e \in Entry, NEW r, NEW w, e.id = Current(h).id, Advance(h, e, r, w),
         RowsOf(e.out) \subseteq submitted'[on[h]], RowsOf(r) \subseteq submitted'[on[h]],
         store' = store,
         \A i \in Instance : submitted[i] \subseteq submitted'[i],
         \A i \in Instance : saved'[i] \subseteq submitted'[i]
  PROVE  RInv'
<1>1. submitted[on[h]] \subseteq submitted'[on[h]]
  BY AtNodeRows
<1>2. PICK sub : sub = submitted'[on[h]]
  OBVIOUS
<1>3. OwnRows(sub, mem[h]) /\ RowsOf(req[h]) \subseteq sub
  BY <1>1, <1>2, AtNodeRows, OwnGrows
<1>4. /\ on' = on
      /\ \A g \in Handler \ {h} : pc'[g] = pc[g] /\ mem'[g] = mem[g] /\ req'[g] = req[g]
      /\ OwnRows(sub, mem'[h])
      /\ RowsOf(req'[h]) \subseteq sub
  BY <1>2, <1>3, AdvanceRows
<1>. QED  BY <1>2, <1>4, HandlerRows

\* A node whose executor returned an error or panicked.
LEMMA AbortRowsStep ==
  ASSUME IInv, RInv, NEW h \in Handler, pc[h] = "run", StepFails(h) \/ Panic(h),
         store' = store, submitted' = submitted,
         \A i \in Instance : saved'[i] \subseteq submitted[i]
  PROVE  RInv'
<1>1. TypeOK
  BY DEF IInv
<1>2. CASE StepFails(h)
  <2>1. /\ on' = on /\ mem' = mem /\ req' = req
        /\ \A g \in Handler \ {h} : pc'[g] = pc[g]
    BY <1>1, <1>2 DEF StepFails, TypeOK
  <2>. QED  BY <2>1, AtNodeRows, HandlerRows
<1>3. CASE Panic(h)
  <2>1. /\ on' = on /\ pc'[h] = "idle"
        /\ \A g \in Handler \ {h} : pc'[g] = pc[g] /\ mem'[g] = mem[g] /\ req'[g] = req[g]
    BY <1>1, <1>3 DEF Panic, TypeOK
  <2>. QED  BY <2>1, HandlerRows
<1>. QED  BY <1>2, <1>3

\* The commit of a save node.
LEMMA CommitRows ==
  ASSUME IInv, RInv, NEW h \in Handler, pc[h] = "run", NEW n, Commit(on[h], n, req[h])
  PROVE  \A i \in Instance : saved'[i] \subseteq submitted[i]
<1>1. saved \in [Instance -> SUBSET Row]
  BY DEF IInv, TypeOK
<1>2. saved' = [saved EXCEPT ![on[h]] = @ \cup RowsOf(req[h])]
  BY DEF Commit
<1>. QED  BY <1>1, <1>2, AtNodeRows DEF RInv, NoForeignRows

LEMMA PassRows ==
  ASSUME IInv, RInv, NEW h \in Handler, RunPass(h) \/ RunFormStage1(h)
  PROVE  RInv'
<1>1. pc[h] = "run" /\ Advance(h, Complete(Current(h), req[h]), req[h], "none")
  BY DEF RunPass, RunFormStage1, Running
<1>2. UNCHANGED <<store, saved, submitted>>
  BY DEF RunPass, RunFormStage1, store_vars, history
<1>3. req[h] \in RspPtr /\ Current(h) \in Entry
  BY <1>1, Busy DEF IInv, TypeOK
<1>4. PICK e \in Entry : e = Complete(Current(h), req[h])
  BY <1>3, CompleteType
<1>5. e.id = Current(h).id /\ e.out = req[h]
  BY <1>4 DEF Complete
<1>6. RowsOf(req[h]) \subseteq submitted[on[h]]
  BY <1>1, AtNodeRows
<1>7. \A i \in Instance : saved'[i] \subseteq submitted'[i]
  BY <1>2 DEF RInv, NoForeignRows
<1>. QED  BY <1>1, <1>2, <1>4, <1>5, <1>6, <1>7, AdvanceRowsStep

LEMMA FormStage0Rows ==
  ASSUME IInv, RInv, NEW h \in Handler, RunFormStage0(h)
  PROVE  RInv'
<1>1. pc[h] = "run" /\ UNCHANGED <<store, saved, submitted>>
  BY DEF RunFormStage0, Running, store_vars
<1>2. PICK e : e = [Current(h) EXCEPT !.data = "stage0", !.out = NoRsp]
  OBVIOUS
<1>3. Advance(h, e, NoRsp, "form")
  BY <1>2 DEF RunFormStage0
<1>4. e \in Entry /\ e.id = Current(h).id /\ e.out = NoRsp
  <2>1. Current(h) \in Entry /\ NoRsp \in RspPtr
    BY <1>1, Busy DEF RspPtr
  <2>. QED  BY <1>2, <2>1 DEF Entry
<1>5. RowsOf(NoRsp) = {}
  BY DEF RowsOf
<1>6. \A i \in Instance : saved'[i] \subseteq submitted'[i]
  BY <1>1 DEF RInv, NoForeignRows
<1>. QED  BY <1>1, <1>3, <1>4, <1>5, <1>6, AdvanceRowsStep

LEMMA MergeRows ==
  ASSUME IInv, RInv, NEW h \in Handler, RunMerge(h)
  PROVE  RInv'
<1>1. pc[h] = "run" /\ UNCHANGED <<store, saved, submitted>>
  BY DEF RunMerge, Running, store_vars, history
<1>2. PICK r : r = FlowData(mem[h], MainSource[FlowAt(h)][Current(h).id])
  OBVIOUS
<1>3. mem[h] \in Entries /\ Current(h) \in Entry
  BY <1>1, Busy
<1>4. r \in RspPtr /\ RowsOf(r) \subseteq submitted[on[h]]
  BY <1>1, <1>2, <1>3, AtNodeRows, FlowDataType, FlowDataRows
<1>5. PICK e \in Entry : e = Complete(Current(h), r)
  BY <1>3, <1>4, CompleteType
<1>6. e.id = Current(h).id /\ e.out = r
  BY <1>5 DEF Complete
<1>7. Advance(h, e, r, "none")
  BY <1>2, <1>5 DEF RunMerge
<1>8. \A i \in Instance : saved'[i] \subseteq submitted'[i]
  BY <1>1 DEF RInv, NoForeignRows
<1>. QED  BY <1>1, <1>4, <1>6, <1>7, <1>8, AdvanceRowsStep

LEMMA SaveRows ==
  ASSUME IInv, RInv, NEW h \in Handler, RunSave(h)
  PROVE  RInv'
<1>1. pc[h] = "run" /\ UNCHANGED <<store, submitted>>
  BY DEF RunSave, CanSave, Running, store_vars
<1>2. PICK r : r = [stage |-> 0, model |-> TRUE, list |-> RowsOf(req[h])]
  OBVIOUS
<1>3. req[h] \in RspPtr /\ Current(h) \in Entry
  BY <1>1, Busy DEF IInv, TypeOK
<1>4. r \in RspPtr
  <2>1. RowsOf(req[h]) \subseteq Row
    BY <1>3, RowsOfType
  <2>. QED  BY <1>2, <2>1 DEF RspPtr, Rsp, List
<1>5. RowsOf(r) \subseteq RowsOf(req[h])
  BY <1>2 DEF RowsOf
<1>6. PICK e \in Entry : e = Complete(Current(h), r)
  BY <1>3, <1>4, CompleteType
<1>7. e.id = Current(h).id /\ e.out = r
  BY <1>6 DEF Complete
<1>8. Advance(h, e, r, "none") /\ Commit(on[h], Current(h).id, req[h])
  BY <1>2, <1>6 DEF RunSave
<1>9. \A i \in Instance : saved'[i] \subseteq submitted'[i]
  BY <1>1, <1>8, CommitRows
<1>10. RowsOf(r) \subseteq submitted'[on[h]]
  BY <1>1, <1>5, AtNodeRows
<1>. QED  BY <1>1, <1>7, <1>8, <1>9, <1>10, AdvanceRowsStep

LEMMA RequestRows ==
  ASSUME IInv, RInv, NEW h \in Handler, RunRequest(h)
  PROVE  RInv'
<1>1. pc[h] = "run" /\ UNCHANGED <<store, saved>>
  BY DEF RunRequest, CanRequest, Running, store_vars
<1>2. PICK r \in ServiceRsp :
        /\ Advance(h, Complete(Current(h), r), r, "none")
        /\ submitted' = [submitted EXCEPT ![on[h]] = @ \cup RowsOf(r)]
  BY DEF RunRequest
<1>3. r \in RspPtr /\ Current(h) \in Entry /\ on[h] \in Instance
  BY <1>1, Busy, DataAssumption
<1>4. submitted \in [Instance -> SUBSET Row]
  BY DEF IInv, TypeOK
<1>5. /\ \A i \in Instance : submitted[i] \subseteq submitted'[i]
      /\ RowsOf(r) \subseteq submitted'[on[h]]
  BY <1>2, <1>3, <1>4
<1>6. PICK e \in Entry : e = Complete(Current(h), r)
  BY <1>3, CompleteType
<1>7. e.id = Current(h).id /\ e.out = r /\ Advance(h, e, r, "none")
  BY <1>2, <1>6 DEF Complete
<1>8. \A i \in Instance : saved'[i] \subseteq submitted'[i]
  BY <1>1, <1>5 DEF RInv, NoForeignRows
<1>. QED  BY <1>1, <1>5, <1>7, <1>8, AdvanceRowsStep

\* Panics and errors, the error of a commit that happened all the same among
\* them.
LEMMA FailureRows ==
  ASSUME IInv, RInv, NEW h \in Handler,
         \/ RunFormPanic(h) \/ RunSaveRefused(h) \/ RunSaveCommitError(h)
         \/ RunSavePanic(h) \/ RunRequestFails(h) \/ RunRequestPanic(h) \/ RunMergePanic(h)
         \/ RunUnknown(h)
  PROVE  RInv'
<1>1. pc[h] = "run" /\ (StepFails(h) \/ Panic(h)) /\ UNCHANGED <<store, submitted>>
  BY DEF RunFormPanic, RunSaveRefused, RunSaveCommitError, RunSavePanic, RunRequestFails,
         RunRequestPanic, RunMergePanic, RunUnknown, CanSave, CanRequest, Running, store_vars
<1>2. saved' = saved \/ Commit(on[h], Current(h).id, req[h])
  BY DEF RunFormPanic, RunSaveRefused, RunSaveCommitError, RunSavePanic, RunRequestFails,
         RunRequestPanic, RunMergePanic, RunUnknown
<1>3. \A i \in Instance : saved'[i] \subseteq submitted[i]
  BY <1>1, <1>2, CommitRows DEF RInv, NoForeignRows
<1>. QED  BY <1>1, <1>3, AbortRowsStep

LEMMA RunNodeRows ==
  ASSUME IInv, RInv, NEW h \in Handler, RunNode(h)
  PROVE  RInv'
BY PassRows, FormStage0Rows, MergeRows, SaveRows, RequestRows, FailureRows DEF RunNode

-----------------------------------------------------------------------------
(* The other actions.                                                      *)

\* No handler works on an instance before it is created, and what a client
\* sends with a start or a push is submitted to that instance.
LEMMA StartFlowRows ==
  ASSUME IInv, RInv, NEW h \in Handler, NEW i \in Instance, NEW f \in Flow,
         NEW r \in ClientRsp, StartFlow(h, i, f, r)
  PROVE  RInv'
<1>1. TypeOK
  BY DEF IInv
<1>2. /\ pc[h] = "idle" /\ on' = [on EXCEPT ![h] = i]
      /\ submitted' = [submitted EXCEPT ![i] = @ \cup RowsOf(r)]
      /\ UNCHANGED <<store, saved>>
  BY DEF StartFlow
<1>3. /\ \A j \in Instance : submitted[j] \subseteq submitted'[j]
      /\ RowsOf(r) \subseteq submitted'[i]
  BY <1>1, <1>2 DEF TypeOK
<1>4. NoForeignRows' /\ StoreOwn'
  BY <1>2, <1>3, OwnGrows DEF RInv, NoForeignRows, StoreOwn
<1>5. ASSUME NEW g \in Handler, g # h, pc[g] # "idle"
      PROVE  /\ on'[g] = on[g]
             /\ OwnRows(submitted'[on[g]], mem[g])
             /\ RowsOf(req[g]) \subseteq submitted'[on[g]]
  <2>1. on'[g] = on[g] /\ on[g] \in Instance
    BY <1>1, <1>2, <1>5 DEF TypeOK
  <2>. QED  BY <1>3, <1>5, <2>1, OwnGrows DEF RInv, HandlersOwn
<1>6. CASE Start[f] # NoNode
  <2>1. PICK c : c = CreateInstanceNode(Start[f])
    OBVIOUS
  <2>2. /\ mem' = [mem EXCEPT ![h] = <<c>>]
        /\ req' = [req EXCEPT ![h] = r]
        /\ pc' = [pc EXCEPT ![h] = "run"]
    BY <1>6, <2>1 DEF StartFlow
  <2>3. c.out = NoRsp
    BY <2>1 DEF CreateInstanceNode
  <2>4. OwnRows(submitted'[i], <<c>>)
    BY <2>3 DEF OwnRows, RowsOf
  <2>5. HandlersOwn'
    <3> SUFFICES ASSUME NEW g \in Handler, pc'[g] # "idle"
                 PROVE  /\ OwnRows(submitted'[on'[g]], mem'[g])
                        /\ RowsOf(req'[g]) \subseteq submitted'[on'[g]]
      BY DEF HandlersOwn
    <3>1. CASE g = h
      <4>1. mem'[h] = <<c>> /\ req'[h] = r /\ on'[h] = i
        BY <1>1, <1>2, <2>2 DEF TypeOK
      <4>. QED  BY <1>3, <2>4, <3>1, <4>1
    <3>2. CASE g # h
      <4>1. pc'[g] = pc[g] /\ mem'[g] = mem[g] /\ req'[g] = req[g]
        BY <1>1, <2>2, <3>2 DEF TypeOK
      <4>. QED  BY <1>5, <3>2, <4>1
    <3>. QED  BY <3>1, <3>2
  <2>. QED  BY <1>4, <2>5 DEF RInv
<1>7. CASE Start[f] = NoNode
  <2>1. UNCHANGED <<pc, mem, req>>
    BY <1>7 DEF StartFlow
  <2>. QED  BY <1>2, <1>4, <1>5, <2>1 DEF RInv, HandlersOwn
<1>. QED  BY <1>6, <1>7

LEMMA PushFlowRows ==
  ASSUME IInv, RInv, NEW h \in Handler, NEW i \in Instance, NEW r \in ClientRsp,
         PushFlow(h, i, r)
  PROVE  RInv'
<1>1. TypeOK
  BY DEF IInv
<1>2. /\ store[i] # Absent
      /\ on' = [on EXCEPT ![h] = i]
      /\ mem' = [mem EXCEPT ![h] = store[i]]
      /\ req' = [req EXCEPT ![h] = r]
      /\ pc' = [pc EXCEPT ![h] = "run"]
      /\ submitted' = [submitted EXCEPT ![i] = @ \cup RowsOf(r)]
      /\ UNCHANGED <<store, saved>>
  BY DEF PushFlow
<1>3. /\ \A j \in Instance : submitted[j] \subseteq submitted'[j]
      /\ RowsOf(r) \subseteq submitted'[i]
  BY <1>1, <1>2 DEF TypeOK
<1>4. NoForeignRows' /\ StoreOwn'
  BY <1>2, <1>3, OwnGrows DEF RInv, NoForeignRows, StoreOwn
<1>5. HandlersOwn'
  <2> SUFFICES ASSUME NEW g \in Handler, pc'[g] # "idle"
               PROVE  /\ OwnRows(submitted'[on'[g]], mem'[g])
                      /\ RowsOf(req'[g]) \subseteq submitted'[on'[g]]
    BY DEF HandlersOwn
  <2>1. CASE g = h
    <3>1. mem'[h] = store[i] /\ req'[h] = r /\ on'[h] = i
      BY <1>1, <1>2 DEF TypeOK
    <3>2. OwnRows(submitted'[i], store[i])
      BY <1>2, <1>4 DEF StoreOwn
    <3>. QED  BY <1>3, <2>1, <3>1, <3>2
  <2>2. CASE g # h
    <3>1. /\ pc'[g] = pc[g] /\ mem'[g] = mem[g] /\ req'[g] = req[g]
          /\ on'[g] = on[g] /\ on[g] \in Instance
      BY <1>1, <1>2, <2>2 DEF TypeOK
    <3>. QED  BY <1>3, <3>1, OwnGrows DEF RInv, HandlersOwn
  <2>. QED  BY <2>1, <2>2
<1>. QED  BY <1>4, <1>5 DEF RInv

LEMMA SaveInstanceRows ==
  ASSUME IInv, RInv, NEW h \in Handler, SaveInstance(h)
  PROVE  RInv'
<1>1. TypeOK /\ pc[h] = "save"
  BY DEF IInv, SaveInstance
<1>2. /\ pc' = [pc EXCEPT ![h] = "idle"]
      /\ mem' = [mem EXCEPT ![h] = << >>]
      /\ req' = [req EXCEPT ![h] = NoRsp]
      /\ UNCHANGED <<on, saved, submitted>>
  BY DEF SaveInstance
<1>3. HandlersOwn'
  <2>1. \A g \in Handler : pc'[g] # "idle" =>
          pc'[g] = pc[g] /\ mem'[g] = mem[g] /\ req'[g] = req[g]
    BY <1>1, <1>2 DEF TypeOK
  <2>. QED  BY <1>2, <2>1 DEF RInv, HandlersOwn
<1>4. NoForeignRows'
  BY <1>2 DEF RInv, NoForeignRows
<1>5. OwnRows(submitted[on[h]], Reloaded(mem[h]))
  BY <1>1, ReloadedRows DEF RInv, HandlersOwn, TypeOK
<1>6. store' = store \/ store' = [store EXCEPT ![on[h]] = Reloaded(mem[h])]
  BY DEF SaveInstance
<1>7. StoreOwn'
  BY <1>1, <1>2, <1>5, <1>6 DEF TypeOK, RInv, StoreOwn
<1>. QED  BY <1>3, <1>4, <1>7 DEF RInv

LEMMA CrashRows ==
  ASSUME RInv, Crash
  PROVE  RInv'
BY DEF Crash, RInv, NoForeignRows, StoreOwn, HandlersOwn

LEMMA ExpireRows ==
  ASSUME IInv, RInv, NEW i \in Instance, Expire(i)
  PROVE  RInv'
<1>1. \A j \in Instance : store'[j] # Absent => store'[j] = store[j]
  BY DEF Expire, IInv, TypeOK
<1>2. UNCHANGED <<pc, on, mem, req, saved, submitted>>
  BY DEF Expire, handler_vars, history
<1>. QED  BY <1>1, <1>2 DEF RInv, NoForeignRows, StoreOwn, HandlersOwn

LEMMA NextRInv == IInv /\ RInv /\ [Next]_vars => RInv'
<1> SUFFICES ASSUME IInv, RInv, [Next]_vars PROVE RInv'
  OBVIOUS
<1>1. CASE \E h \in Handler, i \in Instance, f \in Flow, r \in ClientRsp :
             StartFlow(h, i, f, r)
  BY <1>1, StartFlowRows
<1>2. CASE \E h \in Handler, i \in Instance, r \in ClientRsp : PushFlow(h, i, r)
  BY <1>2, PushFlowRows
<1>3. CASE \E h \in Handler : RunNode(h)
  BY <1>3, RunNodeRows
<1>4. CASE \E h \in Handler : SaveInstance(h)
  BY <1>4, SaveInstanceRows
<1>5. CASE Crash
  BY <1>5, CrashRows
<1>6. CASE \E i \in Instance : Expire(i)
  BY <1>6, ExpireRows
<1>7. CASE UNCHANGED vars
  BY <1>7 DEF vars, RInv, NoForeignRows, StoreOwn, HandlersOwn
<1>. QED  BY <1>1, <1>2, <1>3, <1>4, <1>5, <1>6, <1>7 DEF Next

-----------------------------------------------------------------------------
(* The theorems.                                                           *)

\* Rows of one instance are never committed for another one, whatever
\* requests are served at the same time (nodeExecutorSave.run,
\* nodeExecutorMerge.getFlowData, saveInstance).
THEOREM SpecNoForeignRows == Spec => []NoForeignRows
<1>1. Init => RInv
  BY DEF Init, RInv, NoForeignRows, StoreOwn, HandlersOwn
<1>2. IInv /\ RInv /\ [Next]_vars => RInv'
  BY NextRInv
<1>3. RInv => NoForeignRows
  BY DEF RInv
<1>. QED  BY <1>1, <1>2, <1>3, SpecIInv, PTL DEF Spec

\* A saved list is a list: it is not what Redis answers for a key it does not
\* hold.
LEMMA SavedIsStored ==
  ASSUME IInv, NEW h \in Handler
  PROVE  Reloaded(mem[h]) # Absent
BY ReloadedEntries, StoreAssumption DEF IInv, TypeOK

LEMMA NextKnown == IInv /\ KnownIsStored /\ [Next]_vars => KnownIsStored'
<1> SUFFICES ASSUME IInv, KnownIsStored, [Next]_vars, "expire" \notin Faults,
                    NEW i \in Instance, i \in promised'
             PROVE  store'[i] # Absent
  <2>1. IInv' => promised' \subseteq Instance
    BY DEF IInv, TypeOK
  <2>. QED  BY <2>1, NextIInv DEF KnownIsStored
<1>1. TypeOK
  BY DEF IInv
<1>2. CASE \E h \in Handler : SaveInstance(h)
  <2>1. PICK h \in Handler : SaveInstance(h)
    BY <1>2
  <2>2. CASE /\ store' = [store EXCEPT ![on[h]] = Reloaded(mem[h])]
             /\ promised' = Told(h, promised)
    BY <1>1, <2>2, SavedIsStored DEF TypeOK, KnownIsStored, Told
  <2>3. CASE UNCHANGED <<store, promised>>
    BY <2>3 DEF KnownIsStored
  <2>. QED  BY <2>1, <2>2, <2>3 DEF SaveInstance
<1>3. CASE UNCHANGED <<store, promised>>
  BY <1>3 DEF KnownIsStored
<1>4. ~(\E j \in Instance : Expire(j))
  BY DEF Expire
<1>5. (\E h \in Handler : SaveInstance(h)) \/ UNCHANGED <<store, promised>>
  <2>1. ASSUME NEW h \in Handler, RunNode(h)
        PROVE  UNCHANGED <<store, promised>>
    BY <2>1 DEF RunNode, RunPass, RunFormStage0, RunFormStage1, RunFormPanic, RunSave,
                RunSaveRefused, RunSaveCommitError, RunSavePanic, RunRequest,
                RunRequestFails, RunRequestPanic, RunMerge, RunMergePanic, RunUnknown, store_vars
  <2>2. ASSUME NEW h \in Handler, NEW j \in Instance, NEW f \in Flow, NEW r \in ClientRsp,
               StartFlow(h, j, f, r) \/ PushFlow(h, j, r)
        PROVE  UNCHANGED <<store, promised>>
    BY <2>2 DEF StartFlow, PushFlow
  <2>3. ASSUME NEW h \in Handler, NEW j \in Instance, NEW r \in ClientRsp, PushFlow(h, j, r)
        PROVE  UNCHANGED <<store, promised>>
    BY <2>3 DEF PushFlow
  <2>4. Crash \/ UNCHANGED vars => UNCHANGED <<store, promised>>
    BY DEF Crash, vars
  <2>. QED  BY <1>4, <2>1, <2>2, <2>3, <2>4 DEF Next
<1>. QED  BY <1>2, <1>3, <1>5

\* As long as nothing expires in Redis, an instance whose form a client has
\* got without an error can be pushed (FlowController.start and push answer
\* after the save, and with its error).
THEOREM SpecKnownIsStored == Spec => []KnownIsStored
<1>1. Init => KnownIsStored
  BY DEF Init, KnownIsStored
<1>2. IInv /\ KnownIsStored /\ [Next]_vars => KnownIsStored'
  BY NextKnown
<1>. QED  BY <1>1, <1>2, SpecIInv, PTL DEF Spec

-----------------------------------------------------------------------------
(* One request at a time: what was saved stays, and repetitions are paid   *)
(* for.                                                                    *)
(*                                                                         *)
(* The list an instance goes on from is the one of the handler at work on  *)
(* it, or else the one in Redis.  It tells which nodes have been passed,   *)
(* and no node twice if the flow has no cycle; a node was executed at most *)
(* once per failure, and once more only if it has been passed - or if the  *)
(* instance is lost, so that it will not be executed again.                *)

OneHandler == \E h : Handler = {h}

\* rank grows along the edges of every flow.
Ranks(rank) ==
  \A f \in Flow, n \in Node : Edge[f][n] # NoNode => rank[f][n] < rank[f][Edge[f][n]]

\* No flow has a cycle.
Acyclic == \E rank \in [Flow -> [Node -> Nat]] : Ranks(rank)
Rank == CHOOSE rank \in [Flow -> [Node -> Nat]] : Ranks(rank)

\* The nodes that were passed, and lists that pass none twice and stop at a
\* completed node only where the flow ends.
Passed(ns, n) == \E k \in 1 .. Len(ns) - 1 : ns[k].id = n

Tidy(f, ns) ==
  /\ \A k \in 1 .. Len(ns) : \A j \in 1 .. k - 1 : Rank[f][ns[j].id] < Rank[f][ns[k].id]
  /\ Last(ns).completed => Edge[f][Last(ns).id] = NoNode

\* Each failure pays for one execution of a node, the node itself for one.
Paid(f, eff, flt, ns) ==
  \A n \in Node : Edge[f][n] # NoNode =>
    eff[n] <= flt \/ (eff[n] <= 1 + flt /\ Passed(ns, n))

Works(h, i) == pc[h] # "idle" /\ on[h] = i

Progress(h) ==
  pc[h] # "idle" /\ store[on[h]] # Absent => KeepsProgress(store[on[h]], mem[h])
AtWork(h) ==
  pc[h] # "idle" =>
    /\ Tidy(flowOf[on[h]], mem[h])
    /\ Paid(flowOf[on[h]], effect[on[h]], faults[on[h]], mem[h])
AtRest(h) ==
  \A i \in Instance : store[i] # Absent =>
    /\ Tidy(flowOf[i], store[i])
    /\ Works(h, i) \/ Paid(flowOf[i], effect[i], faults[i], store[i])
Unborn == \A i \in Instance : flowOf[i] = NoFlow => \A n \in Node : effect[i][n] = 0

\* Saves alone, for any flows; and with the repetitions, for acyclic ones.
KInv == \A h \in Handler : Progress(h)
PInv == Unborn /\ RepeatsPaidByFaults /\ \A h \in Handler : AtWork(h) /\ AtRest(h)

-----------------------------------------------------------------------------
(* Lemmas about lists.                                                     *)

LEMMA RankType ==
  ASSUME Acyclic
  PROVE  Rank \in [Flow -> [Node -> Nat]] /\ Ranks(Rank)
BY DEF Acyclic, Rank

LEMMA ProgressRefl ==
  ASSUME NEW ns \in Entries
  PROVE  KeepsProgress(ns, ns)
<1>1. Len(ns) \in Nat
  BY DEF Entries
<1>. QED  BY <1>1 DEF KeepsProgress

LEMMA ProgressTrans ==
  ASSUME NEW ns \in Entries, NEW ms \in Entries, NEW ls \in Entries,
         KeepsProgress(ns, ms), KeepsProgress(ms, ls)
  PROVE  KeepsProgress(ns, ls)
<1>1. Len(ns) \in Nat /\ Len(ms) \in Nat /\ Len(ls) \in Nat
  BY DEF Entries
<1>2. Len(ns) <= Len(ms) /\ Len(ms) <= Len(ls)
  BY DEF KeepsProgress
<1>3. Len(ns) <= Len(ls)
  BY <1>1, <1>2
<1>4. ASSUME NEW k \in 1 .. Len(ns)
      PROVE  ls[k].id = ns[k].id /\ (ns[k].completed => ls[k].completed)
  <2>1. k \in 1 .. Len(ms)
    BY <1>1, <1>2
  <2>. QED  BY <2>1 DEF KeepsProgress
<1>. QED  BY <1>3, <1>4 DEF KeepsProgress

LEMMA ProgressReloaded ==
  ASSUME NEW ns \in Entries
  PROVE  KeepsProgress(ns, Reloaded(ns))
<1>1. Len(ns) \in Nat
  BY DEF Entries
<1>. QED  BY <1>1, ReloadedEntries DEF KeepsProgress

\* JSON leaves the nodes passed and the last one alone.
LEMMA TidyReloaded ==
  ASSUME NEW ns \in Entries, Len(ns) > 0, NEW f, Tidy(f, ns)
  PROVE  Tidy(f, Reloaded(ns)) /\ \A n \in Node : Passed(Reloaded(ns), n) <=> Passed(ns, n)
<1>. PICK ms : ms = Reloaded(ns)
  OBVIOUS
<1>1. /\ Len(ms) = Len(ns) /\ Len(ns) \in Nat \ {0} /\ Len(ns) \in 1 .. Len(ns)
      /\ \A k \in 1 .. Len(ns) : ms[k].id = ns[k].id /\ ms[k].completed = ns[k].completed
  BY ReloadedEntries DEF Entries
<1>2. \A k \in 1 .. Len(ns) : \A j \in 1 .. k - 1 : j \in 1 .. Len(ns)
  BY <1>1
<1>3. \A k \in 1 .. Len(ms) : \A j \in 1 .. k - 1 : Rank[f][ms[j].id] < Rank[f][ms[k].id]
  BY <1>1, <1>2 DEF Tidy
<1>4. Last(ms).completed => Edge[f][Last(ms).id] = NoNode
  BY <1>1 DEF Tidy, Last
<1>5. \A k \in 1 .. Len(ns) - 1 : k \in 1 .. Len(ns)
  BY <1>1
<1>6. \A n \in Node : Passed(ms, n) <=> Passed(ns, n)
  BY <1>1, <1>5 DEF Passed
<1>. QED  BY <1>3, <1>4, <1>6 DEF Tidy

\* The loop of push either keeps the length of the list, or appends the next
\* node to it after the last one is completed.
LEMMA AdvanceList ==
  ASSUME IInv, NEW h \in Handler, pc[h] = "run",
         NEW e \in Entry, NEW r, NEW w, e.id = Current(h).id, Current(h).completed => e.completed,
         Advance(h, e, r, w)
  PROVE  /\ on' = on /\ pc'[h] # "idle" /\ mem'[h] \in Entries /\ Len(mem[h]) \in Nat \ {0}
         /\ KeepsProgress(mem[h], mem'[h])
         /\ \/ /\ e.completed /\ Edge[FlowAt(h)][e.id] # NoNode
               /\ Len(mem'[h]) = Len(mem[h]) + 1
               /\ mem'[h][Len(mem[h]) + 1].id = Edge[FlowAt(h)][e.id]
               /\ ~mem'[h][Len(mem[h]) + 1].completed
            \/ /\ ~(e.completed /\ Edge[FlowAt(h)][e.id] # NoNode)
               /\ Len(mem'[h]) = Len(mem[h])
               /\ Last(mem'[h]) = e
<1>. PICK ns, ms, next, len : /\ ns = mem[h] /\ ms = [ns EXCEPT ![Len(ns)] = e]
                              /\ next = Edge[FlowAt(h)][e.id] /\ len = Len(ns)
  OBVIOUS
<1>1. TypeOK /\ ns \in Seq(Entry) /\ len \in Nat \ {0} /\ len \in 1 .. len
  <2>1. TypeOK /\ ns \in Seq(Entry)
    BY DEF IInv, TypeOK, Entries
  <2>2. len > 0 /\ len \in Nat
    BY <2>1, Busy DEF Sound, IsPath
  <2>. QED  BY <2>1, <2>2
<1>2. /\ ms \in Seq(Entry) /\ Len(ms) = len
      /\ \A j \in 1 .. len : ms[j] = IF j = len THEN e ELSE ns[j]
  BY <1>1, ExceptSeq
<1>3. \A j \in 1 .. len : ms[j].id = ns[j].id /\ (ns[j].completed => ms[j].completed)
  <2>1. e.id = ns[len].id /\ (ns[len].completed => e.completed)
    BY DEF Current, Last
  <2>. QED  BY <1>1, <1>2, <2>1
<1>4. CASE e.completed /\ next # NoNode
  <2>. PICK c : c = CreateInstanceNode(next)
    OBVIOUS
  <2>1. /\ mem' = [mem EXCEPT ![h] = Append(ms, c)]
        /\ UNCHANGED <<pc, on>>
    BY <1>4 DEF Advance
  <2>2. next \in Node /\ c \in Entry /\ c.id = next /\ ~c.completed
    <3>1. next \in Node
      BY <1>4, Busy, FlowAssumption DEF FlowAt, Entry
    <3>. QED  BY <3>1, CreateType DEF CreateInstanceNode
  <2>3. mem'[h] = Append(ms, c)
    BY <1>1, <2>1 DEF TypeOK
  <2>4. /\ mem'[h] \in Seq(Entry) /\ Len(mem'[h]) = len + 1 /\ mem'[h][len + 1] = c
        /\ \A j \in 1 .. len : mem'[h][j] = ms[j]
    BY <1>1, <1>2, <2>2, <2>3, AppendProperties
  <2>5. KeepsProgress(ns, mem'[h])
    BY <1>1, <1>3, <2>4 DEF KeepsProgress
  <2>. QED  BY <1>1, <1>4, <2>1, <2>2, <2>4, <2>5 DEF Entries
<1>5. CASE ~(e.completed /\ next # NoNode)
  <2>1. mem' = [mem EXCEPT ![h] = ms] /\ pc' = [pc EXCEPT ![h] = "save"] /\ on' = on
    BY <1>5 DEF Advance
  <2>2. mem'[h] = ms /\ pc'[h] = "save"
    BY <1>1, <2>1 DEF TypeOK
  <2>3. KeepsProgress(ns, mem'[h])
    BY <1>1, <1>2, <1>3, <2>2 DEF KeepsProgress
  <2>4. Last(mem'[h]) = e
    BY <1>1, <1>2, <2>2 DEF Last
  <2>. QED  BY <1>1, <1>2, <1>5, <2>1, <2>2, <2>3, <2>4 DEF Entries
<1>. QED  BY <1>4, <1>5

\* The node a handler is at has not been passed.
LEMMA NotPassed ==
  ASSUME Acyclic, IInv, NEW h \in Handler, pc[h] # "idle", Tidy(FlowAt(h), mem[h])
  PROVE  ~Passed(mem[h], Current(h).id)
<1>. PICK ns, f, len : ns = mem[h] /\ f = FlowAt(h) /\ len = Len(ns)
  OBVIOUS
<1>1. f \in Flow /\ ns \in Seq(Entry) /\ len \in Nat \ {0} /\ Current(h) = ns[len]
  BY Busy DEF Sound, IsPath, Entries, FlowAt, Current, Last
<1>2. ASSUME NEW k \in 1 .. len - 1, ns[k].id = ns[len].id
      PROVE  FALSE
  <2>1. k \in 1 .. len /\ len \in 1 .. len
    BY <1>1
  <2>2. Rank[f][ns[k].id] < Rank[f][ns[len].id]
    BY <1>1, <2>1 DEF Tidy
  <2>3. ns[len].id \in Node
    BY <1>1, Busy
  <2>4. Rank[f][ns[len].id] \in Nat
    BY <1>1, <2>3, RankType
  <2>. QED  BY <1>2, <2>2, <2>4
<1>. QED  BY <1>1, <1>2 DEF Passed

LEMMA AdvanceTidy ==
  ASSUME Acyclic, IInv, NEW h \in Handler, pc[h] = "run",
         NEW e \in Entry, NEW r, NEW w, e.id = Current(h).id, Current(h).completed => e.completed,
         Advance(h, e, r, w), Tidy(FlowAt(h), mem[h])
  PROVE  /\ Tidy(FlowAt(h), mem'[h])
         /\ \A n \in Node : Passed(mem[h], n) => Passed(mem'[h], n)
         /\ e.completed /\ Edge[FlowAt(h)][e.id] # NoNode => Passed(mem'[h], e.id)
<1>. PICK f, ns, ms, len : f = FlowAt(h) /\ ns = mem[h] /\ ms = mem'[h] /\ len = Len(ns)
  OBVIOUS
<1>1. /\ ms \in Seq(Entry) /\ ns \in Seq(Entry) /\ len \in Nat \ {0}
      /\ f \in Flow /\ e.id \in Node /\ e.id = ns[len].id
      /\ \A k \in 1 .. len : ms[k].id = ns[k].id
      /\ Len(ms) \in {len, len + 1}
  <2>1. f \in Flow /\ ns \in Seq(Entry)
    BY Busy DEF FlowAt, Entries
  <2>2. /\ ms \in Seq(Entry) /\ len \in Nat \ {0} /\ KeepsProgress(ns, ms)
        /\ Len(ms) \in {len, len + 1}
    BY AdvanceList DEF Entries
  <2>3. e.id \in Node /\ e.id = ns[len].id
    BY DEF Entry, Current, Last
  <2>. QED  BY <2>1, <2>2, <2>3 DEF KeepsProgress
<1>2. \A k \in 1 .. len : ns[k].id \in Node /\ Rank[f][ns[k].id] \in Nat
  <2>1. \A k \in 1 .. len : ns[k] \in Entry
    BY <1>1
  <2>. QED  BY <1>1, <2>1, RankType DEF Entry
<1>3. ASSUME NEW k \in 1 .. len, NEW j \in 1 .. k - 1
      PROVE  j \in 1 .. len /\ Rank[f][ms[j].id] < Rank[f][ms[k].id]
  <2>1. j \in 1 .. len
    BY <1>1
  <2>. QED  BY <1>1, <2>1 DEF Tidy
<1>4. \A n \in Node : Passed(ns, n) => Passed(ms, n)
  <2>1. \A k \in 1 .. len - 1 : k \in 1 .. Len(ms) - 1 /\ k \in 1 .. len
    BY <1>1
  <2>. QED  BY <1>1, <2>1 DEF Passed
<1>5. CASE /\ e.completed /\ Edge[f][e.id] # NoNode
           /\ Len(ms) = len + 1
           /\ ms[len + 1].id = Edge[f][e.id]
           /\ ~ms[len + 1].completed
  <2>. PICK next : next = Edge[f][e.id]
    OBVIOUS
  <2>1. next \in Node /\ Rank[f][next] \in Nat /\ Rank[f][e.id] < Rank[f][next]
    BY <1>1, <1>5, FlowAssumption, RankType DEF Ranks
  <2>2. ASSUME NEW j \in 1 .. len
        PROVE  Rank[f][ms[j].id] < Rank[f][next]
    <3>1. CASE j = len
      BY <1>1, <2>1, <3>1
    <3>2. CASE j # len
      <4>1. j \in 1 .. len - 1 /\ len \in 1 .. len
        BY <1>1, <3>2
      <4>2. Rank[f][ms[j].id] < Rank[f][ms[len].id]
        BY <1>3, <4>1
      <4>3. Rank[f][ms[j].id] \in Nat /\ Rank[f][e.id] \in Nat /\ ms[len].id = e.id
        BY <1>1, <1>2, <4>1
      <4>. QED  BY <2>1, <4>2, <4>3
    <3>. QED  BY <3>1, <3>2
  <2>3. ASSUME NEW k \in 1 .. len + 1, NEW j \in 1 .. k - 1
        PROVE  Rank[f][ms[j].id] < Rank[f][ms[k].id]
    <3>1. CASE k = len + 1
      <4>1. j \in 1 .. len
        BY <1>1, <3>1
      <4>. QED  BY <1>5, <2>2, <3>1, <4>1
    <3>2. CASE k # len + 1
      <4>1. k \in 1 .. len
        BY <1>1, <3>2
      <4>. QED  BY <1>3, <4>1
    <3>. QED  BY <3>1, <3>2
  <2>4. Tidy(f, ms)
    BY <1>5, <2>3 DEF Tidy, Last
  <2>5. Passed(ms, e.id)
    <3>1. len \in 1 .. Len(ms) - 1 /\ ms[len].id = e.id
      BY <1>1, <1>5
    <3>. QED  BY <3>1 DEF Passed
  <2>. QED  BY <1>4, <2>4, <2>5
<1>6. CASE /\ ~(e.completed /\ Edge[f][e.id] # NoNode)
           /\ Len(ms) = len /\ Last(ms) = e
  <2>1. Tidy(f, ms)
    BY <1>3, <1>6 DEF Tidy
  <2>. QED  BY <1>4, <1>6, <2>1
<1>. QED  BY <1>5, <1>6, AdvanceList

-----------------------------------------------------------------------------
(* Steps of the one handler.                                               *)

LEMMA Only ==
  ASSUME OneHandler, NEW h \in Handler
  PROVE  Handler = {h}
BY DEF OneHandler

\* Faults and effects count up to Cap, and a failure pays for one more effect.
LEMMA Counters ==
  ASSUME NEW a \in 0 .. Cap, NEW b \in 0 .. Cap, NEW b2, b2 = Inc(b)
  PROVE  /\ b2 \in 0 .. Cap
         /\ a <= 1 + b => a <= b2
         /\ a <= b => Inc(a) <= b2 /\ Inc(a) <= 1 + b
         /\ a <= 1 + b => Inc(a) <= 1 + b2
         /\ a <= b => a <= 1 + b
BY BoundAssumption DEF Inc

\* An executed node: the list goes on, and the effect of the node, if it has
\* one, is the one that having passed the node allows.
LEMMA AdvancePaid ==
  ASSUME OneHandler, Acyclic, IInv, PInv, NEW h \in Handler, pc[h] = "run",
         NEW e \in Entry, NEW r, NEW w, e.id = Current(h).id, Current(h).completed => e.completed,
         Advance(h, e, r, w), UNCHANGED <<flowOf, store, faults>>,
         \/ effect' = effect
         \/ e.completed /\ effect' = [effect EXCEPT ![on[h]][e.id] = Inc(@)]
  PROVE  PInv'
<1>. PICK i, f, ns, ms : i = on[h] /\ f = flowOf[i] /\ ns = mem[h] /\ ms = mem'[h]
  OBVIOUS
<1>1. /\ i \in Instance /\ f \in Flow /\ f # NoFlow /\ FlowAt(h) = f /\ e.id \in Node
      /\ effect \in [Instance -> [Node -> 0 .. Cap]] /\ faults \in [Instance -> 0 .. Cap]
  BY Busy, DataAssumption DEF IInv, TypeOK, FlowAt
<1>2. /\ Tidy(f, ns) /\ Paid(f, effect[i], faults[i], ns)
      /\ Unborn /\ RepeatsPaidByFaults /\ AtRest(h)
  BY DEF PInv, AtWork
<1>3. /\ Tidy(f, ms) /\ \A n \in Node : Passed(ns, n) => Passed(ms, n)
      /\ e.completed /\ Edge[f][e.id] # NoNode => Passed(ms, e.id)
      /\ on' = on /\ pc'[h] # "idle"
  BY <1>1, <1>2, AdvanceTidy, AdvanceList
<1>4. ~Passed(ns, e.id)
  BY <1>1, <1>2, NotPassed
<1>5. \A j \in Instance \ {i} : effect'[j] = effect[j]
  BY <1>1
<1>6. ASSUME NEW n \in Node
      PROVE  \/ effect'[i][n] = effect[i][n]
             \/ e.completed /\ n = e.id /\ effect'[i][n] = Inc(effect[i][n])
  BY <1>1
<1>7. \A n \in Node : effect[i][n] \in 0 .. Cap /\ faults[i] \in 0 .. Cap
  BY <1>1
<1>8. ASSUME NEW n \in Node, Edge[f][n] # NoNode
      PROVE  effect'[i][n] <= faults[i] \/ (effect'[i][n] <= 1 + faults[i] /\ Passed(ms, n))
  <2>1. effect[i][n] <= faults[i] \/ (effect[i][n] <= 1 + faults[i] /\ Passed(ns, n))
    BY <1>2, <1>8 DEF Paid
  <2>2. CASE effect'[i][n] = effect[i][n]
    BY <1>3, <2>1, <2>2
  <2>3. CASE e.completed /\ n = e.id /\ effect'[i][n] = Inc(effect[i][n])
    <3>1. effect[i][n] <= faults[i]
      BY <1>4, <2>1, <2>3
    <3>2. Inc(effect[i][n]) <= 1 + faults[i]
      BY <1>7, <3>1, Counters
    <3>. QED  BY <1>3, <1>8, <2>3, <3>2
  <2>. QED  BY <1>6, <2>2, <2>3
<1>9. Paid(f, effect'[i], faults[i], ms)
  BY <1>8 DEF Paid
<1>10. AtWork(h)'
  BY <1>3, <1>9 DEF AtWork
<1>11. ASSUME NEW j \in Instance, store[j] # Absent
       PROVE  Tidy(flowOf[j], store[j]) /\ (Works(h, j)' \/ Paid(flowOf[j], effect'[j], faults[j], store[j]))
  <2>1. Tidy(flowOf[j], store[j]) /\ (Works(h, j) \/ Paid(flowOf[j], effect[j], faults[j], store[j]))
    BY <1>2, <1>11 DEF AtRest
  <2>2. CASE j = i
    BY <1>3, <2>1, <2>2 DEF Works
  <2>3. CASE j # i
    BY <1>5, <2>1, <2>3 DEF Works
  <2>. QED  BY <2>2, <2>3
<1>12. AtRest(h)'
  BY <1>11 DEF AtRest, Works
<1>13. Unborn'
  BY <1>1, <1>2, <1>5 DEF Unborn
<1>14. RepeatsPaidByFaults'
  <2>1. ASSUME NEW j \in Instance, NEW n \in Node, flowOf[j] # NoFlow, Edge[flowOf[j]][n] # NoNode
        PROVE  effect'[j][n] <= 1 + faults[j]
    <3>1. CASE j = i
      BY <1>6, <1>7, <1>8, <2>1, <3>1, Counters DEF Inc
    <3>2. CASE j # i
      BY <1>2, <1>5, <2>1, <3>2 DEF RepeatsPaidByFaults
    <3>. QED  BY <3>1, <3>2
  <2>. QED  BY <2>1 DEF RepeatsPaidByFaults
<1>. QED  BY <1>10, <1>12, <1>13, <1>14, Only DEF PInv

\* A failure pays for whatever effect the node had.
LEMMA FailurePaid ==
  ASSUME OneHandler, Acyclic, IInv, PInv, NEW h \in Handler, pc[h] = "run",
         StepFails(h) \/ Panic(h), Fault(h), UNCHANGED <<flowOf, store>>,
         \/ effect' = effect
         \/ effect' = [effect EXCEPT ![on[h]][Current(h).id] = Inc(@)]
  PROVE  PInv'
<1>. PICK i, f, ns, m : i = on[h] /\ f = flowOf[i] /\ ns = mem[h] /\ m = Current(h).id
  OBVIOUS
<1>1. /\ i \in Instance /\ f \in Flow /\ f # NoFlow /\ FlowAt(h) = f /\ m \in Node
      /\ effect \in [Instance -> [Node -> 0 .. Cap]] /\ faults \in [Instance -> 0 .. Cap]
  BY Busy, DataAssumption DEF IInv, TypeOK, FlowAt
<1>2. /\ Tidy(f, ns) /\ Paid(f, effect[i], faults[i], ns)
      /\ Unborn /\ RepeatsPaidByFaults /\ AtRest(h)
  BY DEF PInv, AtWork
<1>3. ~Passed(ns, m)
  BY <1>1, <1>2, NotPassed
<1>4. /\ \A j \in Instance \ {i} : effect'[j] = effect[j] /\ faults'[j] = faults[j]
      /\ faults'[i] = Inc(faults[i])
  BY <1>1 DEF Fault
<1>5. ASSUME NEW n \in Node
      PROVE  effect'[i][n] = effect[i][n] \/ (n = m /\ effect'[i][n] = Inc(effect[i][n]))
  BY <1>1
<1>6. \A n \in Node : effect[i][n] \in 0 .. Cap /\ faults[i] \in 0 .. Cap
  BY <1>1
<1>7. ASSUME NEW n \in Node, Edge[f][n] # NoNode
      PROVE  effect'[i][n] <= faults'[i] /\ effect'[i][n] <= 1 + faults'[i]
  <2>1. effect[i][n] <= faults[i] \/ (effect[i][n] <= 1 + faults[i] /\ Passed(ns, n))
    BY <1>2, <1>7 DEF Paid
  <2>2. effect[i][n] <= 1 + faults[i]
    BY <1>6, <2>1
  <2>3. effect'[i][n] <= faults'[i]
    <3>1. CASE effect'[i][n] = effect[i][n]
      BY <1>4, <1>6, <2>2, <3>1, Counters
    <3>2. CASE n = m /\ effect'[i][n] = Inc(effect[i][n])
      BY <1>3, <1>4, <1>6, <2>1, <3>2, Counters
    <3>. QED  BY <1>5, <3>1, <3>2
  <2>4. effect'[i][n] \in Int /\ faults'[i] \in Int
    <3>1. Inc(effect[i][n]) \in 0 .. Cap /\ Inc(faults[i]) \in 0 .. Cap
      BY <1>6, Counters
    <3>. QED  BY <1>4, <1>5, <1>6, <3>1
  <2>. QED  BY <2>3, <2>4
<1>8. \A ls : Paid(f, effect'[i], faults'[i], ls)
  BY <1>7 DEF Paid
<1>9. on' = on /\ (pc'[h] = "idle" \/ mem'[h] = ns)
  <2>1. CASE StepFails(h)
    BY <2>1 DEF StepFails
  <2>2. CASE Panic(h)
    BY <2>2 DEF Panic, IInv, TypeOK
  <2>. QED  BY <2>1, <2>2
<1>10. AtWork(h)'
  BY <1>2, <1>8, <1>9 DEF AtWork
<1>11. ASSUME NEW j \in Instance, store[j] # Absent
       PROVE  Tidy(flowOf[j], store[j]) /\ (Works(h, j)' \/ Paid(flowOf[j], effect'[j], faults'[j], store[j]))
  <2>1. Tidy(flowOf[j], store[j]) /\ (Works(h, j) \/ Paid(flowOf[j], effect[j], faults[j], store[j]))
    BY <1>2, <1>11 DEF AtRest
  <2>2. CASE j = i
    BY <1>8, <2>1, <2>2
  <2>3. CASE j # i
    BY <1>4, <2>1, <2>3 DEF Works
  <2>. QED  BY <2>2, <2>3
<1>12. AtRest(h)'
  BY <1>11 DEF AtRest, Works
<1>13. Unborn'
  BY <1>1, <1>2, <1>4 DEF Unborn
<1>14. RepeatsPaidByFaults'
  <2>1. ASSUME NEW j \in Instance, NEW n \in Node, flowOf[j] # NoFlow, Edge[flowOf[j]][n] # NoNode
        PROVE  effect'[j][n] <= 1 + faults'[j]
    <3>1. CASE j = i
      BY <1>7, <2>1, <3>1
    <3>2. CASE j # i
      BY <1>2, <1>4, <2>1, <3>2 DEF RepeatsPaidByFaults
    <3>. QED  BY <3>1, <3>2
  <2>. QED  BY <2>1 DEF RepeatsPaidByFaults
<1>. QED  BY <1>10, <1>12, <1>13, <1>14, Only DEF PInv

\* What every executed node shows: its entry, its result and its effect.
LEMMA Executed ==
  ASSUME IInv, NEW h \in Handler,
         \/ RunPass(h) \/ RunFormStage0(h) \/ RunFormStage1(h)
         \/ RunSave(h) \/ RunRequest(h) \/ RunMerge(h)
  PROVE  \E e \in Entry, r \in RspPtr, w \in {"none", "form"} :
           /\ pc[h] = "run" /\ e.id = Current(h).id /\ (Current(h).completed => e.completed)
           /\ Advance(h, e, r, w) /\ UNCHANGED <<flowOf, store, faults>>
           /\ \/ effect' = effect
              \/ e.completed /\ effect' = [effect EXCEPT ![on[h]][e.id] = Inc(@)]
<1>1. pc[h] = "run" /\ Current(h) \in Entry /\ req[h] \in RspPtr /\ mem[h] \in Entries
  <2>1. pc[h] = "run"
    BY DEF RunPass, RunFormStage0, RunFormStage1, RunSave, RunRequest, RunMerge, CanSave,
       CanRequest, Running
  <2>. QED  BY <2>1, Busy DEF IInv, TypeOK
<1>2. UNCHANGED <<flowOf, store, faults>>
  BY DEF RunPass, RunFormStage0, RunFormStage1, RunSave, RunRequest, RunMerge, store_vars, history
<1>3. ASSUME NEW r \in RspPtr, Advance(h, Complete(Current(h), r), r, "none"),
             \/ effect' = effect
             \/ effect' = [effect EXCEPT ![on[h]][Current(h).id] = Inc(@)]
      PROVE  \E e \in Entry, s \in RspPtr, w \in {"none", "form"} :
               /\ pc[h] = "run" /\ e.id = Current(h).id /\ (Current(h).completed => e.completed)
               /\ Advance(h, e, s, w) /\ UNCHANGED <<flowOf, store, faults>>
               /\ \/ effect' = effect
                  \/ e.completed /\ effect' = [effect EXCEPT ![on[h]][e.id] = Inc(@)]
  <2>1. PICK e \in Entry : e = Complete(Current(h), r)
    BY <1>1, CompleteType
  <2>2. e.id = Current(h).id /\ e.completed
    BY <2>1 DEF Complete
  <2>3. Advance(h, e, r, "none")
    BY <1>3, <2>1
  <2>4. effect' = effect \/ effect' = [effect EXCEPT ![on[h]][e.id] = Inc(@)]
    BY <1>3, <2>2
  <2>. QED  BY <1>1, <1>2, <2>2, <2>3, <2>4
<1>4. CASE RunPass(h) \/ RunFormStage1(h)
  BY <1>1, <1>3, <1>4 DEF RunPass, RunFormStage1, history
<1>5. CASE RunFormStage0(h)
  <2>1. PICK e : e = [Current(h) EXCEPT !.data = "stage0", !.out = NoRsp]
    OBVIOUS
  <2>2. NoRsp \in RspPtr
    BY DEF RspPtr
  <2>3. e \in Entry /\ e.id = Current(h).id /\ e.completed = Current(h).completed
    BY <1>1, <2>1, <2>2 DEF Entry
  <2>4. Advance(h, e, NoRsp, "form") /\ effect' = effect
    BY <1>5, <2>1 DEF RunFormStage0
  <2>. QED  BY <1>1, <1>2, <2>2, <2>3, <2>4
<1>6. CASE RunSave(h)
  <2>1. PICK r : r = [stage |-> 0, model |-> TRUE, list |-> RowsOf(req[h])]
    OBVIOUS
  <2>2. r \in RspPtr
    <3>1. RowsOf(req[h]) \subseteq Row
      BY <1>1, RowsOfType
    <3>. QED  BY <2>1, <3>1 DEF RspPtr, Rsp, List
  <2>3. /\ Advance(h, Complete(Current(h), r), r, "none")
        /\ effect' = [effect EXCEPT ![on[h]][Current(h).id] = Inc(@)]
    BY <1>6, <2>1 DEF RunSave, Commit
  <2>. QED  BY <1>3, <2>2, <2>3
<1>7. CASE RunRequest(h)
  <2>1. PICK r \in ServiceRsp : Advance(h, Complete(Current(h), r), r, "none")
    BY <1>7 DEF RunRequest
  <2>2. r \in RspPtr /\ effect' = [effect EXCEPT ![on[h]][Current(h).id] = Inc(@)]
    BY <1>7, DataAssumption DEF RunRequest
  <2>. QED  BY <1>3, <2>1, <2>2
<1>8. CASE RunMerge(h)
  <2>1. PICK r : r = FlowData(mem[h], MainSource[FlowAt(h)][Current(h).id])
    OBVIOUS
  <2>2. r \in RspPtr /\ effect' = effect
    BY <1>1, <1>8, <2>1, FlowDataType DEF RunMerge, history
  <2>3. Advance(h, Complete(Current(h), r), r, "none")
    BY <1>8, <2>1 DEF RunMerge
  <2>. QED  BY <1>3, <2>2, <2>3
<1>. QED  BY <1>4, <1>5, <1>6, <1>7, <1>8

\* What every failed node shows.
LEMMA Failed ==
  ASSUME IInv, NEW h \in Handler,
         \/ RunFormPanic(h) \/ RunSaveRefused(h) \/ RunSaveCommitError(h)
         \/ RunSavePanic(h) \/ RunRequestFails(h) \/ RunRequestPanic(h) \/ RunMergePanic(h)
         \/ RunUnknown(h)
  PROVE  /\ pc[h] = "run" /\ (StepFails(h) \/ Panic(h)) /\ Fault(h)
         /\ UNCHANGED <<flowOf, store>>
         /\ \/ effect' = effect
            \/ effect' = [effect EXCEPT ![on[h]][Current(h).id] = Inc(@)]
<1>1. pc[h] = "run" /\ (StepFails(h) \/ Panic(h)) /\ Fault(h) /\ UNCHANGED <<flowOf, store>>
  BY DEF RunFormPanic, RunSaveRefused, RunSaveCommitError, RunSavePanic, RunRequestFails,
         RunRequestPanic, RunMergePanic, RunUnknown, CanSave, CanRequest, Running, store_vars
<1>2. \/ effect' = effect
      \/ effect' = [effect EXCEPT ![on[h]][Current(h).id] = Inc(@)]
  BY DEF RunFormPanic, RunSaveRefused, RunSaveCommitError, RunSavePanic, RunRequestFails,
         RunRequestPanic, RunMergePanic, RunUnknown, Commit
<1>. QED  BY <1>1, <1>2

LEMMA RunNodePaid ==
  ASSUME OneHandler, Acyclic, IInv, PInv, NEW h \in Handler, RunNode(h)
  PROVE  PInv'
<1>1. CASE \/ RunPass(h) \/ RunFormStage0(h) \/ RunFormStage1(h)
           \/ RunSave(h) \/ RunRequest(h) \/ RunMerge(h)
  <2>1. PICK e \in Entry, r \in RspPtr, w \in {"none", "form"} :
           /\ pc[h] = "run" /\ e.id = Current(h).id /\ (Current(h).completed => e.completed)
           /\ Advance(h, e, r, w) /\ UNCHANGED <<flowOf, store, faults>>
           /\ \/ effect' = effect
              \/ e.completed /\ effect' = [effect EXCEPT ![on[h]][e.id] = Inc(@)]
    BY <1>1, Executed
  <2>. QED  BY <2>1, AdvancePaid
<1>2. CASE \/ RunFormPanic(h) \/ RunSaveRefused(h) \/ RunSaveCommitError(h)
           \/ RunSavePanic(h) \/ RunRequestFails(h) \/ RunRequestPanic(h) \/ RunMergePanic(h)
         \/ RunUnknown(h)
  BY <1>2, Failed, FailurePaid
<1>. QED  BY <1>1, <1>2 DEF RunNode

-----------------------------------------------------------------------------
(* The other actions of the one handler.                                   *)

\* A request for a new instance: nothing was executed for it, and Redis has
\* no list of it.
LEMMA StartFlowPaid ==
  ASSUME OneHandler, Acyclic, IInv, PInv, NEW h \in Handler, NEW i \in Instance,
         NEW f \in Flow, NEW r \in ClientRsp, StartFlow(h, i, f, r)
  PROVE  PInv'
<1>1. TypeOK /\ Unborn /\ RepeatsPaidByFaults /\ AtRest(h)
  BY DEF IInv, PInv
<1>2. /\ pc[h] = "idle" /\ flowOf[i] = NoFlow /\ on'[h] = i
      /\ flowOf'[i] = f /\ \A j \in Instance \ {i} : flowOf'[j] = flowOf[j]
      /\ UNCHANGED <<store, effect>>
  BY <1>1 DEF StartFlow, TypeOK
<1>3. /\ \A j \in Instance : faults[j] \in 0 .. Cap /\ faults'[j] \in 0 .. Cap
      /\ \A j \in Instance \ {i} : faults'[j] = faults[j]
  <2>1. faults \in [Instance -> 0 .. Cap] /\ Inc(faults[i]) \in 0 .. Cap
    BY <1>1, IncType DEF TypeOK
  <2>2. faults' = faults \/ faults' = [faults EXCEPT ![i] = Inc(@)]
    BY DEF StartFlow
  <2>. QED  BY <2>1, <2>2
<1>4. store[i] = Absent
  BY <1>2, DataAssumption DEF IInv, StoreSound, Sound
<1>5. \A n \in Node : effect[i][n] = 0
  BY <1>1, <1>2 DEF Unborn
<1>6. Unborn'
  BY <1>1, <1>2, DataAssumption DEF Unborn
<1>7. RepeatsPaidByFaults'
  <2>1. ASSUME NEW j \in Instance, NEW n \in Node, flowOf'[j] # NoFlow, Edge[flowOf'[j]][n] # NoNode
        PROVE  effect'[j][n] <= 1 + faults'[j]
    <3>1. CASE j = i
      BY <1>2, <1>3, <1>5, <3>1
    <3>2. CASE j # i
      BY <1>1, <1>2, <1>3, <2>1, <3>2 DEF RepeatsPaidByFaults
    <3>. QED  BY <3>1, <3>2
  <2>. QED  BY <2>1 DEF RepeatsPaidByFaults
<1>8. AtRest(h)'
  <2>1. ASSUME NEW j \in Instance, store[j] # Absent
        PROVE  Tidy(flowOf'[j], store[j]) /\ Paid(flowOf'[j], effect'[j], faults'[j], store[j])
    <3>1. j # i
      BY <1>4, <2>1
    <3>. QED  BY <1>1, <1>2, <1>3, <2>1, <3>1 DEF AtRest, Works
  <2>. QED  BY <1>2, <2>1 DEF AtRest
<1>9. AtWork(h)'
  <2>1. CASE Start[f] # NoNode
    <3>. PICK c : c = CreateInstanceNode(Start[f])
      OBVIOUS
    <3>1. mem'[h] = <<c>> /\ ~c.completed
      BY <1>1, <2>1 DEF StartFlow, TypeOK, CreateInstanceNode
    <3>2. Tidy(f, mem'[h])
      BY <3>1 DEF Tidy, Last
    <3>3. Paid(f, effect'[i], faults'[i], mem'[h])
      BY <1>2, <1>3, <1>5 DEF Paid
    <3>. QED  BY <1>2, <3>2, <3>3 DEF AtWork
  <2>2. CASE Start[f] = NoNode
    <3>1. pc'[h] = "idle"
      BY <1>2, <2>2 DEF StartFlow
    <3>. QED  BY <3>1 DEF AtWork
  <2>. QED  BY <2>1, <2>2
<1>. QED  BY <1>6, <1>7, <1>8, <1>9, Only DEF PInv

\* A push goes on from the list in Redis, which is the one that is paid for.
LEMMA PushFlowPaid ==
  ASSUME OneHandler, Acyclic, IInv, PInv, NEW h \in Handler, NEW i \in Instance,
         NEW r \in ClientRsp, PushFlow(h, i, r)
  PROVE  PInv'
<1>1. TypeOK /\ Unborn /\ RepeatsPaidByFaults /\ AtRest(h)
  BY DEF IInv, PInv
<1>2. /\ pc[h] = "idle" /\ store[i] # Absent /\ on'[h] = i /\ mem'[h] = store[i]
      /\ UNCHANGED <<flowOf, store, effect, faults>>
  BY <1>1 DEF PushFlow, TypeOK
<1>3. \A j \in Instance : store[j] # Absent =>
        Tidy(flowOf[j], store[j]) /\ Paid(flowOf[j], effect[j], faults[j], store[j])
  BY <1>1, <1>2 DEF AtRest, Works
<1>4. AtWork(h)'
  BY <1>2, <1>3 DEF AtWork
<1>5. AtRest(h)'
  BY <1>2, <1>3 DEF AtRest
<1>6. Unborn' /\ RepeatsPaidByFaults'
  BY <1>1, <1>2 DEF Unborn, RepeatsPaidByFaults
<1>. QED  BY <1>4, <1>5, <1>6, Only DEF PInv

\* A save makes the list of the handler the one in Redis; a save that fails
\* is a failure, and pays for what it does not record.
LEMMA SaveInstancePaid ==
  ASSUME OneHandler, Acyclic, IInv, PInv, NEW h \in Handler, SaveInstance(h)
  PROVE  PInv'
<1>. PICK i, f, ns, ms : i = on[h] /\ f = flowOf[i] /\ ns = mem[h] /\ ms = Reloaded(ns)
  OBVIOUS
<1>1. /\ TypeOK /\ pc[h] = "save" /\ pc'[h] = "idle" /\ i \in Instance /\ ns \in Entries
      /\ Len(ns) > 0
  BY Busy DEF IInv, SaveInstance, TypeOK, Sound, IsPath
<1>2. /\ Unborn /\ RepeatsPaidByFaults /\ AtRest(h)
      /\ Tidy(f, ns) /\ Paid(f, effect[i], faults[i], ns)
  BY <1>1 DEF PInv, AtWork
<1>3. UNCHANGED <<flowOf, on, effect>>
  BY DEF SaveInstance
<1>4. \A j \in Instance : j # i => ~Works(h, j)
  BY DEF Works
<1>5. Tidy(f, ms) /\ Paid(f, effect[i], faults[i], ms)
  <2>1. Tidy(f, ms) /\ \A n \in Node : Passed(ms, n) <=> Passed(ns, n)
    BY <1>1, <1>2, TidyReloaded
  <2>. QED  BY <1>2, <2>1 DEF Paid
<1>6. AtWork(h)'
  BY <1>1 DEF AtWork
<1>7. CASE store' = [store EXCEPT ![i] = ms] /\ UNCHANGED faults
  <2>1. store'[i] = ms /\ \A j \in Instance \ {i} : store'[j] = store[j]
    BY <1>1, <1>7 DEF TypeOK
  <2>2. ASSUME NEW j \in Instance, store'[j] # Absent
        PROVE  Tidy(flowOf[j], store'[j]) /\ Paid(flowOf[j], effect[j], faults[j], store'[j])
    <3>1. CASE j = i
      BY <1>5, <2>1, <3>1
    <3>2. CASE j # i
      BY <1>2, <1>4, <2>1, <2>2, <3>2 DEF AtRest
    <3>. QED  BY <3>1, <3>2
  <2>3. AtRest(h)'
    BY <1>3, <1>7, <2>2 DEF AtRest
  <2>4. Unborn' /\ RepeatsPaidByFaults'
    BY <1>2, <1>3, <1>7 DEF Unborn, RepeatsPaidByFaults
  <2>. QED  BY <1>6, <2>3, <2>4, Only DEF PInv
<1>8. CASE Fault(h) /\ UNCHANGED store
  <2>1. /\ faults'[i] = Inc(faults[i]) /\ \A j \in Instance \ {i} : faults'[j] = faults[j]
        /\ faults[i] \in 0 .. Cap /\ faults'[i] \in 0 .. Cap
        /\ \A n \in Node : effect[i][n] \in 0 .. Cap
    <3>1. faults \in [Instance -> 0 .. Cap] /\ effect \in [Instance -> [Node -> 0 .. Cap]]
      BY <1>1 DEF TypeOK
    <3>. QED  BY <1>1, <1>8, <3>1, IncType DEF Fault
  <2>2. ASSUME NEW n \in Node, Edge[f][n] # NoNode
        PROVE  effect[i][n] <= faults'[i] /\ effect[i][n] <= 1 + faults'[i]
    <3>1. effect[i][n] <= 1 + faults[i]
      BY <1>2, <2>1, <2>2 DEF Paid
    <3>2. effect[i][n] <= faults'[i]
      BY <2>1, <3>1, Counters
    <3>. QED  BY <2>1, <3>2
  <2>3. \A ls : Paid(f, effect[i], faults'[i], ls)
    BY <2>2 DEF Paid
  <2>4. ASSUME NEW j \in Instance, store[j] # Absent
        PROVE  Tidy(flowOf[j], store[j]) /\ Paid(flowOf[j], effect[j], faults'[j], store[j])
    <3>1. CASE j = i
      BY <1>2, <2>3, <2>4, <3>1 DEF AtRest
    <3>2. CASE j # i
      BY <1>2, <1>4, <2>1, <2>4, <3>2 DEF AtRest
    <3>. QED  BY <3>1, <3>2
  <2>5. AtRest(h)'
    BY <1>3, <1>8, <2>4 DEF AtRest
  <2>6. RepeatsPaidByFaults'
    <3>1. ASSUME NEW j \in Instance, NEW n \in Node, flowOf[j] # NoFlow, Edge[flowOf[j]][n] # NoNode
          PROVE  effect[j][n] <= 1 + faults'[j]
      <4>1. CASE j = i
        BY <2>2, <3>1, <4>1
      <4>2. CASE j # i
        BY <1>2, <2>1, <3>1, <4>2 DEF RepeatsPaidByFaults
      <4>. QED  BY <4>1, <4>2
    <3>. QED  BY <1>3, <3>1 DEF RepeatsPaidByFaults
  <2>7. Unborn'
    BY <1>2, <1>3 DEF Unborn
  <2>. QED  BY <1>6, <2>5, <2>6, <2>7, Only DEF PInv
<1>. QED  BY <1>7, <1>8 DEF SaveInstance

\* A crash is a failure of the instance at work.
LEMMA CrashPaid ==
  ASSUME OneHandler, Acyclic, IInv, PInv, Crash
  PROVE  PInv'
<1>. PICK h \in Handler : pc[h] # "idle"
  BY DEF Crash
<1>. PICK i, f, ns : i = on[h] /\ f = flowOf[i] /\ ns = mem[h]
  OBVIOUS
<1>1. Handler = {h}
  BY Only
<1>2. /\ Unborn /\ RepeatsPaidByFaults /\ AtRest(h)
      /\ Tidy(f, ns) /\ Paid(f, effect[i], faults[i], ns)
  BY DEF PInv, AtWork
<1>3. UNCHANGED <<flowOf, store, on, effect>> /\ pc'[h] = "idle"
  BY DEF Crash
<1>4. \A j \in Instance : j # i => ~Works(h, j)
  BY DEF Works
<1>5. /\ faults'[i] = Inc(faults[i]) /\ \A j \in Instance \ {i} : faults'[j] = faults[j]
      /\ faults[i] \in 0 .. Cap /\ faults'[i] \in 0 .. Cap
      /\ \A n \in Node : effect[i][n] \in 0 .. Cap
  <2>1. /\ faults \in [Instance -> 0 .. Cap] /\ effect \in [Instance -> [Node -> 0 .. Cap]]
        /\ i \in Instance
    BY Busy DEF IInv, TypeOK
  <2>2. \A j \in Instance : faults'[j] = IF j = i THEN Inc(faults[j]) ELSE faults[j]
    BY <1>1 DEF Crash
  <2>3. faults'[i] = Inc(faults[i]) /\ \A j \in Instance \ {i} : faults'[j] = faults[j]
    BY <2>1, <2>2
  <2>. QED  BY <2>1, <2>3, IncType
<1>6. ASSUME NEW n \in Node, Edge[f][n] # NoNode
      PROVE  effect[i][n] <= faults'[i] /\ effect[i][n] <= 1 + faults'[i]
  <2>1. effect[i][n] <= 1 + faults[i]
    BY <1>2, <1>5, <1>6 DEF Paid
  <2>2. effect[i][n] <= faults'[i]
    BY <1>5, <2>1, Counters
  <2>. QED  BY <1>5, <2>2
<1>7. \A ls : Paid(f, effect[i], faults'[i], ls)
  BY <1>6 DEF Paid
<1>8. ASSUME NEW j \in Instance, store[j] # Absent
      PROVE  Tidy(flowOf[j], store[j]) /\ Paid(flowOf[j], effect[j], faults'[j], store[j])
  <2>1. CASE j = i
    BY <1>2, <1>7, <1>8, <2>1 DEF AtRest
  <2>2. CASE j # i
    BY <1>2, <1>4, <1>5, <1>8, <2>2 DEF AtRest
  <2>. QED  BY <2>1, <2>2
<1>9. AtRest(h)'
  BY <1>3, <1>8 DEF AtRest
<1>10. RepeatsPaidByFaults'
  <2>1. ASSUME NEW j \in Instance, NEW n \in Node, flowOf[j] # NoFlow, Edge[flowOf[j]][n] # NoNode
        PROVE  effect[j][n] <= 1 + faults'[j]
    <3>1. CASE j = i
      BY <1>6, <2>1, <3>1
    <3>2. CASE j # i
      BY <1>2, <1>5, <2>1, <3>2 DEF RepeatsPaidByFaults
    <3>. QED  BY <3>1, <3>2
  <2>. QED  BY <1>3, <2>1 DEF RepeatsPaidByFaults
<1>11. Unborn' /\ AtWork(h)'
  BY <1>2, <1>3 DEF Unborn, AtWork
<1>. QED  BY <1>1, <1>9, <1>10, <1>11 DEF PInv

LEMMA ExpirePaid ==
  ASSUME IInv, PInv, NEW i \in Instance, Expire(i)
  PROVE  PInv'
<1>1. \A j \in Instance : store'[j] # Absent => store'[j] = store[j]
  BY DEF Expire, IInv, TypeOK
<1>2. UNCHANGED <<flowOf, pc, on, mem, effect, faults>>
  BY DEF Expire, handler_vars, history
<1>. QED  BY <1>1, <1>2 DEF PInv, Unborn, RepeatsPaidByFaults, AtWork, AtRest, Works

LEMMA NextPInv == OneHandler /\ Acyclic => (IInv /\ PInv /\ [Next]_vars => PInv')
<1> SUFFICES ASSUME OneHandler, Acyclic, IInv, PInv, [Next]_vars PROVE PInv'
  OBVIOUS
<1>1. CASE \E h \in Handler, i \in Instance, f \in Flow, r \in ClientRsp :
             StartFlow(h, i, f, r)
  BY <1>1, StartFlowPaid
<1>2. CASE \E h \in Handler, i \in Instance, r \in ClientRsp : PushFlow(h, i, r)
  BY <1>2, PushFlowPaid
<1>3. CASE \E h \in Handler : RunNode(h)
  BY <1>3, RunNodePaid
<1>4. CASE \E h \in Handler : SaveInstance(h)
  BY <1>4, SaveInstancePaid
<1>5. CASE Crash
  BY <1>5, CrashPaid
<1>6. CASE \E i \in Instance : Expire(i)
  BY <1>6, ExpirePaid
<1>7. CASE UNCHANGED vars
  BY <1>7 DEF vars, PInv, Unborn, RepeatsPaidByFaults, AtWork, AtRest, Works
<1>. QED  BY <1>1, <1>2, <1>3, <1>4, <1>5, <1>6, <1>7 DEF Next

LEMMA InitPInv == Init => PInv
<1> SUFFICES ASSUME Init PROVE PInv
  OBVIOUS
<1>1. /\ \A i \in Instance : flowOf[i] = NoFlow /\ store[i] = Absent
      /\ \A h \in Handler : pc[h] = "idle"
      /\ \A i \in Instance, n \in Node : effect[i][n] = 0
  BY DEF Init
<1>. QED  BY <1>1 DEF PInv, Unborn, RepeatsPaidByFaults, AtWork, AtRest

-----------------------------------------------------------------------------
(* Saves, for any flows.                                                   *)

\* A handler that keeps the instance it works on, in Redis as it was or gone.
LEMMA ProgressStep ==
  ASSUME OneHandler, IInv, KInv, NEW h \in Handler,
         store' = store, on' = on, pc[h] # "idle",
         \/ pc'[h] = "idle"
         \/ mem'[h] \in Entries /\ KeepsProgress(mem[h], mem'[h])
  PROVE  KInv'
<1>. PICK ls, ns, ms : ls = store[on[h]] /\ ns = mem[h] /\ ms = mem'[h]
  OBVIOUS
<1>1. CASE pc'[h] = "idle"
  BY <1>1, Only DEF KInv, Progress
<1>2. CASE ms \in Entries /\ KeepsProgress(ns, ms)
  <2>1. ASSUME ls # Absent
        PROVE  KeepsProgress(ls, ms)
    <3>1. ls \in Entries /\ ns \in Entries /\ KeepsProgress(ls, ns)
      BY <2>1 DEF IInv, TypeOK, KInv, Progress
    <3>. QED  BY <1>2, <3>1, ProgressTrans
  <2>. QED  BY <2>1, Only DEF KInv, Progress
<1>. QED  BY <1>1, <1>2

LEMMA RunNodeProgress ==
  ASSUME OneHandler, IInv, KInv, NEW h \in Handler, RunNode(h)
  PROVE  KInv'
<1>1. CASE \/ RunPass(h) \/ RunFormStage0(h) \/ RunFormStage1(h)
           \/ RunSave(h) \/ RunRequest(h) \/ RunMerge(h)
  <2>1. PICK e \in Entry, r \in RspPtr, w \in {"none", "form"} :
           /\ pc[h] = "run" /\ e.id = Current(h).id /\ (Current(h).completed => e.completed)
           /\ Advance(h, e, r, w) /\ UNCHANGED <<flowOf, store, faults>>
           /\ \/ effect' = effect
              \/ e.completed /\ effect' = [effect EXCEPT ![on[h]][e.id] = Inc(@)]
    BY <1>1, Executed
  <2>2. on' = on /\ mem'[h] \in Entries /\ KeepsProgress(mem[h], mem'[h])
    BY <2>1, AdvanceList
  <2>. QED  BY <2>1, <2>2, ProgressStep
<1>2. CASE \/ RunFormPanic(h) \/ RunSaveRefused(h) \/ RunSaveCommitError(h)
           \/ RunSavePanic(h) \/ RunRequestFails(h) \/ RunRequestPanic(h) \/ RunMergePanic(h)
         \/ RunUnknown(h)
  <2>1. pc[h] = "run" /\ (StepFails(h) \/ Panic(h)) /\ UNCHANGED <<flowOf, store>>
    BY <1>2, Failed
  <2>2. mem[h] \in Entries /\ KeepsProgress(mem[h], mem[h]) /\ pc \in [Handler -> {"idle", "run", "save"}]
    BY ProgressRefl DEF IInv, TypeOK
  <2>3. on' = on /\ (pc'[h] = "idle" \/ mem'[h] = mem[h])
    BY <2>1, <2>2 DEF StepFails, Panic
  <2>. QED  BY <2>1, <2>2, <2>3, ProgressStep
<1>. QED  BY <1>1, <1>2 DEF RunNode

LEMMA StartFlowProgress ==
  ASSUME OneHandler, IInv, KInv, NEW h \in Handler, NEW i \in Instance,
         NEW f \in Flow, NEW r \in ClientRsp, StartFlow(h, i, f, r)
  PROVE  KInv'
<1>1. on'[h] = i /\ store' = store /\ flowOf[i] = NoFlow
  BY DEF StartFlow, IInv, TypeOK
<1>2. store[i] = Absent
  BY <1>1, DataAssumption DEF IInv, StoreSound, Sound
<1>. QED  BY <1>1, <1>2, Only DEF KInv, Progress

LEMMA PushFlowProgress ==
  ASSUME OneHandler, IInv, KInv, NEW h \in Handler, NEW i \in Instance,
         NEW r \in ClientRsp, PushFlow(h, i, r)
  PROVE  KInv'
<1>1. store[i] # Absent /\ on'[h] = i /\ mem'[h] = store[i] /\ store' = store
  BY DEF PushFlow, IInv, TypeOK
<1>2. store[i] \in Entries
  BY <1>1 DEF IInv, TypeOK
<1>3. KeepsProgress(store[i], store[i])
  BY <1>2, ProgressRefl
<1>. QED  BY <1>1, <1>3, Only DEF KInv, Progress

LEMMA NextKInv == OneHandler => (IInv /\ KInv /\ [Next]_vars => KInv')
<1> SUFFICES ASSUME OneHandler, IInv, KInv, [Next]_vars PROVE KInv'
  OBVIOUS
<1>1. CASE \E h \in Handler, i \in Instance, f \in Flow, r \in ClientRsp :
             StartFlow(h, i, f, r)
  BY <1>1, StartFlowProgress
<1>2. CASE \E h \in Handler, i \in Instance, r \in ClientRsp : PushFlow(h, i, r)
  BY <1>2, PushFlowProgress
<1>3. CASE \E h \in Handler : RunNode(h)
  BY <1>3, RunNodeProgress
<1>4. CASE \E h \in Handler : SaveInstance(h)
  <2>1. PICK h \in Handler : SaveInstance(h)
    BY <1>4
  <2>2. pc'[h] = "idle"
    BY <2>1 DEF SaveInstance, IInv, TypeOK
  <2>. QED  BY <2>2, Only DEF KInv, Progress
<1>5. CASE Crash
  BY <1>5 DEF Crash, KInv, Progress
<1>6. CASE \E i \in Instance : Expire(i)
  <2>1. PICK i \in Instance : Expire(i)
    BY <1>6
  <2>2. \A j \in Instance : store'[j] # Absent => store'[j] = store[j]
    BY <2>1 DEF Expire, IInv, TypeOK
  <2>3. UNCHANGED <<pc, on, mem>> /\ \A h \in Handler : on[h] \in Instance
    BY <2>1 DEF Expire, handler_vars, IInv, TypeOK
  <2>. QED  BY <2>2, <2>3 DEF KInv, Progress
<1>7. CASE UNCHANGED vars
  BY <1>7 DEF vars, KInv, Progress
<1>. QED  BY <1>1, <1>2, <1>3, <1>4, <1>5, <1>6, <1>7 DEF Next

\* Only a save replaces a list in Redis by another one.
LEMMA StoreStep ==
  ASSUME IInv, [Next]_vars, NEW i \in Instance, store[i] # Absent, store'[i] # Absent,
         store'[i] # store[i]
  PROVE  \E h \in Handler : pc[h] # "idle" /\ on[h] = i /\ store'[i] = Reloaded(mem[h])
<1>1. ASSUME NEW h \in Handler, RunNode(h)
      PROVE  store' = store
  BY <1>1 DEF RunNode, RunPass, RunFormStage0, RunFormStage1, RunFormPanic, RunSave,
              RunSaveRefused, RunSaveCommitError, RunSavePanic, RunRequest,
              RunRequestFails, RunRequestPanic, RunMerge, RunMergePanic, RunUnknown, store_vars
<1>2. ASSUME NEW h \in Handler, NEW j \in Instance, NEW f \in Flow, NEW r \in ClientRsp,
             StartFlow(h, j, f, r)
      PROVE  store' = store
  BY <1>2 DEF StartFlow
<1>3. ASSUME NEW h \in Handler, NEW j \in Instance, NEW r \in ClientRsp, PushFlow(h, j, r)
      PROVE  store' = store
  BY <1>3 DEF PushFlow
<1>4. Crash \/ UNCHANGED vars => store' = store
  BY DEF Crash, vars
<1>5. ASSUME NEW j \in Instance, Expire(j)
      PROVE  store'[i] \in {Absent, store[i]}
  BY <1>5 DEF Expire, IInv, TypeOK
<1>6. PICK h \in Handler : SaveInstance(h)
  BY <1>1, <1>2, <1>3, <1>4, <1>5 DEF Next
<1>7. pc[h] = "save" /\ store' = [store EXCEPT ![on[h]] = Reloaded(mem[h])]
  BY <1>6 DEF SaveInstance
<1>. QED  BY <1>7 DEF IInv, TypeOK

LEMMA StepProgressIsKept ==
  OneHandler =>
    (IInv /\ KInv /\ [Next]_vars =>
      [\A i \in Instance :
         store[i] # Absent /\ store'[i] # Absent => KeepsProgress(store[i], store'[i])]_vars)
<1> SUFFICES ASSUME OneHandler, IInv, KInv, [Next]_vars, NEW i \in Instance,
                    store[i] # Absent, store'[i] # Absent
             PROVE  KeepsProgress(store[i], store'[i])
  OBVIOUS
<1>. PICK ls, ms : ls = store[i] /\ ms = store'[i]
  OBVIOUS
<1>1. ls \in Entries
  BY DEF IInv, TypeOK
<1>2. CASE ms = ls
  BY <1>1, <1>2, ProgressRefl
<1>3. CASE ms # ls
  <2>1. PICK h \in Handler : pc[h] # "idle" /\ on[h] = i /\ ms = Reloaded(mem[h])
    BY <1>3, StoreStep
  <2>. PICK ns : ns = mem[h]
    OBVIOUS
  <2>2. ns \in Entries /\ ms \in Entries /\ KeepsProgress(ns, ms)
    BY <2>1, ReloadedEntries, ProgressReloaded DEF IInv, TypeOK
  <2>3. KeepsProgress(ls, ns)
    BY <2>1 DEF KInv, Progress
  <2>. QED  BY <1>1, <2>2, <2>3, ProgressTrans
<1>. QED  BY <1>2, <1>3

-----------------------------------------------------------------------------
(* The theorems.                                                           *)

\* Whatever fails or expires, with one request at a time a save never takes
\* back progress (FlowController.push loads, runs and saves an instance).
THEOREM SpecProgressIsKept ==
  ASSUME OneHandler
  PROVE  Spec => ProgressIsKept
<1>1. Init => KInv
  BY DEF Init, KInv, Progress
<1>2. IInv /\ KInv /\ [Next]_vars => KInv'
  BY NextKInv
<1>3. IInv /\ KInv /\ [Next]_vars =>
        [\A i \in Instance :
           store[i] # Absent /\ store'[i] # Absent => KeepsProgress(store[i], store'[i])]_vars
  BY StepProgressIsKept
<1>. QED  BY <1>1, <1>2, <1>3, SpecIInv, PTL DEF Spec, ProgressIsKept

\* With one request at a time and flows without cycles, a node that has a
\* successor repeats its effect only after a failure of the instance: what
\* was executed is in the list that the next push goes on from (the loop of
\* flowInstance.push, saveInstance).
THEOREM SpecRepeatsPaidByFaults ==
  ASSUME OneHandler, Acyclic
  PROVE  Spec => []RepeatsPaidByFaults
<1>1. Init => PInv
  BY InitPInv
<1>2. IInv /\ PInv /\ [Next]_vars => PInv'
  BY NextPInv
<1>3. PInv => RepeatsPaidByFaults
  BY DEF PInv
<1>. QED  BY <1>1, <1>2, <1>3, SpecIInv, PTL DEF Spec
=============================================================================
