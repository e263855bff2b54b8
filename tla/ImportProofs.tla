---------------------------- MODULE ImportProofs ----------------------------
(***************************************************************************)
(* Proofs about Import, for every file, every specification and any number *)
(* of imports at the same time.                                            *)
(*                                                                         *)
(* 1. As long as the service is not restarted, the IDs of the rows of two  *)
(* imports differ. The argument composes with BatchIDProofs: every step of *)
(* an import is a step of the generator or leaves it alone, so its         *)
(* invariant IInv holds here, too; what an import holds, and what is       *)
(* stored, are numbers the generator has given out, and it gives out none  *)
(* twice.                                                                  *)
(*                                                                         *)
(* 2. What an import stores is what its sheets say (ImportedAsRead). The   *)
(* reference looks at a whole sheet at once, the code at one cell after    *)
(* the other, with what it knows by then. The second part of the module    *)
(* goes from small to large: the labels and values of one sheet, as they   *)
(* are known at each of its cells; what is carried over to the next sheet; *)
(* the rows, in the order of the cells that end them; and the import as a  *)
(* whole, whose invariant ReadInv is.                                      *)
(***************************************************************************)
EXTENDS Import, BatchIDProofs, FiniteSetTheorems, WellFoundedInduction

\* imp holds records with the fields of Idle.
Fields == {"stage", "name", "batch", "next", "sheet", "at", "handler", "rows"}
IsImport(i) == i = [f \in Fields |-> i[f]]
Imports ==
  /\ imp = [c \in Caller |-> imp[c]]
  /\ \A c \in Caller : IsImport(imp[c])

\* Import c has its number.
HasBatch(c) == imp[c].stage \in {"file", "sheet"}

\* The numbers of imports are given out, and differ from each other, from
\* those of the imports that are stored, and from one that was taken but not
\* returned yet.
BatchesGivenOut ==
  /\ \A c \in Caller : HasBatch(c) => imp[c].batch \in issued
  /\ \A s \in stored : s.batch \in issued
BatchesDiffer ==
  /\ \A c, d \in Caller : HasBatch(c) /\ HasBatch(d) /\ c # d => imp[c].batch # imp[d].batch
  /\ \A c \in Caller, s \in stored : HasBatch(c) => imp[c].batch # s.batch
TakenDiffers ==
  \A c \in Caller : imp[c].stage = "init" /\ t[c] # Nothing =>
    /\ \A d \in Caller : HasBatch(d) => imp[d].batch # t[c]
    /\ \A s \in stored : s.batch # t[c]

Batches == BatchesGivenOut /\ BatchesDiffer /\ TakenDiffers

RowInv == Imports /\ (~restarted => Batches /\ ~clashed)

-----------------------------------------------------------------------------
\* The part of an import in the generator is a step of it.
LEMMA StepOfGenerator == [ImportNext]_all_vars => [Next]_vars
<1> SUFFICES ASSUME [ImportNext]_all_vars PROVE [Next]_vars
  OBVIOUS
<1>1. ASSUME NEW c \in Caller, NEW name, Check(c, name)
      PROVE  UNCHANGED vars
  BY <1>1 DEF Check
<1>2. ASSUME NEW c \in Caller, OnInit(c)
      PROVE  Next
  BY <1>2 DEF OnInit, Next
<1>3. ASSUME NEW c \in Caller, GetBatchID(c)
      PROVE  Next
  BY <1>3 DEF GetBatchID, Next
<1>4. ASSUME NEW c \in Caller, BatchReturned(c)
      PROVE  Next
  BY <1>4 DEF BatchReturned, Next
<1>5. ASSUME NEW c \in Caller, NextSheet(c) \/ ReadCell(c) \/ SheetDone(c) \/ OnOver(c) \/ Fault(c)
      PROVE  UNCHANGED vars
  BY <1>5 DEF NextSheet, ReadCell, SheetDone, OnOver, Fault
<1>6. ASSUME NEW n \in Number, SetClock(n)
      PROVE  Next
  BY <1>6 DEF Next
<1>7. RestartService => Next
  BY DEF RestartService, Next
<1>8. UNCHANGED all_vars => UNCHANGED vars
  BY DEF all_vars
<1>. QED
  BY <1>1, <1>2, <1>3, <1>4, <1>5, <1>6, <1>7, <1>8 DEF ImportNext

\* Imports that end, or go on with the number they have, disturb nothing; an
\* import is stored by leaving its number to the row of stored.
LEMMA ImportGoesOn ==
  ASSUME RowInv, NEW c \in Caller, UNCHANGED <<vars, restarted, clashed>>,
         NEW i, IsImport(i), imp' = [imp EXCEPT ![c] = i],
         \/ i.stage \notin {"init", "file", "sheet"}
         \/ i.stage \in {"file", "sheet"} /\ HasBatch(c) /\ i.batch = imp[c].batch,
         stored' = stored
  PROVE  RowInv'
<1>1. /\ Imports'
      /\ \A d \in Caller : imp'[d] = IF d = c THEN i ELSE imp[d]
  BY DEF RowInv, Imports
<1>2. t' = t /\ issued' = issued
  BY DEF vars
<1>3. ASSUME Batches
      PROVE  Batches'
  <2>1. \A d \in Caller : HasBatch(d)' => HasBatch(d) /\ imp'[d].batch = imp[d].batch
    BY <1>1 DEF HasBatch
  <2>2. \A d \in Caller : imp'[d].stage = "init" => imp[d].stage = "init"
    BY <1>1
  <2>3. BatchesGivenOut' /\ BatchesDiffer'
    BY <1>2, <1>3, <2>1 DEF Batches, BatchesGivenOut, BatchesDiffer
  <2>4. TakenDiffers'
    BY <1>2, <1>3, <2>1, <2>2 DEF Batches, TakenDiffers
  <2>. QED  BY <2>3, <2>4 DEF Batches
<1>. QED  BY <1>1, <1>3 DEF RowInv

LEMMA IdleIsImport == IsImport(Idle) /\ Idle.stage = "idle"
BY DEF IsImport, Idle, Fields

LEMMA FailedStep ==
  ASSUME RowInv, NEW c \in Caller, UNCHANGED <<vars, restarted, clashed>>, Failed(c)
  PROVE  RowInv'
BY IdleIsImport, ImportGoesOn DEF Failed

LEMMA CheckStep ==
  ASSUME RowInv, NEW c \in Caller, NEW name \in DOMAIN File, Check(c, name)
  PROVE  RowInv'
<1>1. PICK i : i = [Idle EXCEPT !.stage = "checked", !.name = name]
  OBVIOUS
<1>2. IsImport(i) /\ i.stage = "checked"
  BY <1>1 DEF Idle, IsImport, Fields
<1>3. imp' = [imp EXCEPT ![c] = i] /\ UNCHANGED <<vars, stored, restarted, clashed>>
  BY <1>1 DEF Check
<1>. QED  BY <1>2, <1>3, ImportGoesOn

\* A call that has just begun has taken no number.
LEMMA OnInitStep ==
  ASSUME IInv, RowInv, NEW c \in Caller, OnInit(c)
  PROVE  RowInv'
<1>1. /\ imp[c].stage = "checked"
      /\ imp' = [imp EXCEPT ![c].stage = "init", ![c].handler = NewHandler(Req(c).spec)]
      /\ t' = [t EXCEPT ![c] = Nothing]
      /\ UNCHANGED <<issued, stored, restarted, clashed>>
  BY DEF OnInit, Call
<1>2. PICK handler : handler = NewHandler(Req(c).spec)
  OBVIOUS
<1>3. PICK i : i = [imp[c] EXCEPT !.stage = "init", !.handler = handler]
  OBVIOUS
<1>4. IsImport(i) /\ i.stage = "init"
  BY <1>3 DEF RowInv, Imports, IsImport, Fields
<1>5. imp' = [imp EXCEPT ![c] = i]
  BY <1>1, <1>2, <1>3
<1>6. /\ Imports'
      /\ \A d \in Caller : imp'[d] = IF d = c THEN i ELSE imp[d]
  BY <1>4, <1>5 DEF RowInv, Imports
<1>7. \A d \in Caller : HasBatch(d)' => d # c /\ HasBatch(d) /\ imp'[d] = imp[d]
  BY <1>4, <1>6 DEF HasBatch
<1>8. ASSUME Batches
      PROVE  Batches'
  <2>1. issued' = issued /\ stored' = stored
    BY <1>1
  <2>2. BatchesGivenOut' /\ BatchesDiffer'
    BY <1>7, <1>8, <2>1 DEF Batches, BatchesGivenOut, BatchesDiffer
  <2>3. \A d \in Caller : imp'[d].stage = "init" /\ t'[d] # Nothing =>
          imp[d].stage = "init" /\ t[d] # Nothing /\ t'[d] = t[d]
    <3>1. \A d \in Caller : t'[d] = IF d = c THEN Nothing ELSE t[d]
      BY <1>1 DEF IInv, TypeOK
    <3>. QED  BY <1>6, <3>1
  <2>4. TakenDiffers'
    BY <1>7, <1>8, <2>1, <2>3 DEF Batches, TakenDiffers
  <2>. QED  BY <2>2, <2>4 DEF Batches
<1>. QED  BY <1>1, <1>6, <1>8 DEF RowInv

\* Take gives out a number that was not given out before.
LEMMA GetBatchIDStep ==
  ASSUME IInv, RowInv, NEW c \in Caller, GetBatchID(c)
  PROVE  RowInv'
<1>1. UNCHANGED <<imp, stored, restarted, clashed>>
  BY DEF GetBatchID, import_vars
<1>2. \A d \in Caller : HasBatch(d)' <=> HasBatch(d)
  BY <1>1 DEF HasBatch
<1>3. ASSUME Batches, Take(c)
      PROVE  Batches'
  <2>1. number \notin issued /\ issued' = issued \cup {number} /\ t' = [t EXCEPT ![c] = number]
    BY <1>3 DEF Take, Goto, IInv, MutexInv
  <2>2. BatchesGivenOut' /\ BatchesDiffer'
    BY <1>1, <1>2, <1>3, <2>1 DEF Batches, BatchesGivenOut, BatchesDiffer
  <2>3. TakenDiffers'
    BY <1>1, <1>2, <1>3, <2>1 DEF Batches, BatchesGivenOut, TakenDiffers, IInv, TypeOK
  <2>. QED  BY <2>2, <2>3 DEF Batches
<1>4. ASSUME Batches, ~Take(c)
      PROVE  Batches'
  <2>1. UNCHANGED <<issued, t>>
    BY <1>4 DEF GetBatchID, Lock, ReadClock, Advance
  <2>. QED  BY <1>1, <1>2, <1>4, <2>1 DEF Batches, BatchesGivenOut, BatchesDiffer, TakenDiffers
<1>. QED  BY <1>1, <1>3, <1>4 DEF RowInv, Imports

\* The number that was taken becomes that of the import.
LEMMA BatchReturnedStep ==
  ASSUME IInv, RowInv, NEW c \in Caller, BatchReturned(c)
  PROVE  RowInv'
<1>1. /\ imp[c].stage = "init" /\ pc[c] = "unlock"
      /\ imp' = [imp EXCEPT ![c].stage = "file", ![c].batch = t[c]]
      /\ UNCHANGED <<t, issued, stored, restarted, clashed>>
  BY DEF BatchReturned, Unlock, Goto
<1>2. PICK i : i = [imp[c] EXCEPT !.stage = "file", !.batch = t[c]]
  OBVIOUS
<1>3. IsImport(i) /\ i.stage = "file" /\ i.batch = t[c]
  BY <1>2 DEF RowInv, Imports, IsImport, Fields
<1>4. imp' = [imp EXCEPT ![c] = i]
  BY <1>1, <1>2
<1>5. /\ Imports'
      /\ \A d \in Caller : imp'[d] = IF d = c THEN i ELSE imp[d]
  BY <1>3, <1>4 DEF RowInv, Imports
<1>6. t[c] # Nothing /\ t[c] \in issued
  BY <1>1 DEF IInv, HeldInv
<1>7. \A d \in Caller : HasBatch(d)' <=> d = c \/ HasBatch(d)
  BY <1>1, <1>3, <1>5 DEF HasBatch
<1>8. ASSUME Batches
      PROVE  Batches'
  <2>1. issued' = issued /\ stored' = stored /\ t' = t
    BY <1>1
  <2>2. /\ imp'[c].batch = t[c]
        /\ \A d \in Caller : d # c => imp'[d].batch = imp[d].batch
    BY <1>3, <1>5
  <2>3. BatchesGivenOut'
    BY <1>6, <1>7, <1>8, <2>1, <2>2 DEF Batches, BatchesGivenOut
  <2>4. /\ \A d \in Caller : HasBatch(d) => imp[d].batch # t[c]
        /\ \A s \in stored : s.batch # t[c]
    BY <1>1, <1>6, <1>8 DEF Batches, TakenDiffers
  <2>5. BatchesDiffer'
    BY <1>7, <1>8, <2>1, <2>4, <2>2 DEF Batches, BatchesDiffer
  <2>6. TakenDiffers'
    <3> SUFFICES ASSUME NEW d \in Caller, imp'[d].stage = "init", t[d] # Nothing
                 PROVE  /\ \A e \in Caller : HasBatch(e)' => imp'[e].batch # t[d]
                        /\ \A s \in stored : s.batch # t[d]
      BY <1>1 DEF TakenDiffers
    <3>1. d # c /\ imp[d].stage = "init"
      BY <1>3, <1>5
    <3>2. t[d] # t[c]
      BY <3>1 DEF IInv, HeldInv
    <3>. QED  BY <1>3, <1>5, <1>7, <1>8, <3>1, <3>2 DEF Batches, TakenDiffers
  <2>. QED  BY <2>3, <2>5, <2>6 DEF Batches
<1>. QED  BY <1>1, <1>5, <1>8 DEF RowInv

LEMMA NextSheetStep ==
  ASSUME RowInv, NEW c \in Caller, NextSheet(c)
  PROVE  RowInv'
<1>1. imp[c].stage = "file" /\ UNCHANGED <<vars, restarted, clashed>>
  BY DEF NextSheet
<1>2. PICK req, n, selector, reset :
        /\ req = Req(c) /\ n = imp[c].next + 1 /\ selector = Selectors(req)[n]
        /\ reset = ResetAll(imp[c].handler)
  OBVIOUS
<1>3. \/ Failed(c)
      \/ imp' = [imp EXCEPT ![c].next = n] /\ stored' = stored
      \/ /\ stored' = stored
         /\ imp' = [imp EXCEPT ![c].next = n, ![c].stage = "sheet", ![c].at = <<0, 0>>,
                        ![c].sheet = SheetOf(req, selector), ![c].handler = reset]
  BY <1>2 DEF NextSheet
<1>4. CASE imp' = [imp EXCEPT ![c].next = n] /\ stored' = stored
  <2>1. PICK i : i = [imp[c] EXCEPT !.next = n]
    OBVIOUS
  <2>2. IsImport(i) /\ i.stage = "file" /\ i.batch = imp[c].batch
    BY <1>1, <2>1 DEF RowInv, Imports, IsImport, Fields
  <2>. QED  BY <1>1, <1>4, <2>1, <2>2, ImportGoesOn DEF HasBatch
<1>5. CASE /\ stored' = stored
           /\ imp' = [imp EXCEPT ![c].next = n, ![c].stage = "sheet", ![c].at = <<0, 0>>,
                          ![c].sheet = SheetOf(req, selector), ![c].handler = reset]
  <2>1. PICK i : i = [imp[c] EXCEPT !.next = n, !.stage = "sheet", !.at = <<0, 0>>,
                                    !.sheet = SheetOf(req, selector), !.handler = reset]
    OBVIOUS
  <2>2. IsImport(i) /\ i.stage = "sheet" /\ i.batch = imp[c].batch
    BY <2>1 DEF RowInv, Imports, IsImport, Fields
  <2>3. imp' = [imp EXCEPT ![c] = i]
    BY <1>5, <2>1
  <2>. QED  BY <1>1, <1>5, <2>2, <2>3, ImportGoesOn DEF HasBatch
<1>. QED  BY <1>1, <1>3, <1>4, <1>5, FailedStep

\* No ID of a row that is stored has the date of another import's number.
LEMMA NoIDTaken ==
  ASSUME IInv, RowInv, ~restarted, NEW c \in Caller, HasBatch(c), NEW n
  PROVE  RowID(imp[c].batch, n) \notin TakenIDs
<1> SUFFICES ASSUME NEW s \in stored, NEW k \in DOMAIN s.rows,
                    RowID(imp[c].batch, n) = RowID(s.batch, k)
             PROVE  FALSE
  BY DEF TakenIDs
<1>1. Format[imp[c].batch] = Format[s.batch]
  BY DEF RowID
<1>2. imp[c].batch \in Number /\ s.batch \in Number /\ imp[c].batch # s.batch
  BY DEF RowInv, Batches, BatchesGivenOut, BatchesDiffer, IInv, TypeOK
<1>. QED  BY <1>1, <1>2, FormatAssumption

LEMMA ReadCellStep ==
  ASSUME IInv, RowInv, NEW c \in Caller, ReadCell(c)
  PROVE  RowInv'
<1>1. imp[c].stage = "sheet" /\ HasBatch(c) /\ UNCHANGED <<vars, restarted>>
  BY DEF ReadCell, HasBatch
<1>2. PICK next, n :
        /\ IsImport(next) /\ next.stage = "sheet" /\ next.batch = imp[c].batch
        /\ \/ imp' = [imp EXCEPT ![c] = next] /\ UNCHANGED <<stored, clashed>>
           \/ HandleRow(c, RowID(imp[c].batch, n), next)
  <2> DEFINE i == imp[c]
             sheet == Req(c).sheets[i.sheet]
  <2>1. PICK p, read :
          /\ p = NextCell(sheet, i.at)
          /\ read = HandleCell(i.handler, Req(c).spec, i.at[1], p, sheet[p[1]][p[2]])
    OBVIOUS
  <2>2. PICK rows :
          rows = IF read.row = <<>> THEN i.rows
                 ELSE Append(i.rows, [visit |-> i.next, values |-> read.row[1]])
    OBVIOUS
  <2>3. PICK next : next = [i EXCEPT !.at = p, !.handler = read.state, !.rows = rows]
    OBVIOUS
  <2>4. IsImport(next) /\ next.stage = "sheet" /\ next.batch = imp[c].batch
    BY <1>1, <2>3 DEF RowInv, Imports, IsImport, Fields
  <2>5. \/ imp' = [imp EXCEPT ![c] = next] /\ UNCHANGED <<stored, clashed>>
        \/ HandleRow(c, RowID(imp[c].batch, Len(i.rows) + 1), next)
    BY <2>1, <2>2, <2>3 DEF ReadCell
  <2>. QED  BY <2>4, <2>5
<1>3. CASE imp' = [imp EXCEPT ![c] = next] /\ UNCHANGED <<stored, clashed>>
  BY <1>1, <1>2, <1>3, ImportGoesOn
<1>4. CASE HandleRow(c, RowID(imp[c].batch, n), next) /\ restarted
  <2>1. PICK i : IsImport(i) /\ imp' = [imp EXCEPT ![c] = i]
    BY <1>2, <1>4, IdleIsImport DEF HandleRow, Failed
  <2>2. Imports'
    BY <2>1 DEF RowInv, Imports
  <2>. QED  BY <1>1, <1>4, <2>2 DEF RowInv
<1>5. CASE HandleRow(c, RowID(imp[c].batch, n), next) /\ ~restarted
  <2>1. imp' = [imp EXCEPT ![c] = next] /\ UNCHANGED <<stored, clashed>>
    BY <1>1, <1>5, NoIDTaken DEF HandleRow
  <2>. QED  BY <1>1, <1>2, <2>1, ImportGoesOn
<1>. QED  BY <1>2, <1>3, <1>4, <1>5

LEMMA SheetDoneStep ==
  ASSUME RowInv, NEW c \in Caller, SheetDone(c)
  PROVE  RowInv'
<1>1. PICK i : i = [imp[c] EXCEPT !.stage = "file"]
  OBVIOUS
<1>2. IsImport(i) /\ i.stage = "file" /\ i.batch = imp[c].batch
  BY <1>1 DEF RowInv, Imports, IsImport, Fields
<1>3. /\ imp' = [imp EXCEPT ![c] = i] /\ HasBatch(c)
      /\ UNCHANGED <<vars, stored, restarted, clashed>>
  BY <1>1 DEF SheetDone, HasBatch
<1>. QED  BY <1>2, <1>3, ImportGoesOn

\* What is stored has the number of the import that ends.
LEMMA OnOverStep ==
  ASSUME IInv, RowInv, NEW c \in Caller, OnOver(c)
  PROVE  RowInv'
<1>1. /\ HasBatch(c) /\ stored' = stored \cup {Committed(c)}
      /\ imp' = [imp EXCEPT ![c] = Idle]
      /\ UNCHANGED <<vars, restarted, clashed>>
  BY DEF OnOver, HasBatch
<1>2. t' = t /\ issued' = issued
  BY <1>1 DEF vars
<1>3. /\ Imports'
      /\ \A d \in Caller : imp'[d] = IF d = c THEN Idle ELSE imp[d]
  BY <1>1, IdleIsImport DEF RowInv, Imports
<1>4. \A d \in Caller : HasBatch(d)' => d # c /\ HasBatch(d) /\ imp'[d] = imp[d]
  BY <1>3, IdleIsImport DEF HasBatch
<1>5. \A s \in stored' : s \in stored \/ s.batch = imp[c].batch
  BY <1>1 DEF Committed
<1>6. ASSUME Batches
      PROVE  Batches'
  <2>1. BatchesGivenOut'
    BY <1>1, <1>2, <1>4, <1>5, <1>6 DEF Batches, BatchesGivenOut
  <2>2. BatchesDiffer'
    BY <1>1, <1>4, <1>5, <1>6 DEF Batches, BatchesDiffer
  <2>3. TakenDiffers'
    <3>1. \A d \in Caller : imp'[d].stage = "init" => imp[d].stage = "init"
      BY <1>3, IdleIsImport
    <3>. QED  BY <1>1, <1>2, <1>4, <1>5, <1>6, <3>1 DEF Batches, TakenDiffers
  <2>. QED  BY <2>1, <2>2, <2>3 DEF Batches
<1>. QED  BY <1>1, <1>3, <1>6 DEF RowInv

LEMMA FaultStep ==
  ASSUME RowInv, NEW c \in Caller, Fault(c)
  PROVE  RowInv'
<1>1. Failed(c) /\ UNCHANGED <<vars, restarted, clashed>>
  BY DEF Fault, Failed
<1>. QED  BY <1>1, FailedStep

LEMMA NextRowInv == IInv /\ RowInv /\ [ImportNext]_all_vars => RowInv'
<1> SUFFICES ASSUME IInv, RowInv, [ImportNext]_all_vars PROVE RowInv'
  OBVIOUS
<1>1. ASSUME NEW c \in Caller, \E name \in DOMAIN File : Check(c, name)
      PROVE  RowInv'
  BY <1>1, CheckStep
<1>2. ASSUME NEW c \in Caller, OnInit(c) \/ GetBatchID(c) \/ BatchReturned(c)
      PROVE  RowInv'
  BY <1>2, OnInitStep, GetBatchIDStep, BatchReturnedStep
<1>3. ASSUME NEW c \in Caller, NextSheet(c) \/ ReadCell(c) \/ SheetDone(c) \/ OnOver(c) \/ Fault(c)
      PROVE  RowInv'
  BY <1>3, NextSheetStep, ReadCellStep, SheetDoneStep, OnOverStep, FaultStep
<1>4. ASSUME \/ \E n \in Number : SetClock(n) /\ UNCHANGED import_vars
             \/ UNCHANGED all_vars
      PROVE  RowInv'
  <2>1. UNCHANGED <<imp, stored, restarted, clashed, t, issued>>
    BY <1>4 DEF SetClock, caller_vars, import_vars, all_vars, vars
  <2>. QED  BY <2>1 DEF RowInv, Imports, Batches, BatchesGivenOut, BatchesDiffer, TakenDiffers, HasBatch
<1>5. CASE RestartService
  <2>1. restarted' /\ imp' = [c \in Caller |-> Idle]
    BY <1>5 DEF RestartService
  <2>. QED  BY <2>1, IdleIsImport DEF RowInv, Imports
<1>. QED  BY <1>1, <1>2, <1>3, <1>4, <1>5 DEF ImportNext

\* No import is turned down because of an ID another one has used, unless the
\* service was restarted (getRowID in esi, GetBatchID).
THEOREM SpecNoIDClash == ImportSpec => []NoIDClash
<1>1. ImportInit => IInv /\ RowInv
  <2>1. ImportInit => IInv
    BY InitIInv DEF ImportInit
  <2>2. ImportInit => RowInv
    BY IdleIsImport
       DEF ImportInit, RowInv, Imports, Batches, BatchesGivenOut, BatchesDiffer,
           TakenDiffers, HasBatch
  <2>. QED  BY <2>1, <2>2
<1>2. IInv /\ RowInv /\ [ImportNext]_all_vars => IInv' /\ RowInv'
  BY StepOfGenerator, NextIInv, NextRowInv
<1>3. RowInv => NoIDClash
  BY DEF RowInv, NoIDClash
<1>. QED  BY <1>1, <1>2, <1>3, PTL DEF ImportSpec

\* With imports as its callers, the generator is still a source of unique,
\* growing IDs (GetBatchID).
THEOREM ImportImplementsIdSource == ImportSpec => ImplementsIdSource
<1>1. ImportInit => Init
  BY DEF ImportInit
<1>2. ImportSpec => Spec
  BY <1>1, StepOfGenerator, PTL DEF ImportSpec, Spec
<1>. QED  BY <1>2, SpecImplementsIdSource

-----------------------------------------------------------------------------
(* Numbers.                                                                  *)

\* A set of numbers has a smallest one, and a largest one if it has a bound.
LEMMA Smallest ==
  ASSUME NEW S \in SUBSET Nat, S # {}
  PROVE  \E m \in S : \A n \in S : m <= n
<1>1. PICK m \in S : \A n \in S : ~(<<n, m>> \in OpToRel(<, Nat))
  BY NatLessThanWellFounded, WFMin
<1>2. \A n \in S : ~(n < m)
  BY <1>1 DEF OpToRel
<1>. QED  BY <1>2

LEMMA Largest ==
  ASSUME NEW S \in SUBSET Nat, S # {}, NEW b \in Nat, \A n \in S : n <= b
  PROVE  \E m \in S : \A n \in S : n <= m
<1> DEFINE T == {k \in Nat : \E n \in S : n + k = b}
<1>2. \A n \in S : \E k \in T : n + k = b
  <2> TAKE n \in S
  <2>1. b - n \in Nat /\ n + (b - n) = b
    OBVIOUS
  <2>. QED  BY <2>1
<1>3. T \in SUBSET Nat /\ T # {}
  BY <1>2
<1>4. PICK k \in T : \A j \in T : k <= j
  BY <1>3, Smallest
<1>5. PICK m \in S : m + k = b
  OBVIOUS
<1>6. \A n \in S : n <= m
  BY <1>2, <1>3, <1>4, <1>5
<1>. QED  BY <1>6

LEMMA MinOfIsLeast ==
  ASSUME NEW S \in SUBSET Nat, S # {}
  PROVE  MinOf(S) \in S /\ \A n \in S : MinOf(S) <= n
BY Smallest DEF MinOf

LEMMA MaxOfIsLargest ==
  ASSUME NEW S \in SUBSET Nat, S # {}, NEW b \in Nat, \A n \in S : n <= b
  PROVE  MaxOf(S) \in S /\ \A n \in S : n <= MaxOf(S)
BY Largest DEF MaxOf

LEMMA WithIs ==
  ASSUME NEW f, NEW x, NEW v
  PROVE  /\ DOMAIN With(f, x, v) = DOMAIN f \cup {x}
         /\ With(f, x, v)[x] = v
         /\ \A y \in DOMAIN f : y # x => With(f, x, v)[y] = f[y]
BY DEF With

-----------------------------------------------------------------------------
(* Cells and their order.                                                    *)

LEMMA CellsAre ==
  ASSUME NEW sheet, IsSheet(sheet)
  PROVE  /\ CellsOf(sheet) \subseteq (Nat \ {0}) \X (Nat \ {0})
         /\ \A r, c : <<r, c>> \in CellsOf(sheet) <=> r \in DOMAIN sheet /\ c \in DOMAIN sheet[r]
         /\ \A r \in DOMAIN sheet : sheet[r] # <<>> <=> <<r, 1>> \in CellsOf(sheet)
         /\ \A r, c : <<r, c>> \in CellsOf(sheet) => \A d \in 1..c : <<r, d>> \in CellsOf(sheet)
         /\ \A r, c : <<r, c>> \in CellsOf(sheet) => \A d \in 1..r : d \in DOMAIN sheet
<1>1. \A r, c : <<r, c>> \in CellsOf(sheet) <=> r \in DOMAIN sheet /\ c \in DOMAIN sheet[r]
  BY DEF CellsOf
<1>2. \A p \in CellsOf(sheet) : p = <<p[1], p[2]>> /\ p[1] \in DOMAIN sheet /\ p[2] \in DOMAIN sheet[p[1]]
  BY DEF CellsOf
<1>3. DOMAIN sheet = 1..Len(sheet) /\ Len(sheet) \in Nat
  BY DEF IsSheet, IsSeq
<1>4. \A r \in DOMAIN sheet : DOMAIN sheet[r] = 1..Len(sheet[r]) /\ Len(sheet[r]) \in Nat
  BY DEF IsSheet, IsSeq
<1>5. \A r \in DOMAIN sheet : sheet[r] # <<>> <=> 1 \in DOMAIN sheet[r]
  BY <1>4
<1>. QED  BY <1>1, <1>2, <1>3, <1>4, <1>5

Place == Nat \X Nat

LEMMA InOrder ==
  ASSUME NEW p \in Place, NEW q \in Place
  PROVE  /\ Before(p, q) \/ Before(q, p) \/ p = q
         /\ ~(Before(p, q) /\ Before(q, p))
         /\ ~Before(p, p)
         /\ \A r \in Place : Before(p, q) /\ ~Before(r, q) => Before(p, r)
         /\ \A r \in Place : ~Before(q, p) /\ Before(q, r) => Before(p, r)
BY DEF Before, Place

LEMMA NextCellIsNext ==
  ASSUME NEW sheet, IsSheet(sheet), NEW at \in Place, Later(sheet, at) # {}
  PROVE  LET p == NextCell(sheet, at) IN
         /\ p \in CellsOf(sheet) /\ Before(at, p)
         /\ \A q \in CellsOf(sheet) : Before(at, q) <=> ~Before(q, p)
<1> DEFINE L == Later(sheet, at)
           rows == {q[1] : q \in L}
<1>1. L \subseteq Place /\ L \subseteq CellsOf(sheet)
  BY CellsAre DEF Later, Place
<1>2. PICK r \in rows : \A q \in L : r <= q[1]
  <2>1. rows \in SUBSET Nat /\ rows # {}
    BY <1>1 DEF Place
  <2>2. PICK r \in rows : \A n \in rows : r <= n
    BY <2>1, Smallest
  <2>. QED  BY <2>2
<1> DEFINE cols == {k \in Nat : \E q \in L : q[1] = r /\ q[2] = k}
<1>3. PICK k \in cols : \A q \in L : q[1] = r => k <= q[2]
  <2>1. cols \in SUBSET Nat /\ cols # {}
    BY <1>1, <1>2 DEF Place
  <2>2. PICK k \in cols : \A n \in cols : k <= n
    BY <2>1, Smallest
  <2>. QED  BY <1>1, <2>2 DEF Place
<1>4. PICK p \in L : p[1] = r /\ p[2] = k
  BY <1>3
<1>5. \A q \in L : ~Before(q, p)
  BY <1>1, <1>2, <1>3, <1>4 DEF Before, Place
<1>6. NextCell(sheet, at) \in L /\ \A q \in L : ~Before(q, NextCell(sheet, at))
  <2> HIDE DEF L
  <2>1. \E q \in L : \A s \in L : ~Before(s, q)
    BY <1>4, <1>5
  <2>2. NextCell(sheet, at) = CHOOSE q \in L : \A s \in L : ~Before(s, q)
    BY DEF NextCell, L
  <2>. QED  BY <2>1, <2>2
<1>7. \A q \in CellsOf(sheet) : Before(at, q) <=> q \in L
  BY DEF Later
<1>8. \A q \in CellsOf(sheet) : ~Before(q, NextCell(sheet, at)) => Before(at, q)
  BY <1>1, <1>6, <1>7, CellsAre, InOrder DEF Place
<1>. QED  BY <1>1, <1>6, <1>7, <1>8

-----------------------------------------------------------------------------
(* What a sheet says: labels, and the labels of cells.                       *)

\* The label of a cell is one of the fields it may be the label of.
LEMMA LabelFieldIs ==
  ASSUME NEW spec, IsSpec(spec), NEW cell, LabelFields(spec, cell) # {}
  PROVE  LabelField(spec, cell) \in LabelFields(spec, cell)
<1> DEFINE F == LabelFields(spec, cell)
           D(f) == spec.fields[f].labels[cell]
           T == {n \in Nat : \E f \in F : D(f) = n}
           C == {f \in F : \A g \in F : D(f) <= D(g)}
<1>1. F \subseteq Nat /\ \A f \in F : D(f) \in Nat
  BY DEF LabelFields, IsSpec, IsSeq, IsField
<1> HIDE DEF F, D
<1>2. T \in SUBSET Nat /\ T # {}
  BY <1>1 DEF F
<1>3. PICK n \in T : \A m \in T : n <= m
  BY <1>2, Smallest
<1>4. C # {} /\ C \in SUBSET Nat
  <2>1. PICK f \in F : D(f) = n
    OBVIOUS
  <2>2. \A g \in F : D(f) <= D(g)
    BY <1>1, <1>3, <2>1
  <2>3. f \in C
    BY <2>2
  <2>. QED  BY <1>1, <2>3
<1>5. MinOf(C) \in C
  BY <1>4, MinOfIsLeast
<1>6. LabelField(spec, cell) = MinOf(C)
  BY DEF LabelField, C, F, D
<1>. QED  BY <1>5, <1>6 DEF F

LEMMA LabelsAre ==
  ASSUME NEW spec, IsSpec(spec), NEW sheet, IsSheet(sheet), NEW q \in Labels(spec, sheet)
  PROVE  /\ q \in CellsOf(sheet) /\ q = <<q[1], q[2]>> /\ q[1] \in Nat \ {0} /\ q[2] \in Nat \ {0}
         /\ Label(spec, sheet, q) \in LabelFields(spec, sheet[q[1]][q[2]])
         /\ Label(spec, sheet, q) \in DOMAIN spec.fields
         /\ spec.maxHeader = 0 \/ q[1] <= spec.maxHeader + 1
<1>1. q \in CellsOf(sheet) /\ IsLabel(spec, q[1], sheet[q[1]][q[2]])
  BY DEF Labels
<1>2. q = <<q[1], q[2]>> /\ q[1] \in Nat \ {0} /\ q[2] \in Nat \ {0}
  BY <1>1, CellsAre
<1>3. Label(spec, sheet, q) \in LabelFields(spec, sheet[q[1]][q[2]])
  BY <1>1, LabelFieldIs DEF IsLabel, Label
<1>4. spec.maxHeader = 0 \/ q[1] <= spec.maxHeader + 1
  BY <1>1, <1>2 DEF IsLabel, MayBeLabel, IsSpec
<1>. QED  BY <1>1, <1>2, <1>3, <1>4 DEF LabelFields

Heads(spec, sheet, q) == q \in Labels(spec, sheet) /\ HeadsColumn(spec, sheet, q)
RangeAt(spec, sheet, q) == spec.fields[Label(spec, sheet, q)].range

\* The heads of columns above a cell that count for it.
LastHeader(spec, p) == IF spec.maxHeader = 0 THEN p[1] ELSE spec.maxHeader + 1
HeadsAbove(spec, sheet, p) ==
  {q \in Labels(spec, sheet) :
     /\ q[2] = p[2] /\ q[1] < p[1] /\ HeadsColumn(spec, sheet, q)
     /\ LastHeader(spec, p) <= p[1] /\ \A r \in q[1]..LastHeader(spec, p) : sheet[r] # <<>>}
\* The cell to the left of p is a label whose values are on its right.
Left(p) == <<p[1], p[2] - 1>>
LabelsLeft(spec, sheet, p) == Left(p) \in Labels(spec, sheet) /\ ~HeadsColumn(spec, sheet, Left(p))

LEMMA LabelOfIs ==
  ASSUME NEW spec, NEW sheet, NEW p
  PROVE  LabelOf(spec, sheet, p) =
           IF LabelsLeft(spec, sheet, p) THEN {Left(p)}
           ELSE {q \in HeadsAbove(spec, sheet, p) : \A r \in HeadsAbove(spec, sheet, p) : r[1] <= q[1]}
<1> DEFINE left == {q \in Labels(spec, sheet) : q = <<p[1], p[2] - 1>> /\ ~HeadsColumn(spec, sheet, q)}
           from == IF spec.maxHeader = 0 THEN p[1] ELSE spec.maxHeader + 1
           above == {q \in Labels(spec, sheet) :
                  /\ q[2] = p[2] /\ q[1] < p[1] /\ HeadsColumn(spec, sheet, q)
                  /\ from <= p[1] /\ \A r \in q[1]..from : sheet[r] # <<>>}
<1>1. LabelOf(spec, sheet, p) = IF left # {} THEN left ELSE {q \in above : \A r \in above : r[1] <= q[1]}
  BY DEF LabelOf
<1>2. above = HeadsAbove(spec, sheet, p)
  BY DEF HeadsAbove, LastHeader
<1>3. left = IF LabelsLeft(spec, sheet, p) THEN {Left(p)} ELSE {}
  BY DEF LabelsLeft, Left
<1> HIDE DEF left, above
<1>. QED  BY <1>1, <1>2, <1>3

\* A cell has one label at most, which comes before it.
LEMMA OneLabel ==
  ASSUME NEW spec, IsSpec(spec), NEW sheet, IsSheet(sheet), NEW p \in CellsOf(sheet),
         NEW q \in LabelOf(spec, sheet, p)
  PROVE  /\ q \in Labels(spec, sheet) /\ LabelOf(spec, sheet, p) = {q}
         /\ FieldAt(spec, sheet, p) = Label(spec, sheet, q)
         /\ HeadsColumn(spec, sheet, q) => q[1] < p[1]
<1>1. p = <<p[1], p[2]>> /\ p[1] \in Nat \ {0} /\ p[2] \in Nat \ {0}
  BY CellsAre
<1>2. LabelOf(spec, sheet, p) = {q} /\ q \in Labels(spec, sheet) /\ (HeadsColumn(spec, sheet, q) => q[1] < p[1])
  <2>1. CASE LabelsLeft(spec, sheet, p)
    BY <2>1, LabelOfIs DEF LabelsLeft
  <2>2. CASE ~LabelsLeft(spec, sheet, p)
    <3>1. /\ q \in HeadsAbove(spec, sheet, p)
          /\ \A r \in HeadsAbove(spec, sheet, p) : r[1] <= q[1]
          /\ \A s \in LabelOf(spec, sheet, p) : s \in HeadsAbove(spec, sheet, p) /\ q[1] <= s[1]
      BY <2>2, LabelOfIs
    <3>2. \A s \in HeadsAbove(spec, sheet, p) :
            s \in Labels(spec, sheet) /\ s = <<s[1], s[2]>> /\ s[1] \in Nat /\ s[2] = p[2] /\ s[1] < p[1]
      BY LabelsAre DEF HeadsAbove
    <3>3. \A s \in LabelOf(spec, sheet, p) : s[1] = q[1] /\ s[2] = q[2]
      BY <3>1, <3>2
    <3>4. \A s \in LabelOf(spec, sheet, p) : s = q
      BY <3>1, <3>2, <3>3
    <3>. QED  BY <3>1, <3>2, <3>4
  <2>. QED  BY <2>1, <2>2
<1>3. FieldAt(spec, sheet, p) = Label(spec, sheet, q)
  BY <1>2 DEF FieldAt
<1>. QED  BY <1>2, <1>3

-----------------------------------------------------------------------------
(* What the handler knows when the cells up to a place have been read.       *)

\* Fields are records of their own; what is known of a field stays from sheet
\* to sheet.
IsHandler(h, spec) ==
  /\ h = [detected |-> h.detected, end |-> h.end, labels |-> h.labels,
          values |-> h.values, data |-> h.data, temp |-> h.temp]
  /\ DOMAIN h.detected = DOMAIN spec.fields /\ DOMAIN h.end = DOMAIN spec.fields

DetectedFits(h, spec, sheet) ==
  \A f \in DOMAIN spec.fields :
    /\ h.detected[f] \in {"none", "rightVal", "table"}
    /\ spec.fields[f].range # "auto" => h.detected[f] \in {"none", spec.fields[f].range}
    /\ spec.fields[f].range = "auto" /\ h.detected[f] = "table" =>
         \E q \in Labels(spec, sheet) : Label(spec, sheet, q) = f /\ HeadsColumn(spec, sheet, q)

EndFits(h, spec, sheet) ==
  \A f \in DOMAIN spec.fields :
    /\ h.end[f] \in {spec.fields[f].endRow, "yes"}
    /\ h.end[f] = "yes" /\ spec.fields[f].endRow # "yes" =>
         /\ spec.fields[f].endRow # "no" /\ h.detected[f] = "table"
         /\ \E q \in Labels(spec, sheet) : Label(spec, sheet, q) = f /\ EndsTable(spec, sheet, q)

Carried(h, spec, sheet) ==
  IsHandler(h, spec) /\ DetectedFits(h, spec, sheet) /\ EndFits(h, spec, sheet)

\* Labels, and which of them are known to head columns and to end tables: all
\* of the rows before the one that is read.
LabelsRead(h, spec, sheet, at) ==
  /\ DOMAIN h.labels = {q \in Labels(spec, sheet) : ~Before(at, q)}
  /\ \A q \in DOMAIN h.labels :
       h.labels[q] = Label(spec, sheet, q) /\ h.detected[Label(spec, sheet, q)] # "none"
HeadsKnown(h, spec, sheet, row) ==
  \A q \in Labels(spec, sheet) : q[1] < row /\ HeadsColumn(spec, sheet, q) =>
    h.detected[Label(spec, sheet, q)] = "table"
EndsKnown(h, spec, sheet, row) ==
  \A q \in Labels(spec, sheet) : q[1] < row /\ EndsTable(spec, sheet, q) =>
    \/ spec.fields[Label(spec, sheet, q)].endRow = "no"
    \/ h.end[Label(spec, sheet, q)] = "yes"

DataRead(h, sheet, row) == h.data = {r \in DOMAIN sheet : r <= row /\ sheet[r] # <<>>}

\* Values of a label that is not known yet to head a column; the other values.
Tentative(h, spec, sheet, at) ==
  {p \in CellsOf(sheet) \ Labels(spec, sheet) :
     /\ p[1] = at[1] /\ ~Before(at, p)
     /\ Left(p) \in Labels(spec, sheet) /\ HeadsColumn(spec, sheet, Left(p))
     /\ h.detected[Label(spec, sheet, Left(p))] = "rightVal"}
Read(spec, sheet, at) == {p \in Values(spec, sheet) : ~Before(at, p)}

ValuesRead(h, spec, sheet, at) ==
  /\ DOMAIN h.values = Read(spec, sheet, at) \cup Tentative(h, spec, sheet, at)
  /\ \A p \in Tentative(h, spec, sheet, at) : h.values[p] = Label(spec, sheet, Left(p))

\* temp has the last value of every field.
LastOf(spec, sheet, at, f, q) ==
  /\ q \in Read(spec, sheet, at) /\ FieldAt(spec, sheet, q) = f
  /\ \A r \in Read(spec, sheet, at) : FieldAt(spec, sheet, r) = f => ~Before(q, r)
FieldsRead(spec, sheet, at) == {FieldAt(spec, sheet, p) : p \in Read(spec, sheet, at)}
TempRead(h, spec, sheet, at) ==
  /\ DOMAIN h.temp = FieldsRead(spec, sheet, at)
                       \cup {Label(spec, sheet, Left(p)) : p \in Tentative(h, spec, sheet, at)}
  /\ \A f \in FieldsRead(spec, sheet, at) :
       \E q \in Read(spec, sheet, at) : LastOf(spec, sheet, at, f, q) /\ h.temp[f] = sheet[q[1]][q[2]]

HandlerKnows(h, spec, sheet, at) ==
  /\ Carried(h, spec, sheet)
  /\ LabelsRead(h, spec, sheet, at) /\ HeadsKnown(h, spec, sheet, at[1]) /\ EndsKnown(h, spec, sheet, at[1])
  /\ DataRead(h, sheet, at[1])
  /\ ValuesRead(h, spec, sheet, at) /\ TempRead(h, spec, sheet, at)

-----------------------------------------------------------------------------
(* Labels are found.                                                         *)

\* A label that was read is known to be one of a table only if it is; one that
\* heads no column has its values on the right.
LEMMA DetectedMeans ==
  ASSUME NEW spec, IsSpec(spec), NEW sheet, IsSheet(sheet), Unambiguous(spec, sheet),
         NEW h, Carried(h, spec, sheet), NEW q \in Labels(spec, sheet)
  PROVE  LET d == h.detected[Label(spec, sheet, q)] IN
         /\ d = "table" => HeadsColumn(spec, sheet, q)
         /\ d # "none" /\ ~HeadsColumn(spec, sheet, q) => d = "rightVal"
         /\ d = "rightVal" /\ HeadsColumn(spec, sheet, q) => RangeAt(spec, sheet, q) = "auto"
         /\ d \in {"none", "rightVal", "table"}
<1> DEFINE f == Label(spec, sheet, q)
           d == h.detected[f]
<1>1. f \in DOMAIN spec.fields /\ spec.fields[f].range \in {"auto", "table", "rightVal"}
  BY LabelsAre DEF IsSpec, IsField
<1>2. /\ d \in {"none", "rightVal", "table"}
      /\ spec.fields[f].range # "auto" => d \in {"none", spec.fields[f].range}
      /\ spec.fields[f].range = "auto" /\ d = "table" =>
           \E r \in Labels(spec, sheet) : Label(spec, sheet, r) = f /\ HeadsColumn(spec, sheet, r)
  BY <1>1 DEF Carried, DetectedFits
<1>3. spec.fields[f].range = "auto" /\ d = "table" => HeadsColumn(spec, sheet, q)
  BY <1>2 DEF Unambiguous
<1>4. /\ spec.fields[f].range = "table" => HeadsColumn(spec, sheet, q)
      /\ HeadsColumn(spec, sheet, q) => spec.fields[f].range \in {"auto", "table"}
  BY DEF HeadsColumn
<1>. QED  BY <1>1, <1>2, <1>3, <1>4 DEF RangeAt

LEMMA BeforeLeft ==
  ASSUME NEW sheet, IsSheet(sheet), NEW p \in CellsOf(sheet), NEW q \in CellsOf(sheet)
  PROVE  /\ ~Before(Left(p), q) <=> Before(q, p)
         /\ ~Before(p, q) <=> Before(q, p) \/ q = p
         /\ Left(p)[1] = p[1]
BY CellsAre DEF Before, Left

LEMMA FindLabelIs ==
  ASSUME NEW spec, IsSpec(spec), NEW sheet, IsSheet(sheet), Unambiguous(spec, sheet),
         NEW h, Carried(h, spec, sheet), NEW p \in CellsOf(sheet) \ Labels(spec, sheet),
         LabelsRead(h, spec, sheet, Left(p)), HeadsKnown(h, spec, sheet, p[1]), DataRead(h, sheet, p[1])
  PROVE  FindLabel(h, spec, p) =
           IF p \in Tentative(h, spec, sheet, p) THEN Label(spec, sheet, Left(p))
           ELSE IF LabelOf(spec, sheet, p) = {} THEN None ELSE FieldAt(spec, sheet, p)
<1> DEFINE left == Left(p)
           from == IF spec.maxHeader > 0 THEN spec.maxHeader + 1 ELSE p[1] - 1
           above == {r \in 1..from : /\ r..from \subseteq h.data
                                     /\ <<r, p[2]>> \in DOMAIN h.labels
                                     /\ h.detected[h.labels[<<r, p[2]>>]] = "table"}
<1>1. FindLabel(h, spec, p) =
        IF left \in DOMAIN h.labels /\ h.detected[h.labels[left]] = "rightVal" THEN h.labels[left]
        ELSE IF above # {} THEN h.labels[<<MaxOf(above), p[2]>>] ELSE None
  BY DEF FindLabel, Left
<1>2. p = <<p[1], p[2]>> /\ p[1] \in Nat \ {0} /\ p[2] \in Nat \ {0} /\ p[1] \in DOMAIN sheet
      /\ sheet[p[1]] # <<>>
  BY CellsAre
<1>3. \A q \in Labels(spec, sheet) : q \in DOMAIN h.labels <=> Before(q, p)
  BY BeforeLeft, LabelsAre DEF LabelsRead
<1>4. DOMAIN h.labels \subseteq Labels(spec, sheet)
      /\ \A q \in DOMAIN h.labels :
           h.labels[q] = Label(spec, sheet, q) /\ h.detected[Label(spec, sheet, q)] # "none"
  BY DEF LabelsRead
<1>5. left \in DOMAIN h.labels <=> left \in Labels(spec, sheet)
  BY <1>2, <1>3, <1>4 DEF Left, Before
<1>6. p \in Tentative(h, spec, sheet, p) <=>
        /\ left \in Labels(spec, sheet) /\ HeadsColumn(spec, sheet, left)
        /\ h.detected[Label(spec, sheet, left)] = "rightVal"
  BY <1>2 DEF Tentative, Before
<1>7. CASE LabelsLeft(spec, sheet, p)
  <2>1. left \in Labels(spec, sheet) /\ ~HeadsColumn(spec, sheet, left) /\ LabelOf(spec, sheet, p) = {left}
    BY <1>7, LabelOfIs DEF LabelsLeft
  <2>2. h.labels[left] = Label(spec, sheet, left) /\ h.detected[h.labels[left]] = "rightVal"
    BY <1>4, <1>5, <2>1, DetectedMeans
  <2>3. FieldAt(spec, sheet, p) = Label(spec, sheet, left)
    BY <2>1, OneLabel
  <2>. QED  BY <1>1, <1>5, <1>6, <2>1, <2>2, <2>3
<1>8. CASE p \in Tentative(h, spec, sheet, p)
  BY <1>1, <1>4, <1>5, <1>6, <1>8
<1>9. CASE ~LabelsLeft(spec, sheet, p) /\ p \notin Tentative(h, spec, sheet, p)
  <2>1. ~(left \in DOMAIN h.labels /\ h.detected[h.labels[left]] = "rightVal")
    BY <1>4, <1>5, <1>6, <1>9 DEF LabelsLeft
  <2>2. \A r : r \in above <=> <<r, p[2]>> \in HeadsAbove(spec, sheet, p)
    <3>1. ASSUME NEW r \in above
          PROVE  <<r, p[2]>> \in HeadsAbove(spec, sheet, p)
      <4> DEFINE q == <<r, p[2]>>
      <4>1. q \in Labels(spec, sheet) /\ Before(q, p) /\ h.detected[Label(spec, sheet, q)] = "table"
        BY <1>3, <1>4, <3>1
      <4>2. HeadsColumn(spec, sheet, q)
        BY <4>1, DetectedMeans
      <4>3. r \in Nat /\ r < p[1]
        BY <1>2, <4>1, LabelsAre DEF Before
      <4>4. from \in r..from /\ from \in Nat
        BY <1>2 DEF IsSpec
      <4>5. \A k \in r..from : k <= p[1] /\ sheet[k] # <<>>
        BY DEF DataRead
      <4>6. LastHeader(spec, p) <= p[1] /\ \A k \in r..LastHeader(spec, p) : sheet[k] # <<>>
        <5>1. CASE spec.maxHeader = 0
          BY <1>2, <4>3, <4>5, <5>1 DEF LastHeader
        <5>2. CASE spec.maxHeader > 0
          BY <1>2, <4>3, <4>4, <4>5, <5>2 DEF LastHeader
        <5>. QED  BY <5>1, <5>2 DEF IsSpec
      <4>. QED  BY <4>1, <4>2, <4>3, <4>6 DEF HeadsAbove
    <3>2. ASSUME NEW r, <<r, p[2]>> \in HeadsAbove(spec, sheet, p)
          PROVE  r \in above
      <4> DEFINE q == <<r, p[2]>>
      <4>1. /\ q \in Labels(spec, sheet) /\ HeadsColumn(spec, sheet, q) /\ r < p[1]
            /\ LastHeader(spec, p) <= p[1] /\ \A k \in r..LastHeader(spec, p) : sheet[k] # <<>>
        BY <3>2 DEF HeadsAbove
      <4>2. r \in Nat \ {0} /\ (spec.maxHeader = 0 \/ r <= spec.maxHeader + 1)
        BY <4>1, LabelsAre
      <4>3. q \in DOMAIN h.labels /\ h.labels[q] = Label(spec, sheet, q)
        BY <1>2, <1>3, <1>4, <4>1, <4>2 DEF Before
      <4>4. h.detected[h.labels[q]] = "table"
        BY <4>1, <4>3 DEF HeadsKnown
      <4>5. r \in 1..from /\ from \in Nat /\ from <= p[1] /\ from <= LastHeader(spec, p)
        BY <1>2, <4>1, <4>2 DEF LastHeader, IsSpec
      <4>6. r..from \subseteq h.data
        <5> SUFFICES ASSUME NEW k \in r..from PROVE k \in h.data
          OBVIOUS
        <5>1. k \in 1..p[1] /\ k \in r..LastHeader(spec, p)
          BY <1>2, <4>2, <4>5 DEF LastHeader, IsSpec
        <5>2. k \in DOMAIN sheet /\ sheet[k] # <<>> /\ k <= p[1]
          BY <1>2, <4>1, <5>1, CellsAre
        <5>. QED  BY <5>2 DEF DataRead
      <4>. QED  BY <4>3, <4>4, <4>5, <4>6
    <3>. QED  BY <3>1, <3>2
  <2> HIDE DEF above
  <2>3. CASE above = {}
    <3>1. \A q \in HeadsAbove(spec, sheet, p) : q = <<q[1], p[2]>>
      BY LabelsAre DEF HeadsAbove
    <3>2. HeadsAbove(spec, sheet, p) = {}
      BY <2>2, <2>3, <3>1
    <3>. QED  BY <1>1, <1>9, <2>1, <2>3, <3>2, LabelOfIs
  <2>4. CASE above # {}
    <3>1. above \in SUBSET Nat /\ \A r \in above : r <= p[1]
      <4>1. ASSUME NEW r \in above
            PROVE  r \in Nat /\ r <= p[1]
        <5>1. <<r, p[2]>> \in Labels(spec, sheet) /\ r < p[1]
          BY <2>2 DEF HeadsAbove
        <5>2. r \in Nat
          BY <5>1, LabelsAre
        <5>. QED  BY <1>2, <5>1, <5>2
      <4>. QED  BY <4>1
    <3>2. MaxOf(above) \in above /\ \A r \in above : r <= MaxOf(above)
      BY <1>2, <2>4, <3>1, MaxOfIsLargest
    <3> DEFINE q == <<MaxOf(above), p[2]>>
    <3>3. q \in HeadsAbove(spec, sheet, p)
      BY <2>2, <3>2
    <3>4. \A s \in HeadsAbove(spec, sheet, p) : s[1] <= q[1]
      <4>1. \A s \in HeadsAbove(spec, sheet, p) : s = <<s[1], p[2]>>
        BY LabelsAre DEF HeadsAbove
      <4>. QED  BY <2>2, <3>2, <4>1
    <3>5. q \in LabelOf(spec, sheet, p)
      BY <1>9, <3>3, <3>4, LabelOfIs
    <3>6. FieldAt(spec, sheet, p) = Label(spec, sheet, q)
      BY <3>5, OneLabel
    <3>7. q \in Labels(spec, sheet) /\ q \in DOMAIN h.labels
      <4>1. q \in Labels(spec, sheet) /\ q[1] < p[1]
        BY <3>3 DEF HeadsAbove
      <4>. QED  BY <1>3, <4>1 DEF Before
    <3>. QED  BY <1>1, <1>4, <1>9, <2>1, <2>4, <3>5, <3>6, <3>7
  <2>. QED  BY <2>3, <2>4
<1>. QED  BY <1>7, <1>8, <1>9, <1>6 DEF LabelsLeft

-----------------------------------------------------------------------------
(* A row begins.                                                             *)

\* A tentative value is not a value, no row ends with it or beside it, and its
\* field has no values yet.
LEMMA TentativeIs ==
  ASSUME NEW spec, IsSpec(spec), NEW sheet, IsSheet(sheet), Unambiguous(spec, sheet),
         NEW h, Carried(h, spec, sheet), NEW at \in Place, HeadsKnown(h, spec, sheet, at[1]),
         NEW x \in Tentative(h, spec, sheet, at)
  PROVE  LET f == Label(spec, sheet, Left(x)) IN
         /\ x \in CellsOf(sheet) /\ x \notin Labels(spec, sheet) /\ x \notin Values(spec, sheet)
         /\ Left(x) \in Labels(spec, sheet) /\ HeadsColumn(spec, sheet, Left(x))
         /\ f \in DOMAIN spec.fields /\ spec.fields[f].range = "auto" /\ h.end[f] # "yes"
         /\ f \notin FieldsRead(spec, sheet, at)
         /\ \A p \in Values(spec, sheet) : p[1] = at[1] => ~EndsRow(spec, sheet, p)
<1> DEFINE f == Label(spec, sheet, Left(x))
<1>1. /\ x \in CellsOf(sheet) /\ x \notin Labels(spec, sheet) /\ x[1] = at[1]
      /\ Left(x) \in Labels(spec, sheet) /\ HeadsColumn(spec, sheet, Left(x)) /\ h.detected[f] = "rightVal"
  BY DEF Tentative
<1>2. f \in DOMAIN spec.fields /\ spec.fields[f].range = "auto"
  BY <1>1, DetectedMeans, LabelsAre DEF RangeAt
<1>3. x = <<x[1], x[2]>> /\ x[1] \in Nat /\ x[2] \in Nat
  BY <1>1, CellsAre
<1>4. x = <<Left(x)[1], Left(x)[2] + 1>> /\ Left(x)[1] = at[1]
  BY <1>1, <1>3 DEF Left
<1>5. /\ x \notin Values(spec, sheet) /\ spec.fields[f].endRow # "yes"
      /\ \A p \in Values(spec, sheet) : p[1] = at[1] => ~EndsRow(spec, sheet, p)
  BY <1>1, <1>2, <1>4 DEF Unambiguous
<1>6. h.end[f] # "yes"
  BY <1>1, <1>2, <1>5 DEF Carried, EndFits
<1>7. f \notin FieldsRead(spec, sheet, at)
  <2> SUFFICES ASSUME NEW c \in Read(spec, sheet, at), FieldAt(spec, sheet, c) = f
               PROVE  FALSE
    BY DEF FieldsRead
  <2>1. c \in Values(spec, sheet) /\ ~Before(at, c) /\ c \in CellsOf(sheet)
    BY DEF Read, Values
  <2>2. PICK q \in LabelOf(spec, sheet, c) : TRUE
    BY <2>1 DEF Values
  <2>3. q \in Labels(spec, sheet) /\ Label(spec, sheet, q) = f /\ (HeadsColumn(spec, sheet, q) => q[1] < c[1])
    BY <2>1, <2>2, OneLabel
  <2>4. HeadsColumn(spec, sheet, q)
    BY <1>1, <2>3 DEF Unambiguous
  <2>5. q[1] < at[1]
    BY <2>1, <2>3, <2>4, CellsAre, LabelsAre DEF Before, Place
  <2>. QED  BY <1>1, <2>3, <2>4, <2>5 DEF HeadsKnown
<1>. QED  BY <1>1, <1>2, <1>5, <1>6, <1>7

\* What is known up to a place is what is known up to any place of the same
\* row with the same cells before it.
LEMMA KnownUpTo ==
  ASSUME NEW spec, NEW sheet, IsSheet(sheet), IsSpec(spec), NEW h, NEW at, NEW b, at[1] = b[1],
         \A q \in CellsOf(sheet) : Before(at, q) <=> Before(b, q), HandlerKnows(h, spec, sheet, at)
  PROVE  HandlerKnows(h, spec, sheet, b)
<1>1. {q \in Labels(spec, sheet) : ~Before(at, q)} = {q \in Labels(spec, sheet) : ~Before(b, q)}
  BY DEF Labels
<1>2. Tentative(h, spec, sheet, at) = Tentative(h, spec, sheet, b)
  BY DEF Tentative
<1>3. Read(spec, sheet, at) = Read(spec, sheet, b)
  BY DEF Read, Values
<1>4. LabelsRead(h, spec, sheet, b)
  BY <1>1 DEF HandlerKnows, LabelsRead
<1>5. ValuesRead(h, spec, sheet, b)
  BY <1>2, <1>3 DEF HandlerKnows, ValuesRead
<1>6. FieldsRead(spec, sheet, at) = FieldsRead(spec, sheet, b)
  BY <1>3 DEF FieldsRead
<1>7. TempRead(h, spec, sheet, b)
  <2>1. \A f, q : LastOf(spec, sheet, at, f, q) <=> LastOf(spec, sheet, b, f, q)
    BY <1>3 DEF LastOf
  <2>. QED  BY <1>2, <1>3, <1>6, <2>1 DEF HandlerKnows, TempRead
<1>. QED  BY <1>4, <1>5, <1>7 DEF HandlerKnows

\* The row of a place has been read to its end; the values of its labels are
\* no longer tentative.
RowRead(sheet, at) == \A q \in CellsOf(sheet) : Before(at, q) <=> at[1] < q[1]
Settled(h, spec, sheet, at) ==
  /\ DOMAIN h.values = Read(spec, sheet, at)
  /\ DOMAIN h.temp = FieldsRead(spec, sheet, at)
  /\ \A f \in FieldsRead(spec, sheet, at) :
       \E q \in Read(spec, sheet, at) : LastOf(spec, sheet, at, f, q) /\ h.temp[f] = sheet[q[1]][q[2]]

\* resetAutoLabel finds the labels of a table that may be either, and what was
\* taken for their values.
LEMMA ResetAutoLabelIs ==
  ASSUME NEW spec, IsSpec(spec), NEW sheet, IsSheet(sheet), Unambiguous(spec, sheet),
         NEW at \in Place, RowRead(sheet, at), NEW h, HandlerKnows(h, spec, sheet, at)
  PROVE  LET g == ResetAutoLabel(h, spec, at[1]) IN
         /\ Carried(g, spec, sheet) /\ LabelsRead(g, spec, sheet, at) /\ DataRead(g, sheet, at[1])
         /\ HeadsKnown(g, spec, sheet, at[1] + 1) /\ EndsKnown(g, spec, sheet, at[1])
         /\ Settled(g, spec, sheet, at)
<1> DEFINE row == at[1]
           range(p) == spec.fields[h.labels[p]].range
           autos == {p \in LabelsOf(h, row) : range(p) = "auto"}
           gone == {<<row, p[2] + 1>> : p \in autos} \cap DOMAIN h.values
           T == Tentative(h, spec, sheet, at)
           table == \E p \in LabelsOf(h, row) : range(p) = "table"
           fields == {h.labels[p] : p \in autos}
           g == ResetAutoLabel(h, spec, row)
           new == [h EXCEPT !.temp = Without(@, {h.values[p] : p \in gone}),
                            !.values = Without(@, gone),
                            !.detected = [f \in DOMAIN @ |-> IF f \in fields THEN "table" ELSE @[f]]]
<1>1. g = IF autos = {} \/ ~table THEN h ELSE new
  BY DEF ResetAutoLabel
<1>2. /\ Carried(h, spec, sheet) /\ LabelsRead(h, spec, sheet, at) /\ HeadsKnown(h, spec, sheet, row)
      /\ EndsKnown(h, spec, sheet, row) /\ DataRead(h, sheet, row)
      /\ ValuesRead(h, spec, sheet, at) /\ TempRead(h, spec, sheet, at)
      /\ IsHandler(h, spec) /\ DetectedFits(h, spec, sheet) /\ EndFits(h, spec, sheet)
  BY DEF HandlerKnows, Carried
<1>3. /\ DOMAIN h.labels \subseteq Labels(spec, sheet)
      /\ \A q \in Labels(spec, sheet) : q \in DOMAIN h.labels <=> q[1] <= row
      /\ \A q \in DOMAIN h.labels : h.labels[q] = Label(spec, sheet, q) /\ h.detected[Label(spec, sheet, q)] # "none"
  <2>1. \A q \in Labels(spec, sheet) : ~Before(at, q) <=> q[1] <= row
    BY LabelsAre DEF RowRead, Place
  <2>. QED  BY <1>2, <2>1 DEF LabelsRead
<1>4. \A q : q \in LabelsOf(h, row) <=> q \in Labels(spec, sheet) /\ q[1] = row
  BY <1>3, LabelsAre DEF LabelsOf, Place
<1>5. \A q \in LabelsOf(h, row) : range(q) = RangeAt(spec, sheet, q) /\ h.labels[q] = Label(spec, sheet, q)
  BY <1>3 DEF LabelsOf, RangeAt
<1>6. \A q \in Labels(spec, sheet) : q[1] = row =>
        (HeadsColumn(spec, sheet, q) <=> RangeAt(spec, sheet, q) = "table" \/ (RangeAt(spec, sheet, q) = "auto" /\ table))
  <2>1. table <=> \E q \in Labels(spec, sheet) : q[1] = row /\ RangeAt(spec, sheet, q) = "table"
    BY <1>4, <1>5
  <2>. QED  BY <2>1 DEF HeadsColumn, RangeAt
<1>7. \A x \in T : /\ Left(x) \in autos /\ table /\ x = <<row, Left(x)[2] + 1>> /\ x \in DOMAIN h.values
                   /\ h.values[x] = Label(spec, sheet, Left(x))
                   /\ Label(spec, sheet, Left(x)) \notin FieldsRead(spec, sheet, at)
  <2> TAKE x \in T
  <2>1. /\ x \in CellsOf(sheet) /\ x[1] = row
        /\ Left(x) \in Labels(spec, sheet) /\ HeadsColumn(spec, sheet, Left(x))
    BY DEF Tentative
  <2>2. x = <<x[1], x[2]>> /\ x[1] \in Nat /\ x[2] \in Nat
    BY <2>1, CellsAre
  <2>3. RangeAt(spec, sheet, Left(x)) = "auto" /\ Label(spec, sheet, Left(x)) \notin FieldsRead(spec, sheet, at)
    BY <1>2, TentativeIs DEF RangeAt
  <2>4. Left(x)[1] = row /\ x = <<row, Left(x)[2] + 1>>
    BY <2>1, <2>2 DEF Left
  <2>5. Left(x) \in autos /\ table
    BY <1>4, <1>5, <1>6, <2>1, <2>3, <2>4
  <2>. QED  BY <1>2, <2>3, <2>4, <2>5 DEF ValuesRead
<1>8. CASE autos = {} \/ ~table
  <2>1. g = h /\ T = {}
    BY <1>1, <1>7, <1>8
  <2>2. HeadsKnown(h, spec, sheet, row + 1)
    <3> SUFFICES ASSUME NEW q \in Labels(spec, sheet), q[1] = row, HeadsColumn(spec, sheet, q)
                 PROVE  h.detected[Label(spec, sheet, q)] = "table"
      BY <1>2, LabelsAre DEF HeadsKnown, Place
    <3>1. RangeAt(spec, sheet, q) = "table"
      BY <1>4, <1>5, <1>6, <1>8
    <3>2. h.detected[Label(spec, sheet, q)] # "none"
      BY <1>3, <1>4 DEF LabelsOf
    <3>. QED  BY <1>2, <3>1, <3>2, LabelsAre DEF DetectedFits, RangeAt
  <2>3. Settled(h, spec, sheet, at)
    BY <1>2, <2>1 DEF Settled, ValuesRead, TempRead
  <2>. QED  BY <1>2, <2>1, <2>2, <2>3
<1>9. CASE autos # {} /\ table
  <2>1. /\ g.labels = h.labels /\ g.data = h.data /\ g.end = h.end
        /\ g.temp = Without(h.temp, {h.values[p] : p \in gone}) /\ g.values = Without(h.values, gone)
        /\ g.detected = [f \in DOMAIN h.detected |-> IF f \in fields THEN "table" ELSE h.detected[f]]
        /\ IsHandler(g, spec)
    <3>1. g = new
      BY <1>1, <1>9
    <3>. QED  BY <1>2, <3>1 DEF IsHandler
  <2>2. \A f \in fields : \E q \in Labels(spec, sheet) :
          Label(spec, sheet, q) = f /\ HeadsColumn(spec, sheet, q) /\ spec.fields[f].range = "auto"
    <3> SUFFICES ASSUME NEW q \in autos
                 PROVE  q \in Labels(spec, sheet) /\ Label(spec, sheet, q) = h.labels[q] /\ HeadsColumn(spec, sheet, q)
      OBVIOUS
    <3>. QED  BY <1>4, <1>5, <1>6, <1>9
  <2>3. \A f \in DOMAIN spec.fields : g.detected[f] = "table" \/ g.detected[f] = h.detected[f]
    BY <1>2, <2>1 DEF IsHandler
  <2>4. DetectedFits(g, spec, sheet)
    <3> SUFFICES ASSUME NEW f \in DOMAIN spec.fields
                 PROVE  /\ g.detected[f] \in {"none", "rightVal", "table"}
                        /\ spec.fields[f].range # "auto" => g.detected[f] \in {"none", spec.fields[f].range}
                        /\ spec.fields[f].range = "auto" /\ g.detected[f] = "table" =>
                             \E q \in Labels(spec, sheet) : Label(spec, sheet, q) = f /\ HeadsColumn(spec, sheet, q)
      BY DEF DetectedFits
    <3> HIDE DEF fields
    <3>1. CASE f \in fields
      BY <1>2, <2>1, <2>2, <3>1 DEF IsHandler
    <3>2. CASE f \notin fields
      BY <1>2, <2>1, <3>2 DEF IsHandler, DetectedFits
    <3>. QED  BY <3>1, <3>2
  <2>5. EndFits(g, spec, sheet)
    BY <1>2, <2>1, <2>3 DEF EndFits
  <2>6. LabelsRead(g, spec, sheet, at)
    <3>1. \A q \in DOMAIN h.labels : g.detected[Label(spec, sheet, q)] # "none"
      BY <1>3, <2>3, LabelsAre
    <3>. QED  BY <1>2, <2>1, <3>1 DEF LabelsRead
  <2>7. HeadsKnown(g, spec, sheet, row + 1)
    <3> SUFFICES ASSUME NEW q \in Labels(spec, sheet), q[1] < row + 1, HeadsColumn(spec, sheet, q)
                 PROVE  g.detected[Label(spec, sheet, q)] = "table"
      BY DEF HeadsKnown
    <3>1. Label(spec, sheet, q) \in DOMAIN spec.fields
      BY LabelsAre
    <3>2. CASE q[1] < row
      BY <1>2, <2>3, <3>1, <3>2 DEF HeadsKnown
    <3>3. CASE q[1] = row /\ RangeAt(spec, sheet, q) = "auto"
      <4>1. q \in autos /\ h.labels[q] = Label(spec, sheet, q)
        BY <1>4, <1>5, <3>3
      <4>2. Label(spec, sheet, q) \in fields
        BY <4>1
      <4> HIDE DEF fields, g
      <4>. QED  BY <1>2, <2>1, <3>1, <4>2 DEF IsHandler
    <3>4. CASE q[1] = row /\ RangeAt(spec, sheet, q) # "auto"
      <4>1. RangeAt(spec, sheet, q) = "table"
        BY <1>6, <3>4
      <4>2. g.detected[Label(spec, sheet, q)] # "none"
        BY <2>1, <2>6, <1>4, <3>4 DEF LabelsRead, LabelsOf
      <4>. QED  BY <2>4, <3>1, <4>1, <4>2 DEF DetectedFits, RangeAt
    <3>. QED  BY <3>2, <3>3, <3>4, LabelsAre DEF Place
  <2>8. EndsKnown(g, spec, sheet, row) /\ DataRead(g, sheet, row)
    BY <1>2, <2>1 DEF EndsKnown, DataRead
  <2>9. gone = T
    <3>1. \A x \in T : x \in gone
      <4> TAKE x \in T
      <4>. QED  BY <1>7
    <3>2. ASSUME NEW x \in gone
          PROVE  x \in T
      <4>1. PICK q \in autos : x = <<row, q[2] + 1>>
        OBVIOUS
      <4>2. q \in Labels(spec, sheet) /\ q[1] = row /\ HeadsColumn(spec, sheet, q) /\ RangeAt(spec, sheet, q) = "auto"
        BY <1>4, <1>5, <1>6, <1>9
      <4>3. x \in Read(spec, sheet, at) \cup T
        BY <1>2 DEF ValuesRead
      <4>4. CASE x \in Read(spec, sheet, at)
        <5>1. x \in Values(spec, sheet) /\ x \in CellsOf(sheet) \ Labels(spec, sheet)
          BY <4>4 DEF Read, Values
        <5>2. x = <<q[1], q[2] + 1>>
          BY <4>1, <4>2
        <5>. QED  BY <4>2, <5>1, <5>2 DEF Unambiguous, RangeAt
      <4>. QED  BY <4>3, <4>4
    <3>. QED  BY <3>1, <3>2
  <2>10. Settled(g, spec, sheet, at)
    <3> HIDE DEF T, gone
    <3>1. T \cap Read(spec, sheet, at) = {}
      BY <1>2, TentativeIs DEF Read, T
    <3>2. DOMAIN g.values = Read(spec, sheet, at)
      BY <1>2, <2>1, <2>9, <3>1 DEF Without, ValuesRead, T
    <3>3. {h.values[p] : p \in gone} = {Label(spec, sheet, Left(p)) : p \in T}
      BY <1>7, <2>9
    <3>4. DOMAIN g.temp = FieldsRead(spec, sheet, at)
      <4>1. {Label(spec, sheet, Left(p)) : p \in T} \cap FieldsRead(spec, sheet, at) = {}
        BY <1>7
      <4>. QED  BY <1>2, <2>1, <3>3, <4>1 DEF Without, TempRead, T
    <3>5. \A f \in FieldsRead(spec, sheet, at) : g.temp[f] = h.temp[f]
      BY <2>1, <3>4 DEF Without
    <3>. QED  BY <1>2, <3>2, <3>4, <3>5 DEF Settled, TempRead
  <2>. QED  BY <2>1, <2>4, <2>5, <2>6, <2>7, <2>8, <2>10 DEF Carried
<1>. QED  BY <1>8, <1>9

\* resetAutoEndRow finds the label that ends a table; that of a table of one
\* column it does not have to find.
LEMMA ResetAutoEndRowIs ==
  ASSUME NEW spec, IsSpec(spec), NEW sheet, IsSheet(sheet), Unambiguous(spec, sheet), NotOneColumn(spec, sheet),
         NEW at \in Place, RowRead(sheet, at),
         NEW h, Carried(h, spec, sheet), LabelsRead(h, spec, sheet, at),
         HeadsKnown(h, spec, sheet, at[1] + 1), EndsKnown(h, spec, sheet, at[1])
  PROVE  LET g == ResetAutoEndRow(h, spec, at[1]) IN
         /\ Carried(g, spec, sheet) /\ EndsKnown(g, spec, sheet, at[1] + 1)
         /\ g.detected = h.detected /\ g.labels = h.labels /\ g.values = h.values
         /\ g.data = h.data /\ g.temp = h.temp
<1> DEFINE row == at[1]
           columns == {p[2] : p \in LabelsOf(h, row)}
           end == <<row, MaxOf(columns)>>
           last == h.labels[end]
           g == ResetAutoEndRow(h, spec, row)
           sets == columns # {} /\ columns # {1} /\ h.detected[last] = "table" /\ h.end[last] # "no"
<1>1. g = IF sets THEN [h EXCEPT !.end[last] = "yes"] ELSE h
  BY DEF ResetAutoEndRow
<1>2. IsHandler(h, spec) /\ DetectedFits(h, spec, sheet) /\ EndFits(h, spec, sheet)
  BY DEF Carried
<1>3. /\ \A q : q \in LabelsOf(h, row) <=> q \in Labels(spec, sheet) /\ q[1] = row
      /\ \A q \in Labels(spec, sheet) : q[1] = row => h.labels[q] = Label(spec, sheet, q)
  <2>1. \A q \in Labels(spec, sheet) : ~Before(at, q) <=> q[1] <= row
    BY LabelsAre DEF RowRead, Place
  <2>. QED  BY <2>1, LabelsAre DEF LabelsRead, LabelsOf, Place
<1>4. columns # {} =>
        /\ end \in Labels(spec, sheet) /\ last = Label(spec, sheet, end) /\ last \in DOMAIN spec.fields
        /\ \A q \in Labels(spec, sheet) : q[1] = row => q[2] <= end[2]
  <2> SUFFICES ASSUME columns # {}
               PROVE  /\ end \in Labels(spec, sheet) /\ last = Label(spec, sheet, end) /\ last \in DOMAIN spec.fields
                      /\ \A q \in Labels(spec, sheet) : q[1] = row => q[2] <= end[2]
    OBVIOUS
  <2>1. columns \in SUBSET Nat /\ Len(sheet[row]) \in Nat /\ \A n \in columns : n <= Len(sheet[row])
    <3>1. ASSUME NEW q \in LabelsOf(h, row)
          PROVE  q[2] \in Nat /\ q[2] <= Len(sheet[row]) /\ Len(sheet[row]) \in Nat
      <4>1. q \in CellsOf(sheet) /\ q = <<q[1], q[2]>> /\ q[1] = row
        BY <1>3, <3>1, LabelsAre
      <4>2. row \in DOMAIN sheet /\ q[2] \in DOMAIN sheet[row]
        BY <4>1, CellsAre
      <4>. QED  BY <4>2 DEF IsSheet, IsSeq
    <3>2. PICK q \in LabelsOf(h, row) : TRUE
      OBVIOUS
    <3>. QED  BY <3>1, <3>2
  <2>2. MaxOf(columns) \in columns /\ \A n \in columns : n <= MaxOf(columns)
    <3> HIDE DEF columns
    <3>. QED  BY <2>1, MaxOfIsLargest
  <2>3. PICK p \in LabelsOf(h, row) : p[2] = MaxOf(columns)
    BY <2>2
  <2>4. p = end
    BY <1>3, <2>3, LabelsAre
  <2>5. \A q \in Labels(spec, sheet) : q[1] = row => q[2] <= MaxOf(columns)
    BY <1>3, <2>2
  <2>. QED  BY <1>3, <2>3, <2>4, <2>5, LabelsAre
<1>5. \A q \in Labels(spec, sheet) : q[1] = row /\ EndsTable(spec, sheet, q) => columns # {} /\ q = end
  <2> SUFFICES ASSUME NEW q \in Labels(spec, sheet), q[1] = row, EndsTable(spec, sheet, q)
               PROVE  columns # {} /\ q = end
    OBVIOUS
  <2>1. columns # {}
    BY <1>3
  <2>2. end[2] <= q[2] /\ q[2] <= end[2]
    BY <1>4, <2>1 DEF EndsTable
  <2>3. q = <<q[1], q[2]>> /\ q[2] \in Nat /\ end[2] \in Nat
    BY <1>4, <2>1, LabelsAre
  <2>4. q[2] = end[2]
    BY <2>2, <2>3
  <2>. QED  BY <2>1, <2>3, <2>4
<1>6. CASE sets
  <2>1. /\ g.detected = h.detected /\ g.labels = h.labels /\ g.values = h.values /\ g.data = h.data /\ g.temp = h.temp
        /\ IsHandler(g, spec) /\ \A f \in DOMAIN spec.fields : g.end[f] = IF f = last THEN "yes" ELSE h.end[f]
    <3>1. g = [h EXCEPT !.end[last] = "yes"]
      BY <1>1, <1>6
    <3> HIDE DEF last, g
    <3>. QED  BY <1>2, <3>1 DEF IsHandler
  <2>2. EndsTable(spec, sheet, end) /\ Label(spec, sheet, end) = last /\ end \in Labels(spec, sheet)
    BY <1>4, <1>6, DetectedMeans DEF EndsTable
  <2>3. spec.fields[last].endRow # "no"
    BY <1>2, <1>4, <1>6 DEF EndFits
  <2>4. EndFits(g, spec, sheet)
    <3> SUFFICES ASSUME NEW f \in DOMAIN spec.fields
                 PROVE  /\ g.end[f] \in {spec.fields[f].endRow, "yes"}
                        /\ g.end[f] = "yes" /\ spec.fields[f].endRow # "yes" =>
                             /\ spec.fields[f].endRow # "no" /\ g.detected[f] = "table"
                             /\ \E q \in Labels(spec, sheet) : Label(spec, sheet, q) = f /\ EndsTable(spec, sheet, q)
      BY DEF EndFits
    <3> HIDE DEF g, end, last
    <3>1. CASE f = last
      BY <1>6, <2>1, <2>2, <2>3, <3>1
    <3>2. CASE f # last
      BY <1>2, <2>1, <3>2 DEF EndFits
    <3>. QED  BY <3>1, <3>2
  <2>5. EndsKnown(g, spec, sheet, row + 1)
    <3> SUFFICES ASSUME NEW q \in Labels(spec, sheet), q[1] < row + 1, EndsTable(spec, sheet, q)
                 PROVE  \/ spec.fields[Label(spec, sheet, q)].endRow = "no"
                        \/ g.end[Label(spec, sheet, q)] = "yes"
      BY DEF EndsKnown
    <3>1. Label(spec, sheet, q) \in DOMAIN spec.fields
      BY LabelsAre
    <3>2. CASE q[1] < row
      BY <2>1, <3>1, <3>2 DEF EndsKnown
    <3>3. CASE q[1] = row
      <4>1. q = end
        BY <1>5, <3>3
      <4>2. Label(spec, sheet, q) = last
        BY <2>2, <4>1
      <4>. QED  BY <2>1, <3>1, <4>2
    <3>. QED  BY <3>2, <3>3, LabelsAre DEF Place
  <2>6. DetectedFits(g, spec, sheet)
    BY <1>2, <2>1 DEF DetectedFits
  <2>. QED  BY <2>1, <2>4, <2>5, <2>6 DEF Carried
<1>7. CASE ~sets
  <2>1. EndsKnown(h, spec, sheet, row + 1)
    <3> SUFFICES ASSUME NEW q \in Labels(spec, sheet), q[1] < row + 1, EndsTable(spec, sheet, q)
                 PROVE  \/ spec.fields[Label(spec, sheet, q)].endRow = "no"
                        \/ h.end[Label(spec, sheet, q)] = "yes"
      BY DEF EndsKnown
    <3>1. Label(spec, sheet, q) \in DOMAIN spec.fields
      BY LabelsAre
    <3>2. CASE q[1] < row
      BY <3>2 DEF EndsKnown
    <3>3. CASE q[1] = row
      <4>1. columns # {} /\ Label(spec, sheet, q) = last
        BY <1>4, <1>5, <3>3
      <4>2. h.detected[last] = "table"
        BY <3>3, <4>1 DEF HeadsKnown, EndsTable
      <4>3. spec.fields[last].endRow \in {"auto", "yes", "no"} /\ h.end[last] \in {spec.fields[last].endRow, "yes"}
        BY <1>2, <3>1, <4>1 DEF IsSpec, IsField, EndFits
      <4>4. CASE columns = {1}
        <5>1. q[2] = 1
          BY <1>3, <3>3, <4>4
        <5>2. spec.fields[last].endRow # "auto"
          BY <4>1, <5>1 DEF NotOneColumn
        <5>. QED  BY <4>1, <4>3, <5>2
      <4>5. CASE h.end[last] = "no"
        BY <4>1, <4>3, <4>5
      <4>. QED  BY <1>7, <4>1, <4>2, <4>4, <4>5
    <3>. QED  BY <3>2, <3>3, LabelsAre DEF Place
  <2>. QED  BY <1>1, <1>7, <2>1
<1>. QED  BY <1>6, <1>7

\* A new row begins: what is known of the rows before it is all there is, and
\* nothing is known yet of its own cells.
LEMMA StartRowIs ==
  ASSUME NEW spec, IsSpec(spec), NEW sheet, IsSheet(sheet), Unambiguous(spec, sheet), NotOneColumn(spec, sheet),
         NEW at \in Place, at \in CellsOf(sheet) \cup {<<0, 0>>}, Later(sheet, at) # {},
         NEW h, HandlerKnows(h, spec, sheet, at)
  PROVE  LET p == NextCell(sheet, at) IN
         HandlerKnows(StartRow(h, spec, at[1], p[1]), spec, sheet, Left(p))
<1> DEFINE p == NextCell(sheet, at)
           g == StartRow(h, spec, at[1], p[1])
<1>1. /\ p \in CellsOf(sheet) /\ Before(at, p)
      /\ \A q \in CellsOf(sheet) : Before(at, q) <=> ~Before(q, p)
  BY NextCellIsNext
<1>2. p = <<p[1], p[2]>> /\ p[1] \in Nat \ {0} /\ p[2] \in Nat \ {0} /\ p[1] \in DOMAIN sheet
      /\ sheet[p[1]] # <<>> /\ Left(p)[1] = p[1]
  BY <1>1, CellsAre DEF Left
<1> HIDE DEF p
<1>3. \A q \in CellsOf(sheet) : Before(at, q) <=> Before(Left(p), q)
  BY <1>1, BeforeLeft
<1>4. CASE at[1] = p[1]
  <2>1. g = h
    BY <1>4 DEF StartRow
  <2>2. at[1] = Left(p)[1]
    BY <1>2, <1>4
  <2>. QED  BY <1>3, <2>1, <2>2, KnownUpTo DEF p
<1>5. CASE at[1] # p[1]
  <2>1. at[1] < p[1] /\ at[1] \in Nat
    BY <1>1, <1>5 DEF Before, Place
  <2>2. \A q \in CellsOf(sheet) : Before(at, q) <=> p[1] <= q[1]
    <3> SUFFICES ASSUME NEW q \in CellsOf(sheet), p[1] <= q[1] \/ ~Before(q, p)
                 PROVE  p[1] <= q[1] /\ Before(at, q)
      BY <1>1
    <3>1. q = <<q[1], q[2]>> /\ q[1] \in Nat /\ q[2] \in Nat
      BY CellsAre
    <3>. QED  BY <1>1, <1>2, <2>1, <3>1 DEF Before
  <2>3. RowRead(sheet, at) /\ \A q \in CellsOf(sheet) : at[1] < q[1] <=> p[1] <= q[1]
    <3> SUFFICES ASSUME NEW q \in CellsOf(sheet)
                 PROVE  at[1] < q[1] <=> p[1] <= q[1]
      BY <2>2 DEF RowRead
    <3>1. q = <<q[1], q[2]>> /\ q[1] \in Nat /\ q[2] \in Nat
      BY CellsAre
    <3>2. at[1] < q[1] => Before(at, q)
      BY DEF Before
    <3>. QED  BY <1>2, <2>1, <2>2, <3>1, <3>2
  <2> DEFINE e == ResetAutoLabel(h, spec, at[1])
             d == ResetAutoEndRow(e, spec, at[1])
  <2>4. /\ Carried(d, spec, sheet) /\ LabelsRead(d, spec, sheet, at) /\ DataRead(d, sheet, at[1])
        /\ HeadsKnown(d, spec, sheet, at[1] + 1) /\ EndsKnown(d, spec, sheet, at[1] + 1)
        /\ Settled(d, spec, sheet, at)
    <3>1. /\ Carried(e, spec, sheet) /\ LabelsRead(e, spec, sheet, at) /\ DataRead(e, sheet, at[1])
          /\ HeadsKnown(e, spec, sheet, at[1] + 1) /\ EndsKnown(e, spec, sheet, at[1])
          /\ Settled(e, spec, sheet, at)
      BY <2>3, ResetAutoLabelIs
    <3> HIDE DEF e
    <3>2. /\ Carried(d, spec, sheet) /\ EndsKnown(d, spec, sheet, at[1] + 1)
          /\ d.detected = e.detected /\ d.labels = e.labels /\ d.values = e.values
          /\ d.data = e.data /\ d.temp = e.temp
      BY <2>3, <3>1, ResetAutoEndRowIs
    <3> HIDE DEF d
    <3>. QED  BY <3>1, <3>2 DEF LabelsRead, DataRead, HeadsKnown, Settled
  <2>5. at[1] = 0 => d = h
    <3> HAVE at[1] = 0
    <3>1. LabelsOf(h, 0) = {}
      BY LabelsAre DEF LabelsOf, HandlerKnows, LabelsRead
    <3>2. e = h
      BY <3>1 DEF ResetAutoLabel
    <3> HIDE DEF e
    <3>3. d = h
      BY <3>1, <3>2 DEF ResetAutoEndRow
    <3>. QED  BY <3>3
  <2>6. g = [d EXCEPT !.data = @ \cup {p[1]}]
    BY <1>5, <2>5 DEF StartRow
  <2> HIDE DEF d
  <2>7. /\ IsHandler(g, spec) /\ g.detected = d.detected /\ g.end = d.end /\ g.labels = d.labels
        /\ g.values = d.values /\ g.temp = d.temp /\ g.data = d.data \cup {p[1]}
    BY <2>4, <2>6 DEF Carried, IsHandler
  <2> HIDE DEF g
  <2>8. Carried(g, spec, sheet)
    BY <2>4, <2>7 DEF Carried, DetectedFits, EndFits
  <2>9. HeadsKnown(g, spec, sheet, p[1]) /\ EndsKnown(g, spec, sheet, p[1])
    <3>1. \A q \in Labels(spec, sheet) : q[1] < p[1] => q[1] < at[1] + 1
      <4> SUFFICES ASSUME NEW q \in Labels(spec, sheet), q[1] < p[1]
                   PROVE  q[1] < at[1] + 1
        OBVIOUS
      <4>1. q \in CellsOf(sheet) /\ q[1] \in Nat
        BY LabelsAre
      <4>. QED  BY <1>2, <2>1, <2>3, <4>1
    <3>. QED  BY <2>4, <2>7, <3>1 DEF HeadsKnown, EndsKnown
  <2>10. LabelsRead(g, spec, sheet, Left(p))
    <3>1. {q \in Labels(spec, sheet) : ~Before(at, q)} = {q \in Labels(spec, sheet) : ~Before(Left(p), q)}
      BY <1>3 DEF Labels
    <3>. QED  BY <2>4, <2>7, <3>1 DEF LabelsRead
  <2>11. DataRead(g, sheet, p[1])
    <3>1. \A r \in DOMAIN sheet : sheet[r] # <<>> /\ r <= p[1] => r <= at[1] \/ r = p[1]
      <4> SUFFICES ASSUME NEW r \in DOMAIN sheet, sheet[r] # <<>>, r <= p[1]
                   PROVE  r <= at[1] \/ r = p[1]
        OBVIOUS
      <4>1. <<r, 1>> \in CellsOf(sheet) /\ r \in Nat
        BY CellsAre
      <4>2. at[1] < <<r, 1>>[1] <=> p[1] <= <<r, 1>>[1]
        BY <2>3, <4>1
      <4>. QED  BY <1>2, <2>1, <4>1, <4>2
    <3>2. \A r \in DOMAIN sheet : r \in Nat
      BY DEF IsSheet, IsSeq
    <3>. QED  BY <1>2, <2>1, <2>4, <2>7, <3>1, <3>2 DEF DataRead
  <2>12. Tentative(g, spec, sheet, Left(p)) = {}
    <3> SUFFICES ASSUME NEW x \in Tentative(g, spec, sheet, Left(p))
                 PROVE  FALSE
      OBVIOUS
    <3>1. x \in CellsOf(sheet) /\ x[1] = p[1] /\ ~Before(Left(p), x)
      BY <1>2 DEF Tentative
    <3>. QED  BY <1>2, <1>3, <2>2, <3>1
  <2>13. Read(spec, sheet, at) = Read(spec, sheet, Left(p)) /\ FieldsRead(spec, sheet, at) = FieldsRead(spec, sheet, Left(p))
    BY <1>3 DEF Read, Values, FieldsRead
  <2>14. ValuesRead(g, spec, sheet, Left(p))
    BY <2>4, <2>7, <2>12, <2>13 DEF ValuesRead, Settled
  <2>15. TempRead(g, spec, sheet, Left(p))
    <3>1. \A f, q : LastOf(spec, sheet, at, f, q) <=> LastOf(spec, sheet, Left(p), f, q)
      BY <2>13 DEF LastOf
    <3>. QED  BY <2>4, <2>7, <2>12, <2>13, <3>1 DEF TempRead, Settled
  <2>. QED  BY <1>2, <2>8, <2>9, <2>10, <2>11, <2>14, <2>15 DEF HandlerKnows, g, p
<1>. QED  BY <1>4, <1>5 DEF p

-----------------------------------------------------------------------------
(* A cell is read.                                                           *)

\* addRecognizedLabelCell: what was known before stays, for a label says
\* nothing new of a field whose kind is known.
LEMMA AddLabelIs ==
  ASSUME NEW spec, IsSpec(spec), NEW sheet, IsSheet(sheet), Unambiguous(spec, sheet),
         NEW p \in Labels(spec, sheet), NEW h, HandlerKnows(h, spec, sheet, Left(p))
  PROVE  LET g == AddLabel(h, spec, p, sheet[p[1]][p[2]]) IN
         HandlerKnows(g, spec, sheet, p) /\ p \notin DOMAIN g.values
<1> DEFINE cell == sheet[p[1]][p[2]]
           g == AddLabel(h, spec, p, cell)
           F == LabelFields(spec, cell)
           at == Left(p)
<1>1. /\ Carried(h, spec, sheet) /\ LabelsRead(h, spec, sheet, at) /\ HeadsKnown(h, spec, sheet, p[1])
      /\ EndsKnown(h, spec, sheet, p[1]) /\ DataRead(h, sheet, p[1])
      /\ ValuesRead(h, spec, sheet, at) /\ TempRead(h, spec, sheet, at)
      /\ IsHandler(h, spec) /\ DetectedFits(h, spec, sheet) /\ EndFits(h, spec, sheet)
  BY DEF HandlerKnows, Carried, Left
<1>2. p \in CellsOf(sheet) /\ p = <<p[1], p[2]>> /\ p[1] \in Nat /\ p[2] \in Nat
      /\ Label(spec, sheet, p) \in F /\ F \subseteq DOMAIN spec.fields
  BY LabelsAre DEF LabelFields
<1>3. /\ g.labels = With(h.labels, p, Label(spec, sheet, p)) /\ g.values = h.values /\ g.temp = h.temp
      /\ g.data = h.data /\ g.end = h.end /\ IsHandler(g, spec)
      /\ \A f \in DOMAIN spec.fields :
           g.detected[f] = IF f \notin F \/ h.detected[f] # "none" THEN h.detected[f]
                           ELSE IF spec.fields[f].range = "auto" THEN "rightVal" ELSE spec.fields[f].range
  <2>1. g = [h EXCEPT
               !.labels = With(@, p, Label(spec, sheet, p)),
               !.detected = [f \in DOMAIN @ |->
                  IF f \notin F \/ @[f] # "none" THEN @[f]
                  ELSE IF spec.fields[f].range = "auto" THEN "rightVal" ELSE spec.fields[f].range]]
    BY DEF AddLabel, Label
  <2> HIDE DEF g, F
  <2>. QED  BY <1>1, <2>1 DEF IsHandler
<1> HIDE DEF g, F
<1>4. /\ \A f \in DOMAIN spec.fields : h.detected[f] # "none" => g.detected[f] = h.detected[f]
      /\ \A f \in F : g.detected[f] # "none"
      /\ \A f \in DOMAIN spec.fields : spec.fields[f].range \in {"auto", "table", "rightVal"}
  BY <1>2, <1>3 DEF IsSpec, IsField
<1>5. Carried(g, spec, sheet)
  <2>1. DetectedFits(g, spec, sheet)
    <3> SUFFICES ASSUME NEW f \in DOMAIN spec.fields
                 PROVE  /\ g.detected[f] \in {"none", "rightVal", "table"}
                        /\ spec.fields[f].range # "auto" => g.detected[f] \in {"none", spec.fields[f].range}
                        /\ spec.fields[f].range = "auto" /\ g.detected[f] = "table" =>
                             \E q \in Labels(spec, sheet) : Label(spec, sheet, q) = f /\ HeadsColumn(spec, sheet, q)
      BY DEF DetectedFits
    <3>1. CASE f \in F /\ h.detected[f] = "none"
      BY <1>3, <1>4, <3>1
    <3>2. CASE ~(f \in F /\ h.detected[f] = "none")
      BY <1>1, <1>3, <3>2 DEF DetectedFits
    <3>. QED  BY <3>1, <3>2
  <2>2. EndFits(g, spec, sheet)
    BY <1>1, <1>3, <1>4 DEF EndFits
  <2>. QED  BY <1>3, <2>1, <2>2 DEF Carried
<1>6. \A q \in Labels(spec, sheet) : Label(spec, sheet, q) \in DOMAIN spec.fields
  BY LabelsAre
<1>7. \A q \in Labels(spec, sheet) : /\ ~Before(at, q) <=> Before(q, p)
                                     /\ ~Before(p, q) <=> Before(q, p) \/ q = p
  BY <1>2, LabelsAre, BeforeLeft
<1>8. ~Before(p, p)
  BY <1>2 DEF Before
<1>9. LabelsRead(g, spec, sheet, p)
  <2>1. DOMAIN g.labels = {q \in Labels(spec, sheet) : ~Before(p, q)}
    BY <1>1, <1>3, <1>7 DEF LabelsRead, With
  <2>2. ASSUME NEW q \in DOMAIN g.labels
        PROVE  g.labels[q] = Label(spec, sheet, q) /\ g.detected[Label(spec, sheet, q)] # "none"
    <3>1. /\ DOMAIN g.labels = DOMAIN h.labels \cup {p} /\ g.labels[p] = Label(spec, sheet, p)
          /\ \A r \in DOMAIN h.labels : r # p => g.labels[r] = h.labels[r]
      BY <1>3 DEF With
    <3>2. CASE q = p
      BY <1>2, <1>4, <3>1, <3>2
    <3>3. CASE q # p
      <4>1. q \in DOMAIN h.labels /\ q \in Labels(spec, sheet) /\ g.labels[q] = h.labels[q]
        BY <2>1, <2>2, <3>1, <3>3
      <4>. QED  BY <1>1, <1>4, <1>6, <4>1 DEF LabelsRead
    <3>. QED  BY <3>2, <3>3
  <2>. QED  BY <2>1, <2>2 DEF LabelsRead
<1>10. HeadsKnown(g, spec, sheet, p[1]) /\ EndsKnown(g, spec, sheet, p[1]) /\ DataRead(g, sheet, p[1])
  BY <1>1, <1>3, <1>4, <1>6 DEF HeadsKnown, EndsKnown, DataRead
<1>11. \A q \in CellsOf(sheet) : q # p => (~Before(at, q) <=> ~Before(p, q))
  BY <1>2, BeforeLeft
<1>12. Tentative(g, spec, sheet, p) = Tentative(h, spec, sheet, at)
  <2> SUFFICES ASSUME NEW x \in CellsOf(sheet) \ Labels(spec, sheet), x[1] = p[1], ~Before(p, x),
                      Left(x) \in Labels(spec, sheet), HeadsColumn(spec, sheet, Left(x))
               PROVE  g.detected[Label(spec, sheet, Left(x))] = h.detected[Label(spec, sheet, Left(x))]
    BY <1>11, BeforeLeft, <1>2 DEF Tentative
  <2>1. x = <<x[1], x[2]>> /\ x[1] \in Nat /\ x[2] \in Nat
    BY CellsAre
  <2>2. Before(Left(x), p)
    BY <1>2, <2>1 DEF Left, Before
  <2>3. Left(x) \in DOMAIN h.labels
    BY <1>1, <1>7, <2>2 DEF LabelsRead
  <2>. QED  BY <1>1, <1>4, <1>6, <2>3 DEF LabelsRead
<1>13. Read(spec, sheet, p) = Read(spec, sheet, at) /\ FieldsRead(spec, sheet, p) = FieldsRead(spec, sheet, at)
  <2>1. \A q \in Values(spec, sheet) : q \in CellsOf(sheet) /\ q # p
    BY DEF Values
  <2>2. Read(spec, sheet, p) = Read(spec, sheet, at)
    BY <1>11, <2>1 DEF Read
  <2>. QED  BY <2>2 DEF FieldsRead
<1>14. ValuesRead(g, spec, sheet, p)
  BY <1>1, <1>3, <1>12, <1>13 DEF ValuesRead
<1>15. TempRead(g, spec, sheet, p)
  <2>1. \A f, q : LastOf(spec, sheet, at, f, q) <=> LastOf(spec, sheet, p, f, q)
    BY <1>13 DEF LastOf
  <2>. QED  BY <1>1, <1>3, <1>12, <1>13, <2>1 DEF TempRead
<1>16. p \notin DOMAIN g.values
  BY <1>14 DEF ValuesRead, Tentative, Read, Values
<1>. QED  BY <1>5, <1>9, <1>10, <1>14, <1>15, <1>16 DEF HandlerKnows, g

\* The row a cell ends has the last value of every field.
LEMMA RowAtIs ==
  ASSUME NEW spec, IsSpec(spec), NEW sheet, IsSheet(sheet), NEW p \in CellsOf(sheet),
         NEW row, row = [f \in DOMAIN row |-> row[f]], DOMAIN row = FieldsRead(spec, sheet, p),
         \A f \in DOMAIN row :
           \E q \in Read(spec, sheet, p) : LastOf(spec, sheet, p, f, q) /\ row[f] = sheet[q[1]][q[2]]
  PROVE  row = RowAt(spec, sheet, p)
<1> DEFINE read == {q \in Values(spec, sheet) : q = p \/ Before(q, p)}
           last(f) == CHOOSE q \in read : /\ FieldAt(spec, sheet, q) = f
                                          /\ \A r \in read : FieldAt(spec, sheet, r) = f => ~Before(q, r)
<1>1. read = Read(spec, sheet, p)
  <2>1. \A q \in Values(spec, sheet) : q \in CellsOf(sheet)
    BY DEF Values
  <2>. QED  BY <2>1, BeforeLeft DEF Read
<1>2. RowAt(spec, sheet, p) = [f \in FieldsRead(spec, sheet, p) |-> sheet[last(f)[1]][last(f)[2]]]
  BY <1>1 DEF RowAt, FieldsRead
<1>3. read \subseteq Place
  BY CellsAre DEF Values, Place
<1>4. ASSUME NEW f \in DOMAIN row
      PROVE  row[f] = sheet[last(f)[1]][last(f)[2]]
  <2>1. PICK q \in read : LastOf(spec, sheet, p, f, q) /\ row[f] = sheet[q[1]][q[2]]
    BY <1>1
  <2>2. FieldAt(spec, sheet, q) = f /\ \A r \in read : FieldAt(spec, sheet, r) = f => ~Before(q, r)
    BY <1>1, <2>1 DEF LastOf
  <2>3. /\ last(f) \in read /\ FieldAt(spec, sheet, last(f)) = f
        /\ \A r \in read : FieldAt(spec, sheet, r) = f => ~Before(last(f), r)
    <3> HIDE DEF read
    <3>. QED  BY <2>2
  <2>4. last(f) = q
    <3> HIDE DEF last
    <3>. QED  BY <1>3, <2>2, <2>3, InOrder
  <2>. QED  BY <2>1, <2>4
<1> HIDE DEF last
<1>. QED  BY <1>2, <1>4

\* Another value of a field is its last.
LEMMA OneMoreValue ==
  ASSUME NEW spec, IsSpec(spec), NEW sheet, IsSheet(sheet), NEW p \in Values(spec, sheet)
  PROVE  /\ Read(spec, sheet, p) = Read(spec, sheet, Left(p)) \cup {p} /\ p \notin Read(spec, sheet, Left(p))
         /\ FieldsRead(spec, sheet, p) = FieldsRead(spec, sheet, Left(p)) \cup {FieldAt(spec, sheet, p)}
         /\ LastOf(spec, sheet, p, FieldAt(spec, sheet, p), p)
         /\ \A f, q : f # FieldAt(spec, sheet, p) /\ LastOf(spec, sheet, Left(p), f, q) => LastOf(spec, sheet, p, f, q)
<1>1. p \in CellsOf(sheet) /\ \A q \in Values(spec, sheet) : q \in CellsOf(sheet)
  BY DEF Values
<1>2. ~Before(p, p)
  BY <1>1, CellsAre DEF Before
<1>3. Read(spec, sheet, p) = Read(spec, sheet, Left(p)) \cup {p} /\ p \notin Read(spec, sheet, Left(p))
  BY <1>1, <1>2, BeforeLeft DEF Read
<1>4. FieldsRead(spec, sheet, p) = FieldsRead(spec, sheet, Left(p)) \cup {FieldAt(spec, sheet, p)}
  BY <1>3 DEF FieldsRead
<1>5. LastOf(spec, sheet, p, FieldAt(spec, sheet, p), p)
  BY <1>3 DEF LastOf, Read
<1>6. \A f, q : f # FieldAt(spec, sheet, p) /\ LastOf(spec, sheet, Left(p), f, q) => LastOf(spec, sheet, p, f, q)
  BY <1>3 DEF LastOf
<1>. QED  BY <1>3, <1>4, <1>5, <1>6

\* RecognizeFieldValueCell: a cell that is neither a label nor a value changes
\* nothing that is known.
LEMMA NoValue ==
  ASSUME NEW spec, IsSpec(spec), NEW sheet, IsSheet(sheet),
         NEW p \in CellsOf(sheet) \ Labels(spec, sheet), p \notin Values(spec, sheet)
  PROVE  /\ Read(spec, sheet, p) = Read(spec, sheet, Left(p)) /\ FieldsRead(spec, sheet, p) = FieldsRead(spec, sheet, Left(p))
         /\ \A f, q : LastOf(spec, sheet, p, f, q) <=> LastOf(spec, sheet, Left(p), f, q)
<1>1. \A q \in Values(spec, sheet) : q \in CellsOf(sheet)
  BY DEF Values
<1>2. Read(spec, sheet, p) = Read(spec, sheet, Left(p))
  BY <1>1, BeforeLeft DEF Read
<1>. QED  BY <1>2 DEF FieldsRead, LastOf

\* The tentative values up to a cell are those up to the one before it, and the
\* cell itself if it is one.
LEMMA TentativeUpTo ==
  ASSUME NEW spec, IsSpec(spec), NEW sheet, IsSheet(sheet), NEW p \in CellsOf(sheet) \ Labels(spec, sheet),
         NEW h, NEW g, g.detected = h.detected
  PROVE  /\ Tentative(g, spec, sheet, p) =
              IF p \in Tentative(h, spec, sheet, p) THEN Tentative(h, spec, sheet, Left(p)) \cup {p}
              ELSE Tentative(h, spec, sheet, Left(p))
         /\ p \notin Tentative(h, spec, sheet, Left(p))
<1>1. /\ \A q \in CellsOf(sheet) : ~Before(p, q) <=> (~Before(Left(p), q) \/ q = p)
      /\ ~Before(p, p) /\ Before(Left(p), p) /\ Left(p)[1] = p[1]
  BY CellsAre, BeforeLeft DEF Before
<1>2. \A x : x \in Tentative(g, spec, sheet, p) <=> x \in Tentative(h, spec, sheet, p)
  BY DEF Tentative
<1>3. \A x : x # p => (x \in Tentative(h, spec, sheet, p) <=> x \in Tentative(h, spec, sheet, Left(p)))
  BY <1>1 DEF Tentative
<1>4. p \notin Tentative(h, spec, sheet, Left(p))
  BY <1>1 DEF Tentative
<1>. QED  BY <1>2, <1>3, <1>4

\* RecognizeFieldValueCell and handleCell: the value is read that the sheet
\* has there, and a row is complete where one ends.
LEMMA AddValueIs ==
  ASSUME NEW spec, IsSpec(spec), NEW sheet, IsSheet(sheet), Unambiguous(spec, sheet),
         NEW p \in CellsOf(sheet) \ Labels(spec, sheet), NEW h, HandlerKnows(h, spec, sheet, Left(p))
  PROVE  LET g == AddValue(h, spec, p, sheet[p[1]][p[2]])
             ends == p \in DOMAIN g.values /\ g.end[g.values[p]] = "yes"
         IN /\ HandlerKnows(g, spec, sheet, p)
            /\ ends <=> p \in Values(spec, sheet) /\ EndsRow(spec, sheet, p)
            /\ ends => g.temp = RowAt(spec, sheet, p)
<1> DEFINE cell == sheet[p[1]][p[2]]
           at == Left(p)
           f == FindLabel(h, spec, p)
           g == AddValue(h, spec, p, cell)
           skipped == f = None \/ (spec.fields[f].range = "table" /\ ~spec.fields[f].emptyValue /\ cell = Empty)
           ends == p \in DOMAIN g.values /\ g.end[g.values[p]] = "yes"
           T == Tentative(h, spec, sheet, at)
<1>1. /\ Carried(h, spec, sheet) /\ LabelsRead(h, spec, sheet, at) /\ HeadsKnown(h, spec, sheet, p[1])
      /\ EndsKnown(h, spec, sheet, p[1]) /\ DataRead(h, sheet, p[1])
      /\ ValuesRead(h, spec, sheet, at) /\ TempRead(h, spec, sheet, at)
      /\ IsHandler(h, spec) /\ EndFits(h, spec, sheet)
  BY DEF HandlerKnows, Carried, Left
<1>2. p \in CellsOf(sheet) /\ p = <<p[1], p[2]>> /\ p[1] \in Nat /\ p[2] \in Nat /\ p \in Place /\ p \notin Labels(spec, sheet)
  BY CellsAre DEF Place
<1>3. f = IF p \in Tentative(h, spec, sheet, p) THEN Label(spec, sheet, Left(p))
          ELSE IF LabelOf(spec, sheet, p) = {} THEN None ELSE FieldAt(spec, sheet, p)
  BY <1>1, FindLabelIs
<1>4. g = IF skipped THEN h ELSE [h EXCEPT !.values = With(@, p, f), !.temp = With(@, f, cell)]
  BY DEF AddValue
<1> HIDE DEF f, g
<1>5. /\ IsHandler(g, spec) /\ g.detected = h.detected /\ g.end = h.end /\ g.labels = h.labels /\ g.data = h.data
      /\ g.values = IF skipped THEN h.values ELSE With(h.values, p, f)
      /\ g.temp = IF skipped THEN h.temp ELSE With(h.temp, f, cell)
  <2> HIDE DEF skipped
  <2>. QED  BY <1>1, <1>4 DEF IsHandler
<1> HIDE DEF skipped
<1>6. Carried(g, spec, sheet) /\ HeadsKnown(g, spec, sheet, p[1]) /\ EndsKnown(g, spec, sheet, p[1]) /\ DataRead(g, sheet, p[1])
  BY <1>1, <1>5 DEF Carried, DetectedFits, EndFits, HeadsKnown, EndsKnown, DataRead
<1>7. LabelsRead(g, spec, sheet, p)
  <2>1. \A q \in Labels(spec, sheet) : ~Before(p, q) <=> ~Before(at, q)
    BY BeforeLeft DEF Labels
  <2>. QED  BY <1>1, <1>5, <2>1 DEF LabelsRead
<1>8. /\ Tentative(g, spec, sheet, p) = IF p \in Tentative(h, spec, sheet, p) THEN T \cup {p} ELSE T
      /\ p \notin T
  BY <1>5, TentativeUpTo
<1>9. CASE p \in Tentative(h, spec, sheet, p)
  <2>1. /\ f = Label(spec, sheet, Left(p)) /\ f \in DOMAIN spec.fields /\ spec.fields[f].range = "auto" /\ h.end[f] # "yes"
        /\ p \notin Values(spec, sheet) /\ f \notin FieldsRead(spec, sheet, p)
    BY <1>1, <1>2, <1>3, <1>9, TentativeIs
  <2>2. ~skipped
    <3>1. f # None
      BY <2>1 DEF IsSpec, IsSeq, None
    <3>. QED  BY <2>1, <3>1 DEF skipped
  <2>3. g.values = With(h.values, p, f) /\ g.temp = With(h.temp, f, cell)
    BY <1>5, <2>2
  <2>4. /\ Read(spec, sheet, p) = Read(spec, sheet, at) /\ FieldsRead(spec, sheet, p) = FieldsRead(spec, sheet, at)
        /\ \A e, q : LastOf(spec, sheet, p, e, q) <=> LastOf(spec, sheet, at, e, q)
    BY <2>1, NoValue
  <2>5. Tentative(g, spec, sheet, p) = T \cup {p}
    BY <1>8, <1>9
  <2>6. ValuesRead(g, spec, sheet, p)
    <3>1. /\ DOMAIN g.values = DOMAIN h.values \cup {p} /\ g.values[p] = f
          /\ \A x \in DOMAIN h.values : x # p => g.values[x] = h.values[x]
      BY <2>3 DEF With
    <3> HIDE DEF T
    <3>2. DOMAIN h.values = Read(spec, sheet, at) \cup T /\ \A x \in T : h.values[x] = Label(spec, sheet, Left(x))
      BY <1>1 DEF ValuesRead, T
    <3>3. \A x \in T \cup {p} : g.values[x] = Label(spec, sheet, Left(x))
      BY <1>8, <2>1, <3>1, <3>2
    <3>. QED  BY <2>4, <2>5, <3>1, <3>2, <3>3 DEF ValuesRead
  <2>7. TempRead(g, spec, sheet, p)
    <3>1. /\ DOMAIN g.temp = DOMAIN h.temp \cup {f}
          /\ \A x \in DOMAIN h.temp : x # f => g.temp[x] = h.temp[x]
      BY <2>3 DEF With
    <3>2. DOMAIN g.temp = FieldsRead(spec, sheet, p)
                            \cup {Label(spec, sheet, Left(x)) : x \in Tentative(g, spec, sheet, p)}
      <4> HIDE DEF T
      <4>1. DOMAIN h.temp = FieldsRead(spec, sheet, at) \cup {Label(spec, sheet, Left(x)) : x \in T}
        BY <1>1 DEF TempRead, T
      <4>2. {Label(spec, sheet, Left(x)) : x \in T \cup {p}} = {Label(spec, sheet, Left(x)) : x \in T} \cup {f}
        BY <2>1
      <4>. QED  BY <2>4, <2>5, <3>1, <4>1, <4>2
    <3>3. \A e \in FieldsRead(spec, sheet, p) : g.temp[e] = h.temp[e]
      BY <1>1, <2>1, <2>4, <3>1 DEF TempRead
    <3>. QED  BY <1>1, <2>4, <3>2, <3>3 DEF TempRead
  <2>8. ~ends
    <3>1. g.values[p] = f
      BY <2>3 DEF With
    <3>. QED  BY <1>5, <2>1, <3>1
  <2>. QED  BY <1>6, <1>7, <2>1, <2>6, <2>7, <2>8 DEF HandlerKnows, g
<1>10. CASE p \notin Tentative(h, spec, sheet, p) /\ p \notin Values(spec, sheet)
  <2>1. skipped
    <3>1. CASE LabelOf(spec, sheet, p) = {}
      BY <1>3, <1>10, <3>1 DEF skipped
    <3>2. CASE LabelOf(spec, sheet, p) # {}
      <4>1. PICK q \in LabelOf(spec, sheet, p) : TRUE
        BY <3>2
      <4>2. f = Label(spec, sheet, q)
        BY <1>2, <1>3, <1>10, <4>1, OneLabel
      <4>. QED  BY <1>2, <1>10, <4>1, <4>2 DEF skipped, Values
    <3>. QED  BY <3>1, <3>2
  <2>2. g.values = h.values /\ g.temp = h.temp /\ Tentative(g, spec, sheet, p) = T
    BY <1>5, <1>8, <1>10, <2>1
  <2>3. /\ Read(spec, sheet, p) = Read(spec, sheet, at) /\ FieldsRead(spec, sheet, p) = FieldsRead(spec, sheet, at)
        /\ \A e, q : LastOf(spec, sheet, p, e, q) <=> LastOf(spec, sheet, at, e, q)
    BY <1>10, NoValue
  <2>4. ValuesRead(g, spec, sheet, p) /\ TempRead(g, spec, sheet, p)
    BY <1>1, <2>2, <2>3 DEF ValuesRead, TempRead
  <2>5. p \notin DOMAIN g.values
    BY <1>8, <1>10, <2>2, <2>4 DEF ValuesRead, Read
  <2>. QED  BY <1>6, <1>7, <1>10, <2>4, <2>5 DEF HandlerKnows, g
<1>11. CASE p \notin Tentative(h, spec, sheet, p) /\ p \in Values(spec, sheet)
  <2>1. PICK q \in LabelOf(spec, sheet, p) :
          cell = Empty /\ spec.fields[Label(spec, sheet, q)].range = "table" =>
            spec.fields[Label(spec, sheet, q)].emptyValue
    BY <1>11 DEF Values
  <2>2. /\ q \in Labels(spec, sheet) /\ LabelOf(spec, sheet, p) = {q}
        /\ f = Label(spec, sheet, q) /\ f = FieldAt(spec, sheet, p)
        /\ HeadsColumn(spec, sheet, q) => q[1] < p[1]
    BY <1>2, <1>3, <1>11, <2>1, OneLabel
  <2>3. f \in DOMAIN spec.fields /\ f # None
    <3>1. q \in Labels(spec, sheet)
      BY <2>2
    <3>2. Label(spec, sheet, q) \in DOMAIN spec.fields
      BY <3>1, LabelsAre
    <3>. QED  BY <2>2, <3>2 DEF IsSpec, IsSeq, None
  <2>4. ~skipped
    BY <2>1, <2>2, <2>3 DEF skipped
  <2>5. g.values = With(h.values, p, f) /\ g.temp = With(h.temp, f, cell) /\ Tentative(g, spec, sheet, p) = T
    BY <1>5, <1>8, <1>11, <2>4
  <2>6. /\ Read(spec, sheet, p) = Read(spec, sheet, at) \cup {p} /\ p \notin Read(spec, sheet, at)
        /\ FieldsRead(spec, sheet, p) = FieldsRead(spec, sheet, at) \cup {f}
        /\ LastOf(spec, sheet, p, f, p)
        /\ \A e, x : e # f /\ LastOf(spec, sheet, at, e, x) => LastOf(spec, sheet, p, e, x)
    BY <1>11, <2>2, OneMoreValue
  <2>7. /\ DOMAIN g.values = DOMAIN h.values \cup {p} /\ g.values[p] = f
        /\ \A x \in DOMAIN h.values : x # p => g.values[x] = h.values[x]
        /\ DOMAIN g.temp = DOMAIN h.temp \cup {f} /\ g.temp[f] = cell
        /\ \A x \in DOMAIN h.temp : x # f => g.temp[x] = h.temp[x]
    BY <2>5 DEF With
  <2>8. ValuesRead(g, spec, sheet, p)
    BY <1>1, <1>8, <2>5, <2>6, <2>7 DEF ValuesRead
  <2>9. \A e \in FieldsRead(spec, sheet, p) :
          \E x \in Read(spec, sheet, p) : LastOf(spec, sheet, p, e, x) /\ g.temp[e] = sheet[x[1]][x[2]]
    <3> SUFFICES ASSUME NEW e \in FieldsRead(spec, sheet, p)
                 PROVE  \E x \in Read(spec, sheet, p) : LastOf(spec, sheet, p, e, x) /\ g.temp[e] = sheet[x[1]][x[2]]
      OBVIOUS
    <3>1. CASE e = f
      BY <2>6, <2>7, <3>1
    <3>2. CASE e # f
      <4>1. e \in FieldsRead(spec, sheet, at)
        BY <2>6, <3>2
      <4>2. PICK x \in Read(spec, sheet, at) : LastOf(spec, sheet, at, e, x) /\ h.temp[e] = sheet[x[1]][x[2]]
        BY <1>1, <4>1 DEF TempRead
      <4>3. g.temp[e] = h.temp[e]
        BY <1>1, <2>7, <3>2, <4>1 DEF TempRead
      <4>. QED  BY <2>6, <3>2, <4>2, <4>3
    <3>. QED  BY <3>1, <3>2
  <2>10. TempRead(g, spec, sheet, p)
    BY <1>1, <2>5, <2>6, <2>7, <2>9 DEF TempRead
  <2>11. ends <=> EndsRow(spec, sheet, p)
    <3>1. ends <=> h.end[f] = "yes"
      BY <1>5, <2>7
    <3>2. EndsRow(spec, sheet, p) <=> \/ spec.fields[f].endRow = "yes"
                                      \/ spec.fields[f].endRow # "no" /\ EndsTable(spec, sheet, q)
      BY <2>2 DEF EndsRow
    <3>3. ASSUME h.end[f] = "yes", spec.fields[f].endRow # "yes"
          PROVE  spec.fields[f].endRow # "no" /\ EndsTable(spec, sheet, q)
      <4>1. /\ spec.fields[f].endRow # "no"
            /\ \E r \in Labels(spec, sheet) : Label(spec, sheet, r) = f /\ EndsTable(spec, sheet, r)
        BY <1>1, <2>3, <3>3 DEF EndFits
      <4>. QED  BY <2>2, <4>1 DEF Unambiguous
    <3>4. spec.fields[f].endRow = "yes" => h.end[f] = "yes"
      BY <1>1, <2>3 DEF EndFits
    <3>5. spec.fields[f].endRow # "no" /\ EndsTable(spec, sheet, q) => h.end[f] = "yes"
      <4>1. EndsTable(spec, sheet, q) => q[1] < p[1]
        BY <2>2 DEF EndsTable
      <4>. QED  BY <1>1, <2>2, <4>1 DEF EndsKnown
    <3>. QED  BY <3>1, <3>2, <3>3, <3>4, <3>5
  <2>12. ends => g.temp = RowAt(spec, sheet, p)
    <3> HAVE ends
    <3>1. T = {}
      <4>1. at \in Place /\ at[1] = p[1]
        BY <1>2, CellsAre DEF Left, Place
      <4>2. HeadsKnown(h, spec, sheet, at[1])
        BY <1>1, <4>1
      <4>. QED  BY <1>1, <1>11, <2>11, <4>1, <4>2, TentativeIs
    <3>2. DOMAIN g.temp = FieldsRead(spec, sheet, p)
      BY <2>5, <2>10, <3>1 DEF TempRead
    <3>3. g.temp = [e \in DOMAIN g.temp |-> g.temp[e]]
      BY <2>5 DEF With
    <3>. QED  BY <1>2, <2>9, <3>2, <3>3, RowAtIs
  <2>. QED  BY <1>6, <1>7, <1>11, <2>8, <2>10, <2>11, <2>12 DEF HandlerKnows, g
<1>. QED  BY <1>9, <1>10, <1>11

\* handleCell, for the next cell of a sheet: the row it returns is the one the
\* sheet has there.
LEMMA HandleCellReads ==
  ASSUME NEW spec, IsSpec(spec), NEW sheet, IsSheet(sheet), Unambiguous(spec, sheet), NotOneColumn(spec, sheet),
         NEW at \in CellsOf(sheet) \cup {<<0, 0>>}, Later(sheet, at) # {},
         NEW h, HandlerKnows(h, spec, sheet, at)
  PROVE  LET p == NextCell(sheet, at)
             read == HandleCell(h, spec, at[1], p, sheet[p[1]][p[2]])
         IN /\ HandlerKnows(read.state, spec, sheet, p)
            /\ read.row = IF p \in Values(spec, sheet) /\ EndsRow(spec, sheet, p)
                          THEN <<RowAt(spec, sheet, p)>> ELSE <<>>
<1> DEFINE p == NextCell(sheet, at)
           cell == sheet[p[1]][p[2]]
           begun == StartRow(h, spec, at[1], p[1])
           after == IF IsLabel(spec, p[1], cell) THEN AddLabel(begun, spec, p, cell)
                    ELSE AddValue(begun, spec, p, cell)
           ends == p \in DOMAIN after.values /\ after.end[after.values[p]] = "yes"
           read == HandleCell(h, spec, at[1], p, cell)
<1>1. read.state = after /\ read.row = IF ends THEN <<after.temp>> ELSE <<>>
  BY DEF HandleCell
<1>2. at \in Place
  BY CellsAre DEF Place
<1>3. p \in CellsOf(sheet)
  BY <1>2, NextCellIsNext
<1>4. HandlerKnows(begun, spec, sheet, Left(p))
  BY <1>2, StartRowIs
<1>5. IsLabel(spec, p[1], cell) <=> p \in Labels(spec, sheet)
  BY <1>3 DEF Labels
<1> HIDE DEF p, begun, read
<1>6. CASE p \in Labels(spec, sheet)
  <2>1. after = AddLabel(begun, spec, p, cell)
    BY <1>5, <1>6
  <2>2. HandlerKnows(after, spec, sheet, p) /\ p \notin DOMAIN after.values
    BY <1>4, <1>6, <2>1, AddLabelIs
  <2>3. p \notin Values(spec, sheet)
    BY <1>6 DEF Values
  <2> HIDE DEF after
  <2>. QED  BY <1>1, <2>2, <2>3 DEF p, read
<1>7. CASE p \notin Labels(spec, sheet)
  <2>1. after = AddValue(begun, spec, p, cell)
    BY <1>5, <1>7
  <2> HIDE DEF after
  <2>2. /\ HandlerKnows(after, spec, sheet, p)
        /\ ends <=> p \in Values(spec, sheet) /\ EndsRow(spec, sheet, p)
        /\ ends => after.temp = RowAt(spec, sheet, p)
    <3> DEFINE g == AddValue(begun, spec, p, sheet[p[1]][p[2]])
               ended == p \in DOMAIN g.values /\ g.end[g.values[p]] = "yes"
    <3>1. /\ HandlerKnows(g, spec, sheet, p)
          /\ ended <=> p \in Values(spec, sheet) /\ EndsRow(spec, sheet, p)
          /\ ended => g.temp = RowAt(spec, sheet, p)
      BY <1>3, <1>4, <1>7, AddValueIs
    <3>2. g = after /\ (ended <=> ends)
      BY <2>1
    <3> HIDE DEF g, ended, ends
    <3>. QED  BY <3>1, <3>2
  <2> HIDE DEF ends
  <2>. QED  BY <1>1, <2>2 DEF p, read
<1>. QED  BY <1>6, <1>7

-----------------------------------------------------------------------------
(* From sheet to sheet.                                                      *)

\* getContentHandler: nothing is known of the fields yet.
LEMMA NewHandlerIs ==
  ASSUME NEW spec, IsSpec(spec), NEW sheet
  PROVE  Carried(NewHandler(spec), spec, sheet)
<1> DEFINE h == NewHandler(spec)
<1>1. /\ IsHandler(h, spec)
      /\ \A f \in DOMAIN spec.fields : h.detected[f] = "none" /\ h.end[f] = spec.fields[f].endRow
  BY DEF NewHandler, IsHandler
<1>. QED  BY <1>1 DEF Carried, DetectedFits, EndFits

\* resetAll: of the sheet before, only what is known of the fields is left.
LEMMA ResetAllIs ==
  ASSUME NEW spec, IsSpec(spec), NEW sheet, IsSheet(sheet), NEW h, Carried(h, spec, sheet)
  PROVE  HandlerKnows(ResetAll(h), spec, sheet, <<0, 0>>)
<1> DEFINE g == ResetAll(h)
           at == <<0, 0>>
<1>1. /\ IsHandler(g, spec) /\ g.detected = h.detected /\ g.end = h.end
      /\ g.labels = <<>> /\ g.values = <<>> /\ g.data = {} /\ g.temp = <<>>
  <2>1. IsHandler(h, spec)
    BY DEF Carried
  <2>2. g = [h EXCEPT !.labels = <<>>, !.values = <<>>, !.data = {}, !.temp = <<>>]
    BY DEF ResetAll
  <2> HIDE DEF g
  <2>. QED  BY <2>1, <2>2 DEF IsHandler
<1>2. DOMAIN <<>> = {}
  OBVIOUS
<1>3. Carried(g, spec, sheet)
  BY <1>1 DEF Carried, DetectedFits, EndFits
<1>4. \A q \in CellsOf(sheet) : Before(at, q) /\ q[1] > 0
  BY CellsAre DEF Before
<1> HIDE DEF g
<1>5. LabelsRead(g, spec, sheet, at) /\ HeadsKnown(g, spec, sheet, 0) /\ EndsKnown(g, spec, sheet, 0)
  BY <1>1, <1>2, <1>4, LabelsAre DEF LabelsRead, HeadsKnown, EndsKnown, Labels
<1>6. DataRead(g, sheet, 0)
  BY <1>1 DEF DataRead, IsSheet, IsSeq
<1>7. Tentative(g, spec, sheet, at) = {} /\ Read(spec, sheet, at) = {} /\ FieldsRead(spec, sheet, at) = {}
  BY <1>4 DEF Tentative, Read, Values, FieldsRead
<1>8. ValuesRead(g, spec, sheet, at) /\ TempRead(g, spec, sheet, at)
  BY <1>1, <1>2, <1>7 DEF ValuesRead, TempRead
<1>. QED  BY <1>3, <1>5, <1>6, <1>8 DEF HandlerKnows, g

\* In a sheet with the same labels the fields are of the same kind.
LEMMA CarriedOver ==
  ASSUME NEW spec, NEW x, NEW y, SameLayout(spec, x, y), NEW h, Carried(h, spec, x)
  PROVE  Carried(h, spec, y)
<1> DEFINE of(z) == {<<p, Label(spec, z, p)>> : p \in Labels(spec, z)}
<1>1. of(x) = of(y)
  BY DEF SameLayout
<1>2. \A p, f : <<p, f>> \in of(x) <=> p \in Labels(spec, x) /\ f = Label(spec, x, p)
  OBVIOUS
<1>3. \A p, f : <<p, f>> \in of(y) <=> p \in Labels(spec, y) /\ f = Label(spec, y, p)
  OBVIOUS
<1> HIDE DEF of
<1>4. Labels(spec, x) = Labels(spec, y) /\ \A p \in Labels(spec, x) : Label(spec, x, p) = Label(spec, y, p)
  BY <1>1, <1>2, <1>3
<1>5. \A p \in Labels(spec, x) : HeadsColumn(spec, x, p) <=> HeadsColumn(spec, y, p)
  BY <1>4 DEF HeadsColumn
<1>6. \A p \in Labels(spec, x) : EndsTable(spec, x, p) <=> EndsTable(spec, y, p)
  BY <1>4, <1>5 DEF EndsTable
<1>. QED  BY <1>4, <1>5, <1>6 DEF Carried, DetectedFits, EndFits

\* The sheets up to an earlier selector are laid out alike, and well, too.
LEMMA WellLaidOutBefore ==
  ASSUME NEW name, NEW m \in Visits(name), NEW n \in Visits(name), m \in Nat, n \in Nat, m <= n,
         Visits(name) \subseteq Nat, WellLaidOut(name, n)
  PROVE  /\ WellLaidOut(name, m) /\ SameLayout(File[name].spec, Visited(name, m), Visited(name, n))
         /\ Unambiguous(File[name].spec, Visited(name, m)) /\ NotOneColumn(File[name].spec, Visited(name, m))
<1> DEFINE spec == File[name].spec
<1>1. \A k \in Visits(name) : k <= m => k <= n
  OBVIOUS
<1>2. \A k \in Visits(name) : k <= n =>
        /\ SameLayout(spec, Visited(name, k), Visited(name, n)) /\ Unambiguous(spec, Visited(name, k))
        /\ NotOneColumn(spec, Visited(name, k))
  BY DEF WellLaidOut, AlikeUpTo
<1>3. \A x, y, z : SameLayout(spec, x, z) /\ SameLayout(spec, y, z) => SameLayout(spec, x, y)
  BY DEF SameLayout
<1>4. \A k \in Visits(name) : k <= m => SameLayout(spec, Visited(name, k), Visited(name, m))
  BY <1>1, <1>2, <1>3
<1>. QED  BY <1>1, <1>2, <1>4 DEF WellLaidOut, AlikeUpTo

-----------------------------------------------------------------------------
(* The rows of an import.                                                    *)

\* Rows are numbered by the selectors they come from, and come in their order.
NumberedUpTo(rows, n) ==
  IsSeq(rows) /\ \A k \in DOMAIN rows : rows[k].visit \in Nat /\ rows[k].visit <= n
RowsRead(rows, n, ref) ==
  IsFiniteSet(ref) /\ (\A r \in ref : r.at \in Place) /\ ReadAs(rows, n, ref)

Earlier(rows, n) == {k \in DOMAIN rows : rows[k].visit < n}
OfVisit(rows, n) == {k \in DOMAIN rows : rows[k].visit = n}
UpTo(ref, r) == {q \in ref : ~Before(r.at, q.at)}

LEMMA RowsCount ==
  ASSUME NEW rows, NEW n \in Nat, NEW m \in Nat, m <= n, NumberedUpTo(rows, n)
  PROVE  /\ IsFiniteSet(Earlier(rows, m)) /\ IsFiniteSet(OfVisit(rows, m))
         /\ Cardinality(Earlier(rows, m)) \in Nat /\ Cardinality(OfVisit(rows, m)) \in Nat
         /\ Cardinality(Earlier(rows, m)) + Cardinality(OfVisit(rows, m)) <= Len(rows)
         /\ m = n => Cardinality(Earlier(rows, m)) + Cardinality(OfVisit(rows, m)) = Len(rows)
<1> DEFINE E == Earlier(rows, m)
           V == OfVisit(rows, m)
<1>1. Len(rows) \in Nat /\ DOMAIN rows = 1..Len(rows)
  BY DEF NumberedUpTo, IsSeq
<1>2. IsFiniteSet(1..Len(rows)) /\ Cardinality(1..Len(rows)) = Len(rows)
  <2>1. 1 \in Int /\ Len(rows) \in Int
    BY <1>1
  <2>2. IsFiniteSet(1..Len(rows)) /\ Cardinality(1..Len(rows)) = IF 1 > Len(rows) THEN 0 ELSE Len(rows) - 1 + 1
    BY <2>1, FS_Interval
  <2>. QED  BY <1>1, <2>2
<1>3. E \subseteq 1..Len(rows) /\ V \subseteq 1..Len(rows) /\ E \cup V \subseteq 1..Len(rows)
  BY <1>1 DEF Earlier, OfVisit
<1>4. E \cap V = {}
  BY DEF Earlier, OfVisit, NumberedUpTo
<1> HIDE DEF E, V
<1>5. IsFiniteSet(E) /\ IsFiniteSet(V) /\ Cardinality(E) \in Nat /\ Cardinality(V) \in Nat
  BY <1>2, <1>3, FS_Subset, FS_CardinalityType
<1>6. Cardinality(E \cup V) = Cardinality(E) + Cardinality(V)
  <2>1. Cardinality(E \cup V) = Cardinality(E) + Cardinality(V) - Cardinality(E \cap V)
    BY <1>5, FS_Union
  <2>2. Cardinality(E \cap V) = 0
    BY <1>4, FS_EmptySet
  <2>. QED  BY <1>5, <2>1, <2>2
<1>7. Cardinality(E \cup V) <= Len(rows)
  BY <1>2, <1>3, FS_Subset
<1>8. m = n => E \cup V = 1..Len(rows)
  BY <1>1 DEF E, V, Earlier, OfVisit, NumberedUpTo
<1>. QED  BY <1>2, <1>5, <1>6, <1>7, <1>8 DEF E, V

\* ReadAs, with names for the sets it counts.
LEMMA ReadAsIs ==
  ASSUME NEW rows, NEW n, NEW ref
  PROVE  ReadAs(rows, n, ref) <=>
           /\ Cardinality(OfVisit(rows, n)) = Cardinality(ref)
           /\ \A r \in ref :
                LET row == rows[Cardinality(Earlier(rows, n)) + Cardinality(UpTo(ref, r))]
                IN row.visit = n /\ row.values = r.values
BY DEF ReadAs, OfVisit, Earlier, UpTo

\* Every row of the reference has its place among the rows.
LEMMA RowHasPlace ==
  ASSUME NEW rows, NEW n \in Nat, NEW m \in Nat, m <= n, NumberedUpTo(rows, n),
         NEW ref, RowsRead(rows, m, ref), NEW r \in ref
  PROVE  Cardinality(Earlier(rows, m)) + Cardinality(UpTo(ref, r)) \in 1..Len(rows)
<1>1. r \in UpTo(ref, r) /\ UpTo(ref, r) \subseteq ref
  BY DEF UpTo, RowsRead, Before, Place
<1>2. IsFiniteSet(ref) /\ Cardinality(OfVisit(rows, m)) = Cardinality(ref)
  BY ReadAsIs DEF RowsRead
<1>3. IsFiniteSet(UpTo(ref, r)) /\ Cardinality(UpTo(ref, r)) <= Cardinality(ref)
  BY <1>1, <1>2, FS_Subset
<1>4. Cardinality(UpTo(ref, r)) \in Nat /\ Cardinality(UpTo(ref, r)) # 0
  BY <1>1, <1>3, FS_CardinalityType, FS_EmptySet
<1>5. Len(rows) \in Nat /\ Cardinality(ref) \in Nat
  BY <1>2, FS_CardinalityType DEF NumberedUpTo, IsSeq
<1>. QED  BY <1>2, <1>3, <1>4, <1>5, RowsCount

LEMMA AppendIs ==
  ASSUME NEW rows, NEW n \in Nat, NumberedUpTo(rows, n), NEW row, row.visit = n
  PROVE  LET new == Append(rows, row) IN
         /\ NumberedUpTo(new, n) /\ Len(new) = Len(rows) + 1 /\ new[Len(rows) + 1] = row
         /\ \A k \in 1..Len(rows) : new[k] = rows[k]
         /\ \A m \in Nat : m <= n => Earlier(new, m) = Earlier(rows, m)
         /\ \A m \in Nat : m < n => OfVisit(new, m) = OfVisit(rows, m)
         /\ OfVisit(new, n) = OfVisit(rows, n) \cup {Len(rows) + 1}
<1> DEFINE new == Append(rows, row)
<1>1. Len(rows) \in Nat /\ DOMAIN rows = 1..Len(rows)
  BY DEF NumberedUpTo, IsSeq
<1>2. /\ Len(new) = Len(rows) + 1 /\ DOMAIN new = 1..(Len(rows) + 1) /\ new[Len(rows) + 1] = row
      /\ \A k \in 1..Len(rows) : new[k] = rows[k]
  BY <1>1
<1> HIDE DEF new
<1>3. DOMAIN new = DOMAIN rows \cup {Len(rows) + 1} /\ Len(rows) + 1 \notin DOMAIN rows
  BY <1>1, <1>2
<1>4. NumberedUpTo(new, n)
  BY <1>1, <1>2, <1>3 DEF NumberedUpTo, IsSeq
<1>5. \A m \in Nat : m <= n => Earlier(new, m) = Earlier(rows, m)
  BY <1>1, <1>2, <1>3 DEF Earlier
<1>6. \A m \in Nat : m < n => OfVisit(new, m) = OfVisit(rows, m)
  BY <1>1, <1>2, <1>3 DEF OfVisit
<1>7. OfVisit(new, n) = OfVisit(rows, n) \cup {Len(rows) + 1}
  BY <1>1, <1>2, <1>3 DEF OfVisit
<1>. QED  BY <1>2, <1>4, <1>5, <1>6, <1>7 DEF new

\* A row more leaves those of the sheets before as they are.
LEMMA AppendKeeps ==
  ASSUME NEW rows, NEW n \in Nat, NEW m \in Nat, m < n, NumberedUpTo(rows, n),
         NEW ref, RowsRead(rows, m, ref), NEW row, row.visit = n
  PROVE  RowsRead(Append(rows, row), m, ref)
<1> DEFINE new == Append(rows, row)
<1>1. /\ Earlier(new, m) = Earlier(rows, m) /\ OfVisit(new, m) = OfVisit(rows, m)
      /\ \A k \in 1..Len(rows) : new[k] = rows[k]
  BY AppendIs
<1> HIDE DEF new
<1>2. Cardinality(OfVisit(new, m)) = Cardinality(ref)
  BY <1>1, ReadAsIs DEF RowsRead
<1>3. ASSUME NEW r \in ref
      PROVE  LET old == new[Cardinality(Earlier(new, m)) + Cardinality(UpTo(ref, r))]
             IN old.visit = m /\ old.values = r.values
  <2> DEFINE k == Cardinality(Earlier(rows, m)) + Cardinality(UpTo(ref, r))
  <2>1. k \in 1..Len(rows)
    BY RowHasPlace
  <2>2. rows[k].visit = m /\ rows[k].values = r.values
    BY ReadAsIs DEF RowsRead
  <2> HIDE DEF k
  <2>3. new[k] = rows[k]
    BY <1>1, <2>1
  <2>. QED  BY <1>1, <2>2, <2>3 DEF k
<1>4. ReadAs(new, m, ref)
  BY <1>2, <1>3, ReadAsIs
<1>. QED  BY <1>4 DEF RowsRead, new

\* The row of a later cell comes last.
LEMMA AppendReads ==
  ASSUME NEW rows, NEW n \in Nat, NumberedUpTo(rows, n),
         NEW ref, RowsRead(rows, n, ref), NEW r0, r0.at \in Place, \A r \in ref : Before(r.at, r0.at),
         NEW row, row.visit = n, row.values = r0.values
  PROVE  RowsRead(Append(rows, row), n, ref \cup {r0})
<1> DEFINE new == Append(rows, row)
           all == ref \cup {r0}
<1>1. /\ Earlier(new, n) = Earlier(rows, n) /\ OfVisit(new, n) = OfVisit(rows, n) \cup {Len(rows) + 1}
      /\ new[Len(rows) + 1] = row /\ \A k \in 1..Len(rows) : new[k] = rows[k]
  BY AppendIs
<1> HIDE DEF new
<1>2. IsFiniteSet(ref) /\ Cardinality(ref) \in Nat /\ Cardinality(OfVisit(rows, n)) = Cardinality(ref)
  BY ReadAsIs, FS_CardinalityType DEF RowsRead
<1>3. Len(rows) \in Nat /\ Len(rows) + 1 \notin OfVisit(rows, n)
  BY DEF NumberedUpTo, IsSeq, OfVisit
<1>4. r0 \notin ref
  BY DEF Before, Place
<1>5. IsFiniteSet(all) /\ Cardinality(all) = Cardinality(ref) + 1
  BY <1>2, <1>4, FS_AddElement
<1>6. Cardinality(OfVisit(new, n)) = Cardinality(all)
  <2>1. IsFiniteSet(OfVisit(rows, n))
    BY RowsCount
  <2>2. Cardinality(OfVisit(rows, n) \cup {Len(rows) + 1}) = Cardinality(OfVisit(rows, n)) + 1
    BY <1>3, <2>1, FS_AddElement
  <2>. QED  BY <1>1, <1>2, <1>5, <2>2
<1>7. Cardinality(Earlier(rows, n)) + Cardinality(ref) = Len(rows) /\ Cardinality(Earlier(rows, n)) \in Nat
  BY <1>2, RowsCount
<1>8. ASSUME NEW r \in all
      PROVE  LET that == new[Cardinality(Earlier(new, n)) + Cardinality(UpTo(all, r))]
             IN that.visit = n /\ that.values = r.values
  <2>1. CASE r = r0
    <3>1. UpTo(all, r) = all
      BY <2>1, InOrder DEF UpTo, RowsRead
    <3>2. Cardinality(Earlier(new, n)) + Cardinality(UpTo(all, r)) = Len(rows) + 1
      <4>1. Cardinality(UpTo(all, r)) = Cardinality(ref) + 1 /\ Cardinality(Earlier(new, n)) = Cardinality(Earlier(rows, n))
        BY <1>1, <1>5, <3>1
      <4>. QED  BY <1>2, <1>7, <4>1
    <3>. QED  BY <1>1, <2>1, <3>2
  <2>2. CASE r \in ref
    <3> DEFINE k == Cardinality(Earlier(rows, n)) + Cardinality(UpTo(ref, r))
    <3>1. UpTo(all, r) = UpTo(ref, r)
      BY <2>2 DEF UpTo
    <3>2. k \in 1..Len(rows) /\ rows[k].visit = n /\ rows[k].values = r.values
      BY <2>2, RowHasPlace, ReadAsIs DEF RowsRead
    <3> HIDE DEF k
    <3>3. new[k] = rows[k]
      BY <1>1, <3>2
    <3>. QED  BY <1>1, <3>1, <3>2, <3>3 DEF k
  <2>. QED  BY <2>1, <2>2
<1>9. ReadAs(new, n, all)
  BY <1>6, <1>8, ReadAsIs
<1>10. \A r \in all : r.at \in Place
  BY DEF RowsRead
<1>. QED  BY <1>5, <1>9, <1>10 DEF RowsRead, new

\* The cells of a sheet after the last one end no row.
RowsUpTo(spec, sheet, at) == {r \in RowsIn(spec, sheet) : ~Before(at, r.at)}

\* A row more is read where the sheet ends one.
LEMMA RowsUpToNext ==
  ASSUME NEW spec, NEW sheet, IsSheet(sheet), NEW at \in Place, Later(sheet, at) # {}
  PROVE  LET p == NextCell(sheet, at) IN
         /\ RowsUpTo(spec, sheet, p) =
              IF p \in Values(spec, sheet) /\ EndsRow(spec, sheet, p)
              THEN RowsUpTo(spec, sheet, at) \cup {[at |-> p, values |-> RowAt(spec, sheet, p)]}
              ELSE RowsUpTo(spec, sheet, at)
         /\ \A r \in RowsUpTo(spec, sheet, at) : Before(r.at, p)
<1> DEFINE p == NextCell(sheet, at)
           Ends(q) == q \in Values(spec, sheet) /\ EndsRow(spec, sheet, q)
           Row(q) == [at |-> q, values |-> RowAt(spec, sheet, q)]
<1>1. /\ p \in CellsOf(sheet) /\ Before(at, p)
      /\ \A q \in CellsOf(sheet) : Before(at, q) <=> ~Before(q, p)
  BY NextCellIsNext
<1> HIDE DEF p
<1>2. \A q \in CellsOf(sheet) : ~Before(p, q) <=> ~Before(at, q) \/ q = p
  BY <1>1, BeforeLeft
<1>3. \A r : r \in RowsIn(spec, sheet) <=> \E q \in CellsOf(sheet) : Ends(q) /\ r = Row(q)
  BY DEF RowsIn, Values
<1>4. \A q : Row(q).at = q
  OBVIOUS
<1> HIDE DEF Ends, Row
<1>5. \A r \in RowsUpTo(spec, sheet, at) : Before(r.at, p)
  BY <1>1, <1>3, <1>4 DEF RowsUpTo
<1>6. ~Before(p, p)
  BY <1>1, CellsAre DEF Before
<1>7. ASSUME NEW r
      PROVE  r \in RowsUpTo(spec, sheet, p) <=> r \in RowsUpTo(spec, sheet, at) \/ (Ends(p) /\ r = Row(p))
  BY <1>1, <1>2, <1>3, <1>4 DEF RowsUpTo
<1>. QED  BY <1>5, <1>7 DEF Ends, Row, p

LEMMA RowsUpToEnds ==
  ASSUME NEW spec, NEW sheet, IsSheet(sheet)
  PROVE  /\ RowsUpTo(spec, sheet, <<0, 0>>) = {}
         /\ \A at : Later(sheet, at) = {} => RowsUpTo(spec, sheet, at) = RowsIn(spec, sheet)
<1>1. \A r \in RowsIn(spec, sheet) : r.at \in CellsOf(sheet)
  BY DEF RowsIn, Values
<1>2. \A q \in CellsOf(sheet) : Before(<<0, 0>>, q)
  BY CellsAre DEF Before
<1>. QED  BY <1>1, <1>2 DEF RowsUpTo, Later

-----------------------------------------------------------------------------
(* An import, from its first sheet to its last.                              *)

\* The selectors are a sequence, and those that find a sheet find one of the
\* file.
LEMMA VisitsAre ==
  ASSUME NEW name \in DOMAIN File
  PROVE  LET spec == File[name].spec
             selectors == Selectors(File[name])
         IN /\ IsSpec(spec) /\ Visits(name) \subseteq Nat \ {0}
            /\ IsSeq(selectors) /\ \A n \in Visits(name) : n <= Len(selectors)
            /\ \A n \in Visits(name) : IsSheet(Visited(name, n))
<1> DEFINE req == File[name]
<1>1. /\ IsSpec(req.spec) /\ IsSeq(req.sheets) /\ \A s \in DOMAIN req.sheets : IsSheet(req.sheets[s])
  BY ImportAssumption
<1>2. IsSeq(Selectors(req))
  <2>1. IsSeq(<<FirstSheet>>)
    <3> HIDE DEF FirstSheet
    <3>. QED  BY DEF IsSeq
  <2>2. IsSeq(req.spec.selectors)
    BY <1>1 DEF IsSpec
  <2>. QED  BY <2>1, <2>2 DEF Selectors
<1>3. ASSUME NEW n \in Visits(name)
      PROVE  n \in 1..Len(Selectors(req)) /\ IsSheet(Visited(name, n))
  <2> DEFINE selector == Selectors(req)[n]
             found == {s \in DOMAIN req.sheets :
                  IF selector.type = "index" THEN s = selector.value ELSE req.names[s] \in selector.value}
  <2>1. n \in DOMAIN Selectors(req) /\ SheetOf(req, selector) # None
    BY DEF Visits
  <2>2. SheetOf(req, selector) = MinOf(found) /\ found # {}
    BY <2>1 DEF SheetOf
  <2>3. found \in SUBSET Nat
    BY <1>1 DEF IsSeq
  <2>4. MinOf(found) \in DOMAIN req.sheets
    BY <2>2, <2>3, MinOfIsLeast
  <2>. QED  BY <1>1, <1>2, <2>1, <2>2, <2>4 DEF Visited, IsSeq
<1>. QED  BY <1>1, <1>2, <1>3 DEF IsSeq

\* What import i has read: the sheets it has done are in its rows as they are
\* read at once, the one it reads up to the cell it is at, and its handler is
\* fit for those to come.
SheetsRead(i) ==
  LET spec == File[i.name].spec IN
  \A m \in Visits(i.name) : WellLaidOut(i.name, m) =>
    LET sheet == Visited(i.name, m) IN
    /\ m < i.next \/ (m = i.next /\ i.stage = "file") => RowsRead(i.rows, m, RowsIn(spec, sheet))
    /\ m > i.next /\ i.stage = "file" => Carried(i.handler, spec, sheet)
    /\ m = i.next /\ i.stage = "sheet" =>
         HandlerKnows(i.handler, spec, sheet, i.at) /\ RowsRead(i.rows, m, RowsUpTo(spec, sheet, i.at))
InSheet(i) ==
  /\ i.next \in Visits(i.name) /\ i.sheet = SheetOf(File[i.name], Selectors(File[i.name])[i.next])
  /\ i.at \in CellsOf(Visited(i.name, i.next)) \cup {<<0, 0>>}
ReadsSheets(i) ==
  i.stage # "idle" =>
    /\ i.name \in DOMAIN File /\ i.next \in Nat /\ NumberedUpTo(i.rows, i.next)
    /\ i.stage \in {"checked", "init"} => i.next = 0
    /\ i.stage = "init" => i.handler = NewHandler(File[i.name].spec)
    /\ i.stage = "sheet" => InSheet(i)
    /\ SheetsRead(i)
ReadInv == \A c \in Caller : ReadsSheets(imp[c])

-----------------------------------------------------------------------------
(* Every step of an import.                                                  *)

\* The import that takes a step reads on; the others stay as they are.
LEMMA ReadsOn ==
  ASSUME Imports, ReadInv, NEW c \in Caller, NEW i, imp' = [imp EXCEPT ![c] = i], ReadsSheets(i)
  PROVE  ReadInv'
<1>1. \A d \in Caller : imp'[d] = IF d = c THEN i ELSE imp[d]
  BY DEF Imports
<1>2. ASSUME NEW d \in Caller
      PROVE  ReadsSheets(imp'[d])
  BY <1>1 DEF ReadInv
<1>3. \A d \in Caller : ReadsSheets(imp'[d])
  BY <1>2
<1>. QED  BY <1>3 DEF ReadInv, ReadsSheets, SheetsRead, InSheet

LEMMA IdleReads == ReadsSheets(Idle)
BY DEF ReadsSheets, Idle

LEMMA FailedReads ==
  ASSUME Imports, ReadInv, NEW c \in Caller, Failed(c)
  PROVE  ReadInv'
BY IdleReads, ReadsOn DEF Failed

\* A request begins with nothing read.
LEMMA CheckReads ==
  ASSUME Imports, ReadInv, NEW c \in Caller, NEW name \in DOMAIN File, Check(c, name)
  PROVE  ReadInv'
<1>1. PICK i : i = [Idle EXCEPT !.stage = "checked", !.name = name]
  OBVIOUS
<1>2. i.stage = "checked" /\ i.name = name /\ i.next = 0 /\ i.rows = <<>>
  BY <1>1 DEF Idle
<1>3. NumberedUpTo(i.rows, 0)
  BY <1>2 DEF NumberedUpTo, IsSeq
<1>4. \A m \in Visits(name) : m \in Nat /\ 0 < m
  BY VisitsAre
<1>5. SheetsRead(i)
  BY <1>2, <1>4 DEF SheetsRead
<1>6. ReadsSheets(i)
  BY <1>2, <1>3, <1>5 DEF ReadsSheets
<1>. QED  BY <1>1, <1>6, ReadsOn DEF Check

LEMMA OnInitReads ==
  ASSUME Imports, ReadInv, NEW c \in Caller, OnInit(c)
  PROVE  ReadInv'
<1>1. PICK handler : handler = NewHandler(Req(c).spec)
  OBVIOUS
<1>2. PICK i : i = [imp[c] EXCEPT !.stage = "init", !.handler = handler]
  OBVIOUS
<1>3. imp[c].stage = "checked" /\ imp' = [imp EXCEPT ![c] = i]
  BY <1>1, <1>2 DEF OnInit
<1>4. /\ i.stage = "init" /\ i.handler = handler /\ i.name = imp[c].name
      /\ i.next = imp[c].next /\ i.rows = imp[c].rows
  BY <1>2 DEF Imports, IsImport, Fields
<1>5. /\ imp[c].name \in DOMAIN File /\ imp[c].next = 0 /\ NumberedUpTo(imp[c].rows, 0)
  BY <1>3 DEF ReadInv, ReadsSheets
<1>6. \A m \in Visits(i.name) : m \in Nat /\ 0 < m
  BY <1>4, <1>5, VisitsAre
<1>7. SheetsRead(i)
  BY <1>4, <1>5, <1>6 DEF SheetsRead
<1>8. ReadsSheets(i)
  BY <1>1, <1>4, <1>5, <1>7 DEF ReadsSheets, Req
<1>. QED  BY <1>3, <1>8, ReadsOn

\* The fields are new: they fit every sheet.
LEMMA BatchReturnedReads ==
  ASSUME Imports, ReadInv, NEW c \in Caller, BatchReturned(c)
  PROVE  ReadInv'
<1>1. PICK i : i = [imp[c] EXCEPT !.stage = "file", !.batch = t[c]]
  OBVIOUS
<1>2. imp[c].stage = "init" /\ imp' = [imp EXCEPT ![c] = i]
  BY <1>1 DEF BatchReturned
<1>3. /\ i.stage = "file" /\ i.handler = imp[c].handler /\ i.name = imp[c].name
      /\ i.next = imp[c].next /\ i.rows = imp[c].rows
  BY <1>1 DEF Imports, IsImport, Fields
<1>4. /\ i.name \in DOMAIN File /\ i.next = 0 /\ NumberedUpTo(i.rows, 0)
      /\ i.handler = NewHandler(File[i.name].spec)
  BY <1>2, <1>3 DEF ReadInv, ReadsSheets
<1>5. IsSpec(File[i.name].spec) /\ \A m \in Visits(i.name) : m \in Nat /\ 0 < m
  BY <1>4, VisitsAre
<1>6. SheetsRead(i)
  BY <1>3, <1>4, <1>5, NewHandlerIs DEF SheetsRead
<1>7. ReadsSheets(i)
  BY <1>3, <1>4, <1>6 DEF ReadsSheets
<1>. QED  BY <1>2, <1>7, ReadsOn

\* The sheets that are done keep their rows, whatever sheet is read next.
LEMMA NextSheetReads ==
  ASSUME Imports, ReadInv, NEW c \in Caller, NextSheet(c)
  PROVE  ReadInv'
<1> DEFINE old == imp[c]
           req == Req(c)
           spec == req.spec
<1>1. PICK n, selector, reset :
        n = old.next + 1 /\ selector = Selectors(req)[n] /\ reset = ResetAll(old.handler)
  OBVIOUS
<1>2. /\ old.stage = "file" /\ old.next < Len(Selectors(req))
      /\ \/ Failed(c)
         \/ SheetOf(req, selector) = None /\ imp' = [imp EXCEPT ![c].next = n]
         \/ /\ SheetOf(req, selector) # None
            /\ imp' = [imp EXCEPT ![c].next = n, ![c].stage = "sheet", ![c].at = <<0, 0>>,
                           ![c].sheet = SheetOf(req, selector), ![c].handler = reset]
  BY <1>1 DEF NextSheet
<1>3. old.name \in DOMAIN File /\ old.next \in Nat /\ NumberedUpTo(old.rows, old.next) /\ SheetsRead(old)
  BY <1>2 DEF ReadInv, ReadsSheets
<1>4. /\ IsSpec(spec) /\ Visits(old.name) \subseteq Nat \ {0} /\ IsSeq(Selectors(req)) /\ Len(Selectors(req)) \in Nat
      /\ \A m \in Visits(old.name) : IsSheet(Visited(old.name, m))
  BY <1>3, VisitsAre DEF Req, IsSeq
<1>5. NumberedUpTo(old.rows, n) /\ n \in Nat
  BY <1>1, <1>3 DEF NumberedUpTo
<1>6. n \in Visits(old.name) <=> SheetOf(req, selector) # None
  <2>1. n \in DOMAIN Selectors(req)
    BY <1>1, <1>2, <1>3, <1>4 DEF IsSeq
  <2>. QED  BY <1>1, <2>1 DEF Visits, Req
<1>7. CASE SheetOf(req, selector) = None /\ imp' = [imp EXCEPT ![c].next = n]
  <2>1. PICK i : i = [old EXCEPT !.next = n]
    OBVIOUS
  <2>2. /\ i.stage = "file" /\ i.handler = old.handler /\ i.name = old.name /\ i.next = n /\ i.rows = old.rows
    BY <1>2, <2>1 DEF Imports, IsImport, Fields
  <2>3. \A m \in Visits(i.name) : /\ m < i.next \/ m = i.next => m < old.next \/ m = old.next
                                  /\ m > i.next => m > old.next
    BY <1>1, <1>3, <1>4, <1>6, <1>7, <2>2
  <2>4. SheetsRead(i)
    BY <1>2, <1>3, <2>2, <2>3 DEF SheetsRead
  <2>5. ReadsSheets(i)
    BY <1>3, <1>5, <2>2, <2>4 DEF ReadsSheets
  <2>. QED  BY <1>7, <2>1, <2>5, ReadsOn
<1>8. CASE /\ SheetOf(req, selector) # None
           /\ imp' = [imp EXCEPT ![c].next = n, ![c].stage = "sheet", ![c].at = <<0, 0>>,
                          ![c].sheet = SheetOf(req, selector), ![c].handler = reset]
  <2>1. PICK i : i = [old EXCEPT !.next = n, !.stage = "sheet", !.at = <<0, 0>>,
                                 !.sheet = SheetOf(req, selector), !.handler = reset]
    OBVIOUS
  <2>2. /\ i.stage = "sheet" /\ i.handler = reset /\ i.name = old.name /\ i.next = n /\ i.rows = old.rows
        /\ i.at = <<0, 0>> /\ i.sheet = SheetOf(req, selector)
    BY <2>1 DEF Imports, IsImport, Fields
  <2>3. imp' = [imp EXCEPT ![c] = i]
    BY <1>8, <2>1
  <2>4. InSheet(i)
    BY <1>1, <1>6, <1>8, <2>2 DEF InSheet, Req
  <2>5. ASSUME NEW m \in Visits(i.name), WellLaidOut(i.name, m), m < i.next
        PROVE  RowsRead(i.rows, m, RowsIn(spec, Visited(i.name, m)))
    <3>1. m < old.next \/ m = old.next
      BY <1>1, <1>3, <1>4, <2>2, <2>5
    <3>. QED  BY <1>2, <1>3, <2>2, <2>5, <3>1 DEF SheetsRead, Req
  <2>6. ASSUME WellLaidOut(i.name, n)
        PROVE  LET sheet == Visited(i.name, n) IN
               HandlerKnows(i.handler, spec, sheet, i.at) /\ RowsRead(i.rows, n, RowsUpTo(spec, sheet, i.at))
    <3> DEFINE sheet == Visited(i.name, n)
    <3>1. n \in Visits(old.name) /\ IsSheet(sheet)
      BY <1>4, <1>6, <1>8, <2>2
    <3>2. Carried(old.handler, spec, sheet)
      BY <1>1, <1>2, <1>3, <2>2, <2>6, <3>1 DEF SheetsRead, Req
    <3>3. HandlerKnows(reset, spec, sheet, <<0, 0>>)
      BY <1>1, <1>4, <3>1, <3>2, ResetAllIs
    <3>4. OfVisit(old.rows, n) = {}
      BY <1>1, <1>3 DEF NumberedUpTo, OfVisit
    <3>5. RowsRead(old.rows, n, {})
      BY <3>4, ReadAsIs, FS_EmptySet DEF RowsRead
    <3>6. RowsUpTo(spec, sheet, <<0, 0>>) = {}
      BY <3>1, RowsUpToEnds
    <3>. QED  BY <2>2, <3>3, <3>5, <3>6
  <2>7. SheetsRead(i)
    BY <1>4, <1>5, <2>2, <2>5, <2>6 DEF SheetsRead, Req
  <2>8. ReadsSheets(i)
    BY <1>3, <1>5, <2>2, <2>4, <2>7 DEF ReadsSheets
  <2>. QED  BY <2>3, <2>8, ReadsOn
<1>. QED  BY <1>2, <1>7, <1>8, FailedReads

\* A cell is read as the sheet says, and its row, if it ends one, comes last.
LEMMA ReadCellReads ==
  ASSUME Imports, ReadInv, NEW c \in Caller, ReadCell(c)
  PROVE  ReadInv'
<1> DEFINE old == imp[c]
           req == Req(c)
           spec == req.spec
           n == old.next
           sheet == Visited(old.name, n)
<1>1. old.stage = "sheet" /\ Later(req.sheets[old.sheet], old.at) # {}
  BY DEF ReadCell
<1>2. /\ old.name \in DOMAIN File /\ n \in Nat /\ NumberedUpTo(old.rows, n) /\ SheetsRead(old)
      /\ n \in Visits(old.name) /\ old.sheet = SheetOf(req, Selectors(req)[n])
      /\ old.at \in CellsOf(sheet) \cup {<<0, 0>>}
  BY <1>1 DEF ReadInv, ReadsSheets, InSheet, Req
<1>3. /\ IsSpec(spec) /\ Visits(old.name) \subseteq Nat \ {0}
      /\ \A m \in Visits(old.name) : IsSheet(Visited(old.name, m))
  BY <1>2, VisitsAre DEF Req
<1>4. req.sheets[old.sheet] = sheet /\ IsSheet(sheet) /\ Later(sheet, old.at) # {}
  BY <1>1, <1>2, <1>3 DEF Visited, Req
<1>5. PICK p, read :
        /\ p = NextCell(sheet, old.at)
        /\ read = HandleCell(old.handler, spec, old.at[1], p, sheet[p[1]][p[2]])
  OBVIOUS
<1>6. PICK row : row = [visit |-> n, values |-> read.row[1]]
  OBVIOUS
<1>7. PICK rows : rows = IF read.row = <<>> THEN old.rows ELSE Append(old.rows, row)
  OBVIOUS
<1>8. PICK i : i = [old EXCEPT !.at = p, !.handler = read.state, !.rows = rows]
  OBVIOUS
<1>9. Failed(c) \/ imp' = [imp EXCEPT ![c] = i]
  BY <1>4, <1>5, <1>6, <1>7, <1>8 DEF ReadCell, HandleRow
<1>10. /\ i.stage = "sheet" /\ i.handler = read.state /\ i.name = old.name /\ i.next = n /\ i.rows = rows
       /\ i.at = p /\ i.sheet = old.sheet
  BY <1>1, <1>8 DEF Imports, IsImport, Fields
<1>11. p \in CellsOf(sheet) /\ old.at \in Place /\ p \in Place
  BY <1>2, <1>4, <1>5, CellsAre, NextCellIsNext DEF Place
<1>12. NumberedUpTo(rows, n)
  BY <1>2, <1>6, <1>7, AppendIs
<1>13. ASSUME NEW m \in Visits(old.name), WellLaidOut(old.name, m), m < n
       PROVE  RowsRead(rows, m, RowsIn(spec, Visited(old.name, m)))
  <2>1. RowsRead(old.rows, m, RowsIn(spec, Visited(old.name, m)))
    BY <1>2, <1>13 DEF SheetsRead, Req
  <2>. QED  BY <1>2, <1>3, <1>6, <1>7, <1>13, <2>1, AppendKeeps
<1>14. ASSUME WellLaidOut(old.name, n)
       PROVE  HandlerKnows(read.state, spec, sheet, p) /\ RowsRead(rows, n, RowsUpTo(spec, sheet, p))
  <2>1. Unambiguous(spec, sheet) /\ NotOneColumn(spec, sheet)
    BY <1>2, <1>3, <1>14, WellLaidOutBefore DEF Req
  <2>2. HandlerKnows(old.handler, spec, sheet, old.at) /\ RowsRead(old.rows, n, RowsUpTo(spec, sheet, old.at))
    BY <1>1, <1>2, <1>14 DEF SheetsRead, Req
  <2>3. /\ HandlerKnows(read.state, spec, sheet, p)
        /\ read.row = IF p \in Values(spec, sheet) /\ EndsRow(spec, sheet, p)
                      THEN <<RowAt(spec, sheet, p)>> ELSE <<>>
    <3> DEFINE q == NextCell(sheet, old.at)
               r == HandleCell(old.handler, spec, old.at[1], q, sheet[q[1]][q[2]])
    <3>1. /\ HandlerKnows(r.state, spec, sheet, q)
          /\ r.row = IF q \in Values(spec, sheet) /\ EndsRow(spec, sheet, q)
                     THEN <<RowAt(spec, sheet, q)>> ELSE <<>>
      <4> HIDE DEF spec, sheet
      <4>. QED  BY <1>2, <1>3, <1>4, <2>1, <2>2, HandleCellReads
    <3>. QED  BY <1>5, <3>1
  <2>4. /\ RowsUpTo(spec, sheet, p) =
             IF p \in Values(spec, sheet) /\ EndsRow(spec, sheet, p)
             THEN RowsUpTo(spec, sheet, old.at) \cup {[at |-> p, values |-> RowAt(spec, sheet, p)]}
             ELSE RowsUpTo(spec, sheet, old.at)
        /\ \A r \in RowsUpTo(spec, sheet, old.at) : Before(r.at, p)
    BY <1>4, <1>5, <1>11, RowsUpToNext
  <2>5. CASE p \in Values(spec, sheet) /\ EndsRow(spec, sheet, p)
    <3> DEFINE values == RowAt(spec, sheet, p)
               r0 == [at |-> p, values |-> values]
    <3>1. read.row = <<values>> /\ RowsUpTo(spec, sheet, p) = RowsUpTo(spec, sheet, old.at) \cup {r0}
      BY <2>3, <2>4, <2>5
    <3> HIDE DEF values
    <3>2. read.row # <<>> /\ read.row[1] = values
      BY <3>1
    <3>3. rows = Append(old.rows, row) /\ row.visit = n /\ row.values = r0.values
      BY <1>6, <1>7, <3>2
    <3>4. r0.at = p
      OBVIOUS
    <3> HIDE DEF r0
    <3>5. RowsRead(Append(old.rows, row), n, RowsUpTo(spec, sheet, old.at) \cup {r0})
      BY <1>2, <1>11, <2>2, <2>4, <3>3, <3>4, AppendReads
    <3>. QED  BY <2>3, <3>1, <3>3, <3>5
  <2>6. CASE ~(p \in Values(spec, sheet) /\ EndsRow(spec, sheet, p))
    BY <1>7, <2>2, <2>3, <2>4, <2>6
  <2>. QED  BY <2>5, <2>6
<1>15. SheetsRead(i)
  BY <1>2, <1>3, <1>10, <1>13, <1>14 DEF SheetsRead, Req
<1>16. InSheet(i)
  BY <1>2, <1>10, <1>11 DEF InSheet, Req
<1>17. ReadsSheets(i)
  BY <1>2, <1>10, <1>12, <1>15, <1>16 DEF ReadsSheets
<1>. QED  BY <1>9, <1>17, FailedReads, ReadsOn

\* All rows of the sheet are read, and its fields fit the sheets like it.
LEMMA SheetDoneReads ==
  ASSUME Imports, ReadInv, NEW c \in Caller, SheetDone(c)
  PROVE  ReadInv'
<1> DEFINE old == imp[c]
           req == Req(c)
           spec == req.spec
           n == old.next
           sheet == Visited(old.name, n)
<1>1. PICK i : i = [old EXCEPT !.stage = "file"]
  OBVIOUS
<1>2. old.stage = "sheet" /\ Later(req.sheets[old.sheet], old.at) = {} /\ imp' = [imp EXCEPT ![c] = i]
  BY <1>1 DEF SheetDone
<1>3. /\ i.stage = "file" /\ i.handler = old.handler /\ i.name = old.name /\ i.next = n /\ i.rows = old.rows
  BY <1>1 DEF Imports, IsImport, Fields
<1>4. /\ old.name \in DOMAIN File /\ n \in Nat /\ NumberedUpTo(old.rows, n) /\ SheetsRead(old)
      /\ n \in Visits(old.name) /\ old.sheet = SheetOf(req, Selectors(req)[n])
  BY <1>2 DEF ReadInv, ReadsSheets, InSheet, Req
<1>5. Visits(old.name) \subseteq Nat \ {0} /\ IsSheet(sheet)
  BY <1>4, VisitsAre
<1>6. Later(sheet, old.at) = {}
  BY <1>2, <1>4 DEF Visited, Req
<1>7. ASSUME NEW m \in Visits(old.name), WellLaidOut(old.name, m), m < n
      PROVE  RowsRead(old.rows, m, RowsIn(spec, Visited(old.name, m)))
  BY <1>4, <1>7 DEF SheetsRead, Req
<1>8. ASSUME WellLaidOut(old.name, n)
      PROVE  HandlerKnows(old.handler, spec, sheet, old.at) /\ RowsRead(old.rows, n, RowsIn(spec, sheet))
  <2>1. HandlerKnows(old.handler, spec, sheet, old.at) /\ RowsRead(old.rows, n, RowsUpTo(spec, sheet, old.at))
    BY <1>2, <1>4, <1>8 DEF SheetsRead, Req
  <2>. QED  BY <1>5, <1>6, <2>1, RowsUpToEnds
<1>9. ASSUME NEW m \in Visits(old.name), WellLaidOut(old.name, m), m > n
      PROVE  Carried(old.handler, spec, Visited(old.name, m))
  <2>1. WellLaidOut(old.name, n) /\ SameLayout(spec, sheet, Visited(old.name, m))
    BY <1>4, <1>5, <1>9, WellLaidOutBefore DEF Req
  <2>2. Carried(old.handler, spec, sheet)
    BY <1>8, <2>1 DEF HandlerKnows
  <2>. QED  BY <2>1, <2>2, CarriedOver
<1>10. SheetsRead(i)
  BY <1>3, <1>7, <1>8, <1>9 DEF SheetsRead, Req
<1>11. ReadsSheets(i)
  BY <1>3, <1>4, <1>10 DEF ReadsSheets
<1>. QED  BY <1>2, <1>11, ReadsOn

LEMMA NextReadInv == Imports /\ ReadInv /\ [ImportNext]_all_vars => ReadInv'
<1> SUFFICES ASSUME Imports, ReadInv, [ImportNext]_all_vars PROVE ReadInv'
  OBVIOUS
<1>1. ASSUME NEW c \in Caller, \E name \in DOMAIN File : Check(c, name)
      PROVE  ReadInv'
  BY <1>1, CheckReads
<1>2. ASSUME NEW c \in Caller, OnInit(c) \/ BatchReturned(c)
      PROVE  ReadInv'
  BY <1>2, OnInitReads, BatchReturnedReads
<1>3. ASSUME NEW c \in Caller, NextSheet(c) \/ ReadCell(c) \/ SheetDone(c)
      PROVE  ReadInv'
  BY <1>3, NextSheetReads, ReadCellReads, SheetDoneReads
<1>4. ASSUME NEW c \in Caller, OnOver(c) \/ Fault(c)
      PROVE  ReadInv'
  BY <1>4, IdleReads, ReadsOn, FailedReads DEF OnOver, Fault
<1>5. ASSUME \/ \E c \in Caller : GetBatchID(c)
             \/ \E n \in Number : SetClock(n) /\ UNCHANGED import_vars
             \/ UNCHANGED all_vars
      PROVE  ReadInv'
  <2>1. imp' = imp
    BY <1>5 DEF GetBatchID, import_vars, all_vars
  <2>. QED  BY <2>1 DEF ReadInv, ReadsSheets, SheetsRead, InSheet
<1>6. CASE RestartService
  <2>1. \A c \in Caller : imp'[c] = Idle
    BY <1>6 DEF RestartService
  <2>2. \A c \in Caller : ReadsSheets(imp'[c])
    BY <2>1, IdleReads
  <2>. QED  BY <2>2 DEF ReadInv, ReadsSheets, SheetsRead, InSheet
<1>. QED  BY <1>1, <1>2, <1>3, <1>4, <1>5, <1>6 DEF ImportNext

\* The rows of an import that is stored are those its sheets say, read at once,
\* for every file, every specification and any number of imports at the same
\* time (doImport, handleCell).
THEOREM SpecImportedAsRead == ImportSpec => ImportedAsRead
<1> DEFINE AsRead(s) == \A n \in Visits(s.name) :
             WellLaidOut(s.name, n) => ReadAs(s.rows, n, RowsIn(File[s.name].spec, Visited(s.name, n)))
           Step == \A s \in stored' \ stored : AsRead(s)
<1>1. ImportInit => IInv /\ RowInv /\ ReadInv
  <2>1. ImportInit => IInv
    BY InitIInv DEF ImportInit
  <2>2. ImportInit => RowInv
    BY IdleIsImport
       DEF ImportInit, RowInv, Imports, Batches, BatchesGivenOut, BatchesDiffer,
           TakenDiffers, HasBatch
  <2>3. ImportInit => ReadInv
    BY IdleReads DEF ImportInit, ReadInv
  <2>. QED  BY <2>1, <2>2, <2>3
<1>2. IInv /\ RowInv /\ ReadInv /\ [ImportNext]_all_vars => IInv' /\ RowInv' /\ ReadInv'
  BY StepOfGenerator, NextIInv, NextRowInv, NextReadInv DEF RowInv
<1>3. ReadInv /\ [ImportNext]_all_vars => [Step]_stored
  <2> SUFFICES ASSUME ReadInv, [ImportNext]_all_vars PROVE Step \/ stored' = stored
    OBVIOUS
  <2>1. ASSUME NEW c \in Caller, OnOver(c)
        PROVE  Step
    <3>1. /\ imp[c].stage = "file" /\ imp[c].next = Len(Selectors(Req(c)))
          /\ stored' = stored \cup {Committed(c)}
      BY <2>1 DEF OnOver
    <3>2. imp[c].name \in DOMAIN File /\ imp[c].next \in Nat /\ SheetsRead(imp[c])
      BY <3>1 DEF ReadInv, ReadsSheets
    <3>3. \A m \in Visits(imp[c].name) : m \in Nat /\ m <= imp[c].next
      BY <3>1, <3>2, VisitsAre DEF Req
    <3>4. \A m \in Visits(imp[c].name) : WellLaidOut(imp[c].name, m) =>
            RowsRead(imp[c].rows, m, RowsIn(File[imp[c].name].spec, Visited(imp[c].name, m)))
      BY <3>1, <3>2, <3>3 DEF SheetsRead
    <3>5. AsRead(Committed(c))
      BY <3>4 DEF RowsRead, Committed
    <3> HIDE DEF AsRead
    <3>. QED  BY <3>1, <3>5
  <2>2. ASSUME NEW c \in Caller,
               \/ \E name \in DOMAIN File : Check(c, name)
               \/ OnInit(c) \/ GetBatchID(c) \/ BatchReturned(c)
               \/ NextSheet(c) \/ ReadCell(c) \/ SheetDone(c) \/ Fault(c)
        PROVE  stored' = stored
    <3>1. CASE NextSheet(c) \/ ReadCell(c)
      BY <3>1 DEF NextSheet, ReadCell, HandleRow, Failed
    <3>2. CASE ~(NextSheet(c) \/ ReadCell(c))
      BY <2>2, <3>2 DEF Check, OnInit, GetBatchID, BatchReturned, SheetDone, Fault, Failed, import_vars
    <3>. QED  BY <3>1, <3>2
  <2>3. ASSUME \/ \E n \in Number : SetClock(n) /\ UNCHANGED import_vars
               \/ RestartService \/ UNCHANGED all_vars
        PROVE  stored' = stored
    BY <2>3 DEF RestartService, import_vars, all_vars
  <2>. QED  BY <2>1, <2>2, <2>3 DEF ImportNext
<1>4. ImportedAsRead <=> [][Step]_stored
  BY PTL DEF ImportedAsRead
<1>. QED  BY <1>1, <1>2, <1>3, <1>4, PTL DEF ImportSpec
=============================================================================
