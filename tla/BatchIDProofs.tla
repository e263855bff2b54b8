---------------------------- MODULE BatchIDProofs ----------------------------
(***************************************************************************)
(* Proofs about BatchID, for any number of callers: the mutex makes every  *)
(* number larger than those given out before it, so IDs differ and BatchID *)
(* implements IdSource.                                                    *)
(***************************************************************************)
EXTENDS BatchID, TLAPS

\* The callers between Lock and Unlock.
Inside == {"read", "advance", "take", "unlock"}

\* Only the holder of the mutex is inside, and the counter is the largest
\* number given out, except between advance and take, when it is fresh.
MutexInv ==
  /\ \A c \in Caller : pc[c] \in Inside => mutex = c
  /\ \A n \in issued : n <= number
  /\ \A c \in Caller : pc[c] = "take" => number \notin issued

\* What a caller holds was given out, and to nobody else.
HeldInv ==
  /\ \A c \in Caller : before[c] # Nothing => before[c] \subseteq issued
  /\ \A c \in Caller : before[c] = Nothing <=> pc[c] = "idle"
  /\ \A c \in Caller : pc[c] \notin {"idle", "unlock"} => t[c] = Nothing
  /\ \A c \in Caller : pc[c] = "unlock" => t[c] # Nothing
  /\ \A c \in Caller : t[c] # Nothing => t[c] \in issued
  /\ \A c, d \in Caller : t[c] # Nothing /\ t[c] = t[d] => c = d

IInv == TypeOK /\ MutexInv /\ HeldInv

LEMMA InitIInv == Init => IInv
BY FormatAssumption DEF Init, IInv, TypeOK, MutexInv, HeldInv, Number, PC, Inside

LEMMA CallStep ==
  ASSUME IInv, NEW c \in Caller, Call(c)
  PROVE  IInv'
<1>1. TypeOK'
  BY DEF IInv, TypeOK, Call, Goto, PC
<1>2. MutexInv'
  BY DEF IInv, TypeOK, MutexInv, Call, Goto, Inside
<1>3. HeldInv'
  BY NothingAssumption DEF IInv, TypeOK, HeldInv, Call, Goto
<1>. QED  BY <1>1, <1>2, <1>3 DEF IInv

LEMMA LockStep ==
  ASSUME IInv, NEW c \in Caller, Lock(c)
  PROVE  IInv'
<1>1. TypeOK'
  BY DEF IInv, TypeOK, Lock, Goto, PC
<1>2. MutexInv'
  BY NothingAssumption DEF IInv, TypeOK, MutexInv, Lock, Goto, Inside
<1>3. HeldInv'
  BY DEF IInv, TypeOK, HeldInv, Lock, Goto
<1>. QED  BY <1>1, <1>2, <1>3 DEF IInv

LEMMA ReadClockStep ==
  ASSUME IInv, NEW c \in Caller, ReadClock(c)
  PROVE  IInv'
<1>1. TypeOK'
  BY DEF IInv, TypeOK, ReadClock, Goto, PC
<1>2. MutexInv'
  BY DEF IInv, TypeOK, MutexInv, ReadClock, Goto, Inside
<1>3. HeldInv'
  BY DEF IInv, TypeOK, HeldInv, ReadClock, Goto
<1>. QED  BY <1>1, <1>2, <1>3 DEF IInv

\* The new counter is larger than the old one, so it was never given out.
LEMMA AdvanceStep ==
  ASSUME IInv, NEW c \in Caller, Advance(c)
  PROVE  IInv'
<1>1. number \in Number /\ now[c] \in Number /\ issued \subseteq Number /\ MaxNumber \in Nat
  BY FormatAssumption DEF IInv, TypeOK
<1>2. number' \in Number /\ number' > number
  BY <1>1 DEF Advance, Number
<1>3. TypeOK'
  BY <1>2 DEF IInv, TypeOK, Advance, Goto, PC
<1>4. \A n \in issued : n <= number' /\ n # number'
  BY <1>1, <1>2 DEF IInv, MutexInv, Number
<1>5. MutexInv'
  BY <1>4 DEF IInv, TypeOK, MutexInv, Advance, Goto, Inside
<1>6. HeldInv'
  BY DEF IInv, TypeOK, HeldInv, Advance, Goto
<1>. QED  BY <1>3, <1>5, <1>6 DEF IInv

LEMMA TakeStep ==
  ASSUME IInv, NEW c \in Caller, Take(c)
  PROVE  IInv'
<1>1. number \in Number /\ number \notin issued /\ number # Nothing
  BY NothingAssumption DEF IInv, TypeOK, MutexInv, Take, Goto
<1>2. TypeOK'
  BY <1>1 DEF IInv, TypeOK, Take, Goto, PC
<1>3. MutexInv'
  <2>1. \A n \in issued' : n <= number
    BY <1>1, FormatAssumption DEF IInv, MutexInv, Take, Number
  <2>2. \A d \in Caller : pc'[d] \in Inside => mutex = d
    BY DEF IInv, TypeOK, MutexInv, Take, Goto, Inside
  <2>3. \A d \in Caller : pc'[d] # "take"
    BY DEF IInv, TypeOK, MutexInv, Take, Goto, Inside
  <2>. QED  BY <2>1, <2>2, <2>3 DEF MutexInv, Take
<1>4. HeldInv'
  <2>1. t' = [t EXCEPT ![c] = number] /\ issued' = issued \cup {number}
    BY DEF Take
  <2>2. \A d \in Caller : t'[d] = IF d = c THEN number ELSE t[d]
    BY <2>1 DEF IInv, TypeOK
  <2>3. \A d \in Caller : before'[d] # Nothing => before'[d] \subseteq issued'
    BY <2>1 DEF IInv, HeldInv, Take
  <2>4. \A d \in Caller : pc'[d] = IF d = c THEN "unlock" ELSE pc[d]
    BY DEF IInv, TypeOK, Take, Goto
  <2>5. pc[c] = "take" /\ before' = before
    BY DEF Take, Goto
  <2>6. \A d \in Caller : t'[d] # Nothing => t'[d] \in issued'
    BY <2>1, <2>2 DEF IInv, HeldInv
  <2>7. \A d, e \in Caller : t'[d] # Nothing /\ t'[d] = t'[e] => d = e
    BY <1>1, <2>2 DEF IInv, HeldInv
  <2>. QED  BY <1>1, <2>2, <2>3, <2>4, <2>5, <2>6, <2>7 DEF IInv, HeldInv
<1>. QED  BY <1>2, <1>3, <1>4 DEF IInv

LEMMA UnlockStep ==
  ASSUME IInv, NEW c \in Caller, Unlock(c)
  PROVE  IInv'
<1>1. TypeOK'
  BY FormatAssumption DEF IInv, TypeOK, Unlock, Goto, PC, Number
<1>2. MutexInv'
  BY DEF IInv, TypeOK, MutexInv, Unlock, Goto, Inside
<1>3. HeldInv'
  BY DEF IInv, TypeOK, HeldInv, Unlock, Goto
<1>. QED  BY <1>1, <1>2, <1>3 DEF IInv

LEMMA SetClockStep ==
  ASSUME IInv, NEW n \in Number, SetClock(n)
  PROVE  IInv'
BY DEF IInv, TypeOK, MutexInv, HeldInv, SetClock, caller_vars

LEMMA RestartStep ==
  ASSUME IInv, Restart
  PROVE  IInv'
<1>1. TypeOK'
  BY FormatAssumption DEF IInv, TypeOK, Restart, PC, Number
<1>2. MutexInv' /\ HeldInv'
  BY DEF MutexInv, HeldInv, Restart, Inside
<1>. QED  BY <1>1, <1>2 DEF IInv

LEMMA NextIInv == IInv /\ [Next]_vars => IInv'
<1> SUFFICES ASSUME IInv, [Next]_vars PROVE IInv'
  OBVIOUS
<1>1. CASE Next
  BY <1>1, CallStep, LockStep, ReadClockStep, AdvanceStep, TakeStep, UnlockStep,
     SetClockStep, RestartStep DEF Next
<1>2. CASE UNCHANGED vars
  BY <1>2 DEF IInv, TypeOK, MutexInv, HeldInv, vars
<1>. QED  BY <1>1, <1>2

\* The invariant of this module holds in every behaviour of the generator.
THEOREM SpecIInv == Spec => []IInv
BY InitIInv, NextIInv, PTL DEF Spec

\* Type correctness, for any number of callers.
THEOREM SpecTypeOK == Spec => []TypeOK
<1>1. IInv => TypeOK
  BY DEF IInv
<1>. QED  BY <1>1, SpecIInv, PTL

\* IDs in hand at the same time differ, as strings (GetBatchID).
THEOREM SpecIdsDiffer == Spec => []IdsDiffer
<1>1. IInv => IdsDiffer
  <2>. SUFFICES ASSUME IInv, NEW c \in Caller, NEW d \in Caller, c # d,
                       t[c] # Nothing, t[d] # Nothing
                PROVE  Format[t[c]] # Format[t[d]]
    BY DEF IdsDiffer
  <2>1. t[c] \in Number /\ t[d] \in Number
    BY DEF IInv, TypeOK
  <2>2. t[c] # t[d]
    BY DEF IInv, HeldInv
  <2>. QED  BY <2>1, <2>2, FormatAssumption
<1>. QED  BY <1>1, SpecIInv, PTL

-----------------------------------------------------------------------------
(* The generator implements the ID source.                                 *)

LEMMA TakeIssues ==
  ASSUME IInv, NEW c \in Caller, Take(c)
  PROVE  Source!Issue(c)
<1>1. number \in Number /\ number \notin issued /\ issued \subseteq Number
  BY DEF IInv, TypeOK, MutexInv, Take, Goto
<1>2. before[c] # Nothing /\ t[c] = Nothing /\ before[c] \subseteq issued
  BY DEF IInv, HeldInv, Take, Goto
<1>3. \A m \in before[c] : m < number
  <2>. TAKE m \in before[c]
  <2>1. m \in issued /\ m <= number
    BY <1>2 DEF IInv, MutexInv
  <2>2. m \in Nat /\ number \in Nat /\ m # number
    BY <1>1, <2>1, FormatAssumption DEF Number
  <2>. QED  BY <2>1, <2>2
<1>4. /\ issued' = issued \cup {number}
      /\ t' = [t EXCEPT ![c] = number]
      /\ UNCHANGED before
  BY DEF Take
<1>. QED  BY <1>1, <1>2, <1>3, <1>4 DEF Source!Issue

LEMMA StepIssues == IInv /\ [Next]_vars => [Source!Next]_(Source!vars)
<1> SUFFICES ASSUME IInv, [Next]_vars PROVE [Source!Next]_(Source!vars)
  OBVIOUS
<1>1. ASSUME NEW c \in Caller, Call(c)
      PROVE  Source!Call(c)
  BY <1>1 DEF IInv, HeldInv, Call, Goto, Source!Call
<1>2. ASSUME NEW c \in Caller, Take(c)
      PROVE  Source!Issue(c)
  BY <1>2, TakeIssues
<1>3. ASSUME NEW c \in Caller, Unlock(c)
      PROVE  Source!Return(c)
  BY <1>3 DEF IInv, HeldInv, Unlock, Goto, Source!Return
<1>4. CASE Restart
  BY <1>4 DEF Restart, Source!Next, Source!Restart
<1>5. ASSUME NEW c \in Caller, Lock(c) \/ ReadClock(c) \/ Advance(c)
      PROVE  UNCHANGED Source!vars
  BY <1>5 DEF Lock, ReadClock, Advance, Source!vars
<1>6. ASSUME NEW n \in Number, SetClock(n)
      PROVE  UNCHANGED Source!vars
  BY <1>6 DEF SetClock, caller_vars, Source!vars
<1>7. CASE UNCHANGED vars
  BY <1>7 DEF vars, Source!vars
<1>. QED
  BY <1>1, <1>2, <1>3, <1>4, <1>5, <1>6, <1>7 DEF Next, Source!Next

\* Whatever calls overlap and wherever the clock is set, the generator gives
\* each number out once per run of the service, later calls later numbers.
THEOREM SpecImplementsIdSource == Spec => ImplementsIdSource
<1>1. Init => Source!Init
  BY DEF Init, Source!Init
<1>. QED  BY <1>1, StepIssues, SpecIInv, PTL DEF Spec, ImplementsIdSource, Source!Spec
==============================================================================
