------------------------------- MODULE BatchID -------------------------------
(***************************************************************************)
(* GetBatchID (src/service/data/batchID.go, and its copies in esi and      *)
(* report): an ID is the current second, or one more than the last ID when *)
(* that second is taken, written as a date.  Goroutines call it at the     *)
(* same time; the counter is guarded by a mutex; the clock may be set back *)
(* and the service may be restarted, which forgets the counter.            *)
(***************************************************************************)
EXTENDS Naturals

CONSTANTS
  Caller,      \* goroutines that call GetBatchID
  MaxNumber,   \* bound on the clock and on the counter
  Id,          \* the strings t.Format returns
  Format,      \* the date of each number
  Nothing

Number == 0 .. MaxNumber

\* The service runs in a time zone without clock changes; where clocks are
\* set back once a year, an hour of dates occurs twice.
ASSUME FormatAssumption ==
  /\ MaxNumber \in Nat
  /\ Format \in [Number -> Id]
  /\ \A m, n \in Number : Format[m] = Format[n] => m = n
ASSUME NothingAssumption ==
  Nothing \notin Number /\ Nothing \notin Caller /\ \A S \in SUBSET Number : S # Nothing

VARIABLES
  clock,     \* time.Now().Unix()
  number,    \* g_data_batch_number
  mutex,     \* g_data_batch_number_mutex: the caller that holds it, or nothing
  pc,        \* caller: idle, lock, read, advance, take, unlock
  now,       \* caller: nowNumber
  t,         \* caller: the number its ID is made of
  issued,    \* history: numbers given out since the service started
  before     \* history: what was issued when the call began

vars == <<clock, number, mutex, pc, now, t, issued, before>>
caller_vars == <<pc, now, t, before>>

PC == {"idle", "lock", "read", "advance", "take", "unlock"}

TypeOK ==
  /\ clock \in Number
  /\ number \in Number
  /\ mutex \in {Nothing} \cup Caller
  /\ pc \in [Caller -> PC]
  /\ now \in [Caller -> Number]
  /\ t \in [Caller -> {Nothing} \cup Number]
  /\ issued \subseteq Number
  /\ before \in [Caller -> {Nothing} \cup SUBSET Number]

Init ==
  /\ clock \in Number
  /\ number = 0
  /\ mutex = Nothing
  /\ pc = [c \in Caller |-> "idle"]
  /\ now = [c \in Caller |-> 0]
  /\ t = [c \in Caller |-> Nothing]
  /\ issued = {}
  /\ before = [c \in Caller |-> Nothing]

Goto(c, from, to) == pc[c] = from /\ pc' = [pc EXCEPT ![c] = to]

Call(c) ==
  /\ Goto(c, "idle", "lock")
  /\ t' = [t EXCEPT ![c] = Nothing]
  /\ before' = [before EXCEPT ![c] = issued]
  /\ UNCHANGED <<clock, number, mutex, now, issued>>

\* Mutation of Lock: there is no mutex.
LockFree(c) ==
  /\ Goto(c, "lock", "read")
  /\ mutex' = c
  /\ UNCHANGED <<clock, number, now, t, issued, before>>

Lock(c) ==
  /\ Goto(c, "lock", "read")
  /\ mutex = Nothing
  /\ mutex' = c
  /\ UNCHANGED <<clock, number, now, t, issued, before>>

ReadClock(c) ==
  /\ Goto(c, "read", "advance")
  /\ now' = [now EXCEPT ![c] = clock]
  /\ UNCHANGED <<clock, number, mutex, t, issued, before>>

\* Mutations of Advance: the number is that of the clock, or one more.
AdvanceToClock(c) ==
  /\ Goto(c, "advance", "take")
  /\ number' = now[c]
  /\ UNCHANGED <<clock, mutex, now, t, issued, before>>

AdvancePastClock(c) ==
  /\ Goto(c, "advance", "take")
  /\ number' = IF now[c] > number THEN now[c] + 1 ELSE number
  /\ UNCHANGED <<clock, mutex, now, t, issued, before>>

Advance(c) ==
  /\ Goto(c, "advance", "take")
  /\ number < MaxNumber
  /\ number' = IF now[c] > number THEN now[c] ELSE number + 1
  /\ UNCHANGED <<clock, mutex, now, t, issued, before>>

Take(c) ==
  /\ Goto(c, "take", "unlock")
  /\ t' = [t EXCEPT ![c] = number]
  /\ issued' = issued \cup {number}
  /\ UNCHANGED <<clock, number, mutex, now, before>>

\* Unlock, and the answer Format[t].
Unlock(c) ==
  /\ Goto(c, "unlock", "idle")
  /\ mutex' = Nothing
  /\ now' = [now EXCEPT ![c] = 0]
  /\ before' = [before EXCEPT ![c] = Nothing]
  /\ UNCHANGED <<clock, number, t, issued>>

\* Time passes, or the clock is set.
SetClock(n) ==
  /\ clock' = n
  /\ UNCHANGED <<number, mutex, issued, caller_vars>>

Restart ==
  /\ number' = 0
  /\ mutex' = Nothing
  /\ pc' = [c \in Caller |-> "idle"]
  /\ now' = [c \in Caller |-> 0]
  /\ t' = [c \in Caller |-> Nothing]
  /\ issued' = {}
  /\ before' = [c \in Caller |-> Nothing]
  /\ UNCHANGED clock

Next ==
  \/ \E c \in Caller :
       Call(c) \/ Lock(c) \/ ReadClock(c) \/ Advance(c) \/ Take(c) \/ Unlock(c)
  \/ \E n \in Number : SetClock(n)
  \/ Restart

Spec == Init /\ [][Next]_vars

-----------------------------------------------------------------------------
(* Properties.                                                             *)

\* The generator implements the ID source, whatever calls overlap and even
\* if the clock is set back between two of them (GetBatchID).
Source == INSTANCE IdSource WITH used <- issued, floor <- before, got <- t
ImplementsIdSource == Source!Spec

\* IDs in hand at the same time differ, as strings.
IdsDiffer ==
  \A c, d \in Caller :
    c # d /\ t[c] # Nothing /\ t[d] # Nothing => Format[t[c]] # Format[t[d]]
=============================================================================
