------------------------------ MODULE IdSource ------------------------------
(***************************************************************************)
(* What the ID generators of the service promise: within one run of the    *)
(* service no two calls get the same ID, and a call that starts after      *)
(* another one has returned gets a later ID.                               *)
(***************************************************************************)
EXTENDS Naturals

CONSTANTS Caller, Number, Nothing

VARIABLES
  used,    \* numbers given out since the service started
  floor,   \* caller: the numbers given out before its call began, or nothing
  got      \* caller: the number its call got, or nothing

vars == <<used, floor, got>>

Init ==
  /\ used = {}
  /\ floor = [c \in Caller |-> Nothing]
  /\ got = [c \in Caller |-> Nothing]

\* c calls; what it got from an earlier call is gone.
Call(c) ==
  /\ floor[c] = Nothing
  /\ floor' = [floor EXCEPT ![c] = used]
  /\ got' = [got EXCEPT ![c] = Nothing]
  /\ UNCHANGED used

Issue(c) ==
  /\ floor[c] # Nothing
  /\ got[c] = Nothing
  /\ \E n \in Number \ used :
       /\ \A m \in floor[c] : m < n
       /\ used' = used \cup {n}
       /\ got' = [got EXCEPT ![c] = n]
  /\ UNCHANGED floor

Return(c) ==
  /\ got[c] # Nothing
  /\ floor[c] # Nothing
  /\ floor' = [floor EXCEPT ![c] = Nothing]
  /\ UNCHANGED <<used, got>>

\* The service starts again: it remembers nothing.
Restart == used' = {} /\ floor' = [c \in Caller |-> Nothing] /\ got' = [c \in Caller |-> Nothing]

Next == (\E c \in Caller : Call(c) \/ Issue(c) \/ Return(c)) \/ Restart

Spec == Init /\ [][Next]_vars
=============================================================================
