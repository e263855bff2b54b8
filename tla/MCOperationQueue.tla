--------------------------- MODULE MCOperationQueue ---------------------------
(***************************************************************************)
(* Instances of OperationQueue for TLC.  The operations an application     *)
(* configures: two tabs and the operations that close them; a form in a    *)
(* dialog that saves, closes and reloads; a delete without an              *)
(* errorOperation; a download by a missing URL; a window "current".        *)
(***************************************************************************)
EXTENDS OperationQueue, TLC

MCType ==
  [o \in Op |->
     CASE o \in {"tabA", "tabB"} -> "tab" [] o \in {"closeA", "closeB"} -> "closeTab"
       [] o = "form" -> "modal" [] o = "closeForm" -> "closeModal"
       [] o \in {"save", "delete"} -> "request" [] o = "link" -> "badLink"
       [] o = "here" -> "current" [] o = "logout" -> "logout" [] OTHER -> "instant"]

Only(o) == IF o \in Op THEN o ELSE NoOp

MCSuccess ==
  [o \in Op |->
     CASE o = "save" -> Only("closeForm") [] o = "closeForm" -> Only("reload")
       [] o = "delete" -> Only("warn") [] OTHER -> NoOp]
MCError ==
  [o \in Op |-> IF o = "save" THEN Only("warn") ELSE NoOp]
MCReturned ==
  [o \in Op |-> IF o = "save" THEN Only("tabA") ELSE NoOp]
MCKeyOf ==
  [o \in Op |->
     CASE o \in {"tabA", "closeA"} -> "A" [] o \in {"tabB", "closeB"} -> "B"
       [] OTHER -> "other"]

\* What logins return, and what runs when the page is entered.
OneInit == <<"tabA">>
TwoInit == <<"save", "delete">>

\* What follows a save has a script that throws, what follows a delete finds
\* its input invalid.
AllValid == [o \in Op |-> "valid"]
SomeValid ==
  [o \in Op |-> CASE o = "closeForm" -> "broken" [] o = "warn" -> "invalid"
                  [] OTHER -> "valid"]
=============================================================================
