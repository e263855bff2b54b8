\* Requests, dialogs, tabs and the queue; effects run, requests end.
SPECIFICATION FairSpec
CONSTANTS
  Op = {"tabA", "tabB", "closeB", "form", "save", "closeForm", "delete", "warn", "link", "here", "logout"}
  Queenable = {"tabA", "tabB", "delete"}
  InitOps <- TwoInit
  MaxSets = 4
  Answer = {"ok", "operation", "error", "expired"}
  Validation <- SomeValid
  Type <- MCType
  Success <- MCSuccess
  Error <- MCError
  Returned <- MCReturned
  KeyOf <- MCKeyOf
  Logout = "logout"
  NoOp = "none"
CHECK_DEADLOCK FALSE
INVARIANTS
  RunsOnce
  QueuedIsKept
  QueueInOrder
  AnswerIsOwn
  TabsSound
PROPERTIES
  ChainEnds
  QueueDrains
