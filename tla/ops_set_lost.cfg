\* A set operation is overwritten by the next queued one.
SPECIFICATION Spec
CONSTANTS
  Op = {"tabA", "form", "delete", "here", "logout"}
  Queenable = {"tabA", "delete"}
  InitOps <- OneInit
  MaxSets = 4
  Answer = {"ok", "error"}
  Validation <- AllValid
  Type <- MCType
  Success <- MCSuccess
  Error <- MCError
  Returned <- MCReturned
  KeyOf <- MCKeyOf
  Logout = "logout"
  NoOp = "none"
CHECK_DEADLOCK FALSE
INVARIANTS
  SetIsExecuted
