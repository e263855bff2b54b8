------------------------------ MODULE MCSession ------------------------------
(***************************************************************************)
(* Instances of Session for TLC: two applications and two user IDs; the    *)
(* same user ID exists in both applications.                               *)
(***************************************************************************)
EXTENDS Session, TLC

CONSTANTS d1, d2, u1, u2, admin, clerk, guest

AllAccounts == {<<d1, u1>>, <<d1, u2>>, <<d2, u1>>}
TwoAccounts == {<<d1, u1>>, <<d2, u1>>}
MCRolesOf ==
  [a \in Account |->
     CASE a = <<d1, u1>> -> admin [] a = <<d1, u2>> -> clerk [] OTHER -> guest]

Symmetry == Permutations(Handler)
=============================================================================
