----------------------------- MODULE MCFormView -----------------------------
(* FormView with two parents with a child each, and a table of one row and    *)
(* room for another.                                                          *)
EXTENDS FormView, TLC

CONSTANTS p1, p2, c1, c2, k1, k2, a, b
MCUnder == (c1 :> p1) @@ (c2 :> p2)
MCRows ==
  {[version |-> 1, fields |-> [parent |-> p1, child |-> c1],
    table |-> k1 :> [new |-> FALSE, text |-> a]]}
=============================================================================
