---------------------------- MODULE MCFlowEngine ----------------------------
(***************************************************************************)
(* Instances of FlowEngine for TLC: flows over six node IDs and the bodies *)
(* that clients and services send.                                         *)
(*   approve: start, form, request, merge of the form's output, save, end  *)
(*   lookup:  start, form, request, merge of the request's result, save    *)
(*   direct:  start, save, and no further edge                             *)
(*   twice:   start, form, and a second form right after it                *)
(*   keys:    start, form, merge of the form's selected row keys, save      *)
(*   broken:  start, form, then a node without configuration               *)
(*   headless: no start node                                               *)
(***************************************************************************)
EXTENDS FlowEngine, TLC

CONSTANTS r1, r2

MCNode == {"s", "f", "q", "m", "v", "e"}

MCKind ==
  [f \in Flow |->
     CASE f \in {"twice", "broken"} -> [n \in MCNode |->
            CASE n = "s" -> "start" [] n \in {"f", "m"} -> "form" [] OTHER -> "unknown"]
       [] f = "headless" -> [n \in MCNode |-> "unknown"]
       [] OTHER -> [n \in MCNode |->
            CASE n = "s" -> "start" [] n = "f" -> "form" [] n = "q" -> "request"
              [] n = "m" -> "merge" [] n = "v" -> "save" [] OTHER -> "end"]]

Chain(order) ==
  [n \in MCNode |->
     IF \E k \in 1 .. Len(order) - 1 : order[k] = n
       THEN order[(CHOOSE k \in 1 .. Len(order) : order[k] = n) + 1]
       ELSE NoNode]

MCEdge ==
  [f \in Flow |->
     CASE f = "approve" -> Chain(<<"s", "f", "q", "m", "v", "e">>)
       [] f = "lookup" -> Chain(<<"s", "f", "q", "m", "v">>)
       [] f = "direct" -> Chain(<<"s", "v">>)
       [] f = "keys" -> Chain(<<"s", "f", "m", "v">>)
       [] f = "broken" -> Chain(<<"s", "f", "q">>)
       [] f = "twice" -> Chain(<<"s", "f", "m">>)
       [] OTHER -> Chain(<<"s">>)]

MCStart ==
  [f \in Flow |->
     IF f = "headless" THEN NoNode ELSE "s"]

MCMainSource ==
  [f \in Flow |-> [n \in MCNode |-> IF f = "lookup" THEN "q" ELSE "f"]]

MCKeySource ==
  [f \in Flow |-> [n \in MCNode |-> IF f = "keys" /\ n = "m" THEN {"f"} ELSE {}]]

Body(stage, model, list) == [stage |-> stage, model |-> model, list |-> list]

\* Bodies a form, a list view and a start operation send.
GoodBodies == {Body(0, TRUE, {r1}), Body(1, TRUE, {r1})}
\* ... and bodies without a list, without a modelID, with an empty list.
AllBodies == GoodBodies \cup
  {Body(1, TRUE, NoList), Body(0, TRUE, NoList), Body(1, FALSE, {r1}), Body(1, TRUE, {})}

GoodResults == {Body(0, TRUE, {r2})}
\* Rows that only services give.
EmptyBodies == {Body(0, TRUE, {}), Body(1, TRUE, {})}
RowResults == {Body(0, TRUE, {r1}), Body(0, TRUE, {r2})}
AllResults == GoodResults \cup {NoRsp}

Symmetry ==
  Permutations(Handler) \cup Permutations(Instance) \cup Permutations(Row)
=============================================================================
