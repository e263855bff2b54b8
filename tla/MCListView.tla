---------------------------- MODULE MCListView ----------------------------
(* ListView with two views, of which one has a filter of its own, two pages  *)
(* and one condition the user may set; a link may name a view and a filter.  *)
EXTENDS ListView

CONSTANTS v1, v2, own, user

MCViews == {v1, v2}
MCConds == {own, user}
MCViewFilter == [v \in MCViews |-> IF v = v1 THEN {own} ELSE {}]
MCFilters == {{}, {user}}
MCLinks == {[view |-> NoParams, filter |-> NoParams], [view |-> v2, filter |-> {user}]}
MCPages == {1, 2}
===========================================================================
