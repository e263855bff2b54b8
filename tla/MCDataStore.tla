---------------------------- MODULE MCDataStore ----------------------------
(* Two orders, one of an administrator's and one of a filtered user's, with  *)
(* a tag, a child and a file each at most; the requests that meet on them.   *)
EXTENDS DataStore, TLC

CONSTANTS admin, clerk, o1, o2, t1, c1, f1, f2, f3

Row(type, id, checked, owner, rel) ==
  [type |-> type, id |-> id, checked |-> checked, owner |-> owner, rel |-> rel]
Save(rows) == [op |-> "save", rows |-> rows]
Rel(op) == [op |-> op]
RelKey(op, key) == [op |-> op, key |-> key]
RelFile(op, name) == [op |-> op, name |-> name]
Delete(ids, all, filter) == [op |-> "delete", ids |-> ids, all |-> all, filter |-> filter]

MCBodies ==
  { Save(<<Row("update", o1, TRUE, clerk, {RelFile("setFile", "own"), RelKey("dropTag", t1)})>>),
    Save(<<Row("update", o1, FALSE, admin, {RelFile("dropFile", "own"), RelKey("dropChild", c1)}),
           Row("update", o2, FALSE, clerk, {})>>),
    Save(<<Row("update", o2, FALSE, clerk, {RelKey("addTag", t1), RelKey("setChild", c1)}),
           Row("delete", o1, FALSE, clerk, {})>>),
    Save(<<Row("create", o1, FALSE, clerk, {Rel("addFile"), RelKey("addChild", c1)})>>),
    Save(<<Row("update", o1, FALSE, clerk, {RelFile("dropFile", "other"), Rel("badField")})>>),
    Save(<<Row("update", o2, FALSE, clerk, {}), Row("badRow", o1, FALSE, clerk, {})>>),
    Delete({o1, o2}, TRUE, TRUE), Delete({o1}, FALSE, FALSE), Delete({}, TRUE, FALSE),
    [op |-> "update", ids |-> {o1, o2}, owner |-> admin],
    [op |-> "batchDelete", ids |-> {o1}] }

\* The clerk may not change the child; the file of o2 was uploaded under a
\* name that holds the mark of o1.
MCReach == (admin :> {c1}) @@ (clerk :> {})
MCMarks == (f1 :> {}) @@ (f2 :> {o1}) @@ (f3 :> {})

MCStart ==
  [k \in {o1, o2, c1} \cup ({o1, o2} \X {t1}) \cup {f1, f2, f3} |->
     CASE k = o1 -> [owner |-> clerk, version |-> 0, born |-> 0, stamp |-> 0]
       [] k = o2 -> [owner |-> admin, version |-> 0, born |-> 0, stamp |-> 0]
       [] k = f1 -> [parent |-> o1]
       [] k = f2 -> [parent |-> o2]
       [] k = c1 -> [parent |-> o1]
       [] OTHER -> Absent]
=============================================================================
