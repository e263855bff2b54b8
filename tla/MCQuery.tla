------------------------------- MODULE MCQuery -------------------------------
(* Three items in a tree, two teams, a tag and what belongs to the items.    *)
EXTENDS Query

Plain(name) == [name |-> name, type |-> "plain"]
Team == [name |-> "team", type |-> "many2one", model |-> "team", filter |-> Nothing,
         fields |-> <<Plain("id"), Plain("lead")>>, page |-> NoPage]
Tags == [name |-> "tags", type |-> "many2many", model |-> "tag", filter |-> Nothing,
         fields |-> <<Plain("id")>>, page |-> NoPage]
Notes == [name |-> "notes", type |-> "one2many", model |-> "note", by |-> "item",
          filter |-> {Field("kind", "eq", {1}, {})},
          fields |-> <<Plain("id"), Plain("item")>>, page |-> NoPage]
Photo == [name |-> "photo", type |-> "file", model |-> "file", field |-> 1,
          fields |-> <<Plain("id")>>, page |-> NoPage]
Subs == [name |-> "subs", type |-> "tree", model |-> "item", by |-> "parent", page |-> NoPage]

OwnTeams == {Field("team", "in", {}, {<<"team", "id">>})}
Dataset1 == [queryRoles |-> {"lead"}, mutationRoles |-> {}, filter |-> OwnTeams,
             fields |-> {"id", "team", "parent"}, process |-> TRUE, data |-> TRUE]
Dataset2 == [queryRoles |-> {"clerk"}, mutationRoles |-> {}, filter |-> {Field("team", "is", {}, {})},
             fields |-> {"*"}, process |-> FALSE, data |-> FALSE]
Dataset3 == [queryRoles |-> {}, mutationRoles |-> {"admin"}, filter |-> Nothing,
             fields |-> {"*"}, process |-> FALSE, data |-> FALSE]
MCDatasets == <<Dataset1, Dataset2, Dataset3>>
MCFilterData == <<[model |-> "team", filter |-> {Field("lead", "eq", {}, {<<"userID">>})},
                   userColumn |-> "lead", fields |-> <<Plain("id")>>]>>
MCRolesOf == <<{"lead"}, {"lead", "clerk"}, {"admin"}, {"guest"}>>

Request(filter, fields, page) == [filter |-> filter, fields |-> fields, page |-> page]
MCRequests ==
  { Request(Nothing, <<Plain("id"), Team, Tags>>, NoPage),
    Request(Nothing, <<Plain("id"), Notes, Photo>>, NoPage),
    Request({Or(<<{Field("parent", "is", {}, {})}, {Field("team", "eq", {2}, {})}>>)},
            <<Plain("id"), Plain("parent"), Subs>>, NoPage),
    Request({Field("tags", "in", {1}, {})}, <<Plain("id"), Tags>>, NoPage),
    Request({Field("id", "ne", {3}, {})}, <<Plain("id")>>, [current |-> 2, size |-> 1]),
    Request(Nothing, <<Plain("id")>>, [current |-> 0, size |-> 1]),
    Request({Or(<<>>)}, <<Plain("id")>>, NoPage),
    Request(Nothing, <<Team, Tags>>, NoPage) }

Item(id, team, parent) == [id |-> id, team |-> team, parent |-> parent]
MCDatabases ==
  { [item |-> items,
     team |-> {[id |-> 1, lead |-> 1], [id |-> 2, lead |-> 2]},
     tag |-> {[id |-> 1]},
     link |-> {[id |-> 1, item |-> 2, tag |-> 1], [id |-> 2, item |-> 3, tag |-> 1]},
     note |-> {[id |-> 1, item |-> 1, kind |-> 1], [id |-> 2, item |-> 2, kind |-> 1]},
     file |-> {[id |-> 1, row |-> 1, field |-> 1], [id |-> 2, row |-> 1, field |-> 2]}] :
    items \in { {Item(1, 1, 0), Item(2, 1, 1), Item(3, 2, 1)},
                {Item(1, 2, 0), Item(2, 0, 1), Item(3, 2, 2)} } }
MCRows == [item |-> {Item(i, t, p) : i \in 1..3, t \in {0, 1}, p \in 0..2},
           team |-> {[id |-> i, lead |-> u] : i \in 1..2, u \in 1..2},
           tag |-> {}, link |-> {[id |-> 3, item |-> i, tag |-> 1] : i \in 1..3},
           note |-> {[id |-> 3, item |-> i, kind |-> 1] : i \in 1..3},
           file |-> {[id |-> 3, row |-> 2, field |-> 1]}]
=============================================================================
