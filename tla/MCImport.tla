------------------------------ MODULE MCImport ------------------------------
(* Imports for TLC: a table of two columns, with a form field beside it, with *)
(* an empty row, with values left out; a file of two sheets; files without    *)
(* the sheet they need. A date is the pair of a tag and a number.             *)
EXTENDS Import, TLC

MCId == {"date"} \X Number
MCFormat == [n \in Number |-> <<"date", n>>]

Field(labels, range, end, empty) ==
  [labels |-> labels, range |-> range, endRow |-> end, emptyValue |-> empty, input |-> FALSE]
FieldA == Field("A" :> 0, "table", "auto", FALSE)
FieldB == Field(("B" :> 0) @@ ("A" :> 2), "auto", "auto", FALSE)
FieldC == Field("C" :> 0, "auto", "no", TRUE)

Spec1(selectors, header) ==
  [fields |-> <<FieldA, FieldB, FieldC>>, maxHeader |-> header, selectors |-> selectors]
Book(sheets, selectors, header) ==
  [sheets |-> sheets, names |-> <<"one", "two">>, spec |-> Spec1(selectors, header)]

Gap == << <<"C", "6">>, <<"A", "B">>, <<"1", "2">>, <<"", "3">>, <<>>, <<"4", "5">> >>
Beside == << <<"C", "9", "A", "B">>, <<"1", "", "2", "3">>, <<"", "", "4", "5">> >>
Form == << <<"C", "6">>, <<"A", "B">>, <<"", "1">>, <<"2", "3">> >>
AnySheet == << [type |-> "index", value |-> 1, optional |-> "yes"],
               [type |-> "name", value |-> {"three"}, optional |-> "yes"],
               [type |-> "name", value |-> {"two"}, optional |-> "no"] >>
NoSheet == << [type |-> "index", value |-> 3, optional |-> "no"] >>

MCLike(a, b) == a = b
MCFile ==
  [g |-> Book(<<Gap>>, <<>>, 0), h |-> Book(<<Gap>>, <<>>, 1),
   i |-> Book(<<Form, Form>>, AnySheet, 0), j |-> Book(<<Form>>, NoSheet, 0),
   k |-> Book(<<Beside, Form>>, AnySheet, 0)]
Symmetry == Permutations(Caller)

\* The properties say something of these sheets.
ASSUME \A name \in DOMAIN File \ {"k"} : \A n \in Visits(name) : WellLaidOut(name, n)
ASSUME \A name \in DOMAIN File : 1 \in Visits(name) => WellLaidOut(name, 1)
=============================================================================
