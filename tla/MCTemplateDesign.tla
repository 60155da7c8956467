-------------------------- MODULE MCTemplateDesign --------------------------
(***************************************************************************)
(* A small instance of TemplateDesign: a form with a root indicator and    *)
(* two under it, as at the foot of the seed's tree, and two attributes.    *)
(***************************************************************************)
EXTENDS TemplateDesign

CONSTANTS f1, c1, c2, c3, c4, c5, o1, o2, e1, e2, k1, k2

MCIndicators == 1..6
MCAttributes == 11..15
MCLater == {e2, k2}

Plain(parent, sort) ==
  [form |-> f1, parent |-> parent, sort |-> sort, code |-> NULL, kind |-> "PLAIN", entry |-> NULL]

Value(parent, sort, code, entry) ==
  [Plain(parent, sort) EXCEPT !.code = code, !.kind = "INPUT", !.entry = entry]

MCSeedRows ==
  [n \in MCIndicators \cup MCAttributes |->
     CASE n = 1 -> Value(NULL, 0, c1, NULL)
       [] n = 2 -> Value(1, 1, c2, NULL)
       [] n = 3 -> Value(1, 2, c3, NULL)
       [] n = 11 -> Plain(NULL, 0)
       [] n = 12 -> Plain(NULL, 1)
       [] OTHER -> NULL]

MCDrafts ==
  { [parent |-> 1, code |-> c4, kind |-> "INPUT", entry |-> e1, sort |-> UNSET],
    [parent |-> NULL, code |-> c1, kind |-> "TITLE", entry |-> NULL, sort |-> 0] }

Keep == [parent |-> UNSET, code |-> UNSET, kind |-> UNSET, entry |-> UNSET]

MCPatches ==
  { [Keep EXCEPT !.parent = NULL], [Keep EXCEPT !.parent = 2], [Keep EXCEPT !.parent = 3],
    [Keep EXCEPT !.code = c4], [Keep EXCEPT !.kind = "TITLE", !.entry = e1] }

Asked(n, parent) == [id |-> n, parent |-> parent]

MCOrders ==
  { <<Asked(3, UNSET), Asked(2, UNSET)>>, <<Asked(3, NULL)>>, <<Asked(1, 2)>>, <<Asked(3, 2)>>,
    <<Asked(12, UNSET), Asked(11, UNSET)>>, <<Asked(12, 11)>> }

Leave == [type |-> UNSET, required |-> UNSET, readOnly |-> UNSET, formula |-> UNSET]

MCChanges ==
  { [c \in {<<2, 11>>} |-> [Leave EXCEPT !.formula = "f"]],
    [c \in {<<2, 11>>} |-> [Leave EXCEPT !.formula = NULL]],
    [c \in {<<2, 11>>} |-> [Leave EXCEPT !.required = TRUE, !.readOnly = FALSE]] }

MCRules == { {<<o1, 2>>}, {<<o2, 2>>}, {<<o1, 2>>, <<o2, 2>>}, {<<o1, 1>>, <<o1, 2>>, <<o2, 3>>} }

Line(key, parent) == [key |-> key, parent |-> parent, sort |-> 0, kind |-> "INPUT"]

MCSheets ==
  { [indicators |-> <<Line(c4, c5), Line(c5, NULL)>>, attributes |-> <<>>],
    [indicators |-> <<Line(c4, c5), Line(c5, c4)>>, attributes |-> <<Line(c4, NULL), Line(c5, c4)>>],
    [indicators |-> <<>>, attributes |-> <<Line(c4, c3)>>] }
=============================================================================
