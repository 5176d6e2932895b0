------------------------------- MODULE MCForms -------------------------------
(***************************************************************************)
(* Small instances of the forms.                                           *)
(***************************************************************************)
EXTENDS Forms, TLC

CONSTANTS e1, e2, a1, other

\* Two stories in one run: one editor and the visitors of two forms, and two
\* editors of forms that nobody visits, under one title.
Unvisited ==
  /\ \A p \in Pages : page[p] = Nothing
  /\ \A f \in FormIds : address[f] \in {a1, Nothing} /\ definition[f] # other
  /\ \A e \in Editors :
       draft[e].address \in {a1, Nothing} /\ draft[e].definition # other
OneStory == step[e2] = "idle" \/ Unvisited
=============================================================================
