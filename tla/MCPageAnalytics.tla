--------------------------- MODULE MCPageAnalytics ---------------------------
(***************************************************************************)
(* A business with a form and a linktree, and two visitors.                *)
(***************************************************************************)
EXTENDS PageAnalytics, TLC

CONSTANTS view, answer, click, form, tree, ann, bob

\* Ann sees the form and clicks in the linktree, Bob answers the form.
PageOfEvent == [e \in Events |-> IF e = click THEN tree ELSE form]
VisitorOfEvent == [e \in Events |-> IF e = answer THEN bob ELSE ann]

\* The linktree alone, or everything.
LinktreeOrAll == {{tree}, Pages}

RequestSymmetry == Permutations(Requests)
=============================================================================
