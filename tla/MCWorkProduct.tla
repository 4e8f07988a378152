---------------------------- MODULE MCWorkProduct ----------------------------
(* What the hazards need, one scene each: launches that overlap (three of  *)
(* them, for two resumes can race over the base); one dispatch with all it *)
(* leads to; launches that overlap a fetch; a dispatch after an earlier    *)
(* instance left its commits behind; and the operator taking HEAD back, by *)
(* a reset or an amend, between resumes and before work is landed.         *)
EXTENDS WorkProduct, TLC

CONSTANTS l1, l2, l3
MCLaunches == {l1, l2, l3}
MCSymmetry == Permutations(MCLaunches)

\* Bounds: commits, edits, boards and failures, in that order.
Scene(ls, c, e, b, f) ==
  [launches |-> ls, earlier |-> FALSE, fetches |-> FALSE, delivers |-> FALSE,
   leaves |-> 0, failures |-> f, commits |-> c, edits |-> e, boards |-> b]
ScenesOf(n, c, e, b, f) == {Scene(ls, c, e, b, f) : ls \in kSubset(n, MCLaunches)}

MCScenes ==
  ScenesOf(3, 3, 1, 1, 1)
  \cup {[sc EXCEPT !.fetches = TRUE] : sc \in ScenesOf(1, 5, 2, 3, 1)}
  \cup {[sc EXCEPT !.fetches = TRUE] : sc \in ScenesOf(2, 4, 1, 1, 0)}
  \cup {[sc EXCEPT !.earlier = TRUE, !.delivers = TRUE] : sc \in ScenesOf(1, 5, 2, 3, 0)}
  \cup {[sc EXCEPT !.leaves = 1] : sc \in ScenesOf(3, 2, 1, 1, 0)}
  \cup {[sc EXCEPT !.leaves = 1, !.fetches = TRUE] : sc \in ScenesOf(1, 5, 1, 2, 0)}
=============================================================================
