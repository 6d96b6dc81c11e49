--------------------------- MODULE MCSourceUpdate ---------------------------
(* Two Dashboards of one clone, each of which may update it.               *)
EXTENDS SourceUpdate, TLC

CONSTANTS d1, d2
TwoDashboards == {d1, d2}
Alike == Permutations(TwoDashboards)
=============================================================================
