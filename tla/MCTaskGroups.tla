----------------------------- MODULE MCTaskGroups -----------------------------
EXTENDS TaskGroups, TLC

CONSTANTS t1, t2, g1

(* Both agents join one group.                                             *)
OneGroup == [t \in Tasks |-> g1]

(* Together they make a wait for all that wakes the parent.                *)
MCPolicies == {<<"any", TRUE>>, <<"all", FALSE>>}

===============================================================================
