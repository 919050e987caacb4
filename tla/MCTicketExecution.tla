--------------------------- MODULE MCTicketExecution ---------------------------
EXTENDS TicketExecution, TLC

CONSTANTS t1, t2, p1, p2, s1, s2

\* The second ticket is blocked by the first.
MCDeps == t1 :> {} @@ t2 :> {t1}

Symmetry == Permutations(Proc) \cup Permutations(Session)
================================================================================
