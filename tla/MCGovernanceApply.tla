--------------------------- MODULE MCGovernanceApply ---------------------------
EXTENDS GovernanceApply, TLC

CONSTANTS p1, p2, d1

MCProtection(status, approvals, rest) ==
  [status |-> status, approvals |-> approvals, rest |-> rest]

Start0 == [private |-> TRUE, prune |-> TRUE, protection |-> Unprotected,
           manager |-> "admin", agent |-> "write", bot |-> "write"]

\* A repository before bootstrap with an old protection, one without any, and
\* one that waits for its first required context.
MCInitial ==
  { [Start0 EXCEPT !.manager = "missing",
                   !.protection = MCProtection("declared", "declared", "other")],
    [Start0 EXCEPT !.private = FALSE, !.agent = "missing"],
    [Start0 EXCEPT !.protection = MCProtection("empty", "declared", "declared")] }

\* People change the required checks or the manager.
MCEdits ==
  { <<"protection", MCProtection("other", "declared", "declared")>>,
    <<"manager", "missing">> }

Symmetry == Permutations(Proc)
================================================================================
