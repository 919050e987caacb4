----------------------------- MODULE MCIssueLabels -----------------------------
EXTENDS IssueLabels, TLC

CONSTANTS p1, p2

MCTypes == {"type/bug"}
MCComplexity == {"complexity/small", "complexity/complex"}
MCLifecycle == {"needs-analysis", "awaiting-triage", "spec-drafting", "approved",
                "completed", "deployed"}

Symmetry == Permutations(Proc)
================================================================================
