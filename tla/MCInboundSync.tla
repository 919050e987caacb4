----------------------------- MODULE MCInboundSync -----------------------------
EXTENDS InboundSync, TLC

CONSTANTS c0, c1, c2, r1, p1, p2

\* GitHub main goes from c0 over c1 to c2; r1 is what a force-push made of c1.
MCContains ==
  c0 :> {c0} @@ c1 :> {c0, c1} @@ c2 :> {c0, c1, c2} @@ r1 :> {c0, r1}

Symmetry == Permutations(Proc)
================================================================================
