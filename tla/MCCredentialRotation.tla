----------------------- MODULE MCCredentialRotation -----------------------
EXTENDS CredentialRotationInv, TLC

CONSTANTS t1, t2, t3, t4, p1, p2, a1, a2

\* The first authorization still wants the legacy scopes, the second the new ones.
MCPolicy == [a \in Auth |-> IF a = a1 THEN "legacy" ELSE "current"]

Symmetry == Permutations(Token) \cup Permutations(Proc)
===========================================================================
