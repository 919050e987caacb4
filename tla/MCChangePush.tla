----------------------------- MODULE MCChangePush -----------------------------
EXTENDS ChangePush, TLC

CONSTANTS m0, m1, h1, h2, f1, g1, e2, p1, p2, s1, s2, a, b

\* main goes from m0 to m1.  The Issue commits h1 on m0 and integrates m1 in h2;
\* e2 integrates it with a change of its own.  f1 is what another host made of h1,
\* outside of the scope; g1 makes the same change after a new approval.
Graph ==
  m0 :> <<>> @@ m1 :> <<m0>> @@ h1 :> <<m0>> @@ h2 :> <<h1, m1>>
    @@ e2 :> <<h1, m1>> @@ f1 :> <<h1>> @@ g1 :> <<h1>>

Reach ==
  m0 :> {m0} @@ m1 :> {m0, m1} @@ h1 :> {m0, h1} @@ h2 :> {m0, m1, h1, h2}
    @@ e2 :> {m0, m1, h1, e2} @@ f1 :> {m0, h1, f1} @@ g1 :> {m0, h1, g1}

MCParents == [c \in Commit |-> Graph[c]]
MCContains == [c \in Commit |-> Reach[c]]
MCTouches == [c \in Commit |-> IF c \in {f1, g1} THEN {b} ELSE {a}]
MCScope ==
  [c \in Commit |-> IF c = g1 THEN [paths |-> {b}, old |-> h1, past |-> {a}]
                    ELSE [paths |-> {a}, old |-> None, past |-> {}]]

Symmetry == Permutations(Proc) \cup Permutations(Session)
===============================================================================
