----------------------------- MODULE ChangeHistory -----------------------------
(***************************************************************************)
(* What aisoft_main_integration.GitRepository.verify_history accepts as the *)
(* history of a change branch: the commits main does not contain form one   *)
(* chain of first parents, each of them a commit within the scope of the    *)
(* spec at the head, or a clean integration of main.                        *)
(*                                                                          *)
(* Abstractions.  A commit is given with its parents, what it contains and  *)
(* the paths in which it differs from its first parent; Clean is the verdict*)
(* of merge_tree on its tree; Scope is what scope() reads at it.  The rules *)
(* for canonical templates, file modes, configuration and the bound on the  *)
(* number of commits are left out.                                          *)
(***************************************************************************)
EXTENDS Naturals, Sequences, FiniteSets

CONSTANTS
  Commit,
  Contains,   \* Contains[c]: c and every commit reachable from c
  Parents,    \* Parents[c]: the parents of c, the first one first
  Touches,    \* Touches[c]: paths that differ between c and its first parent
  Clean,      \* commits whose tree is that of the merge of their two parents
  Scope,      \* Scope[c]: paths, older head and its paths, in the spec at c
  None

Paths == UNION {Touches[c] : c \in Commit}

ASSUME ContainsAssumption ==
  /\ Contains \in [Commit -> SUBSET Commit]
  /\ \A c \in Commit : c \in Contains[c]
  /\ \A c, d \in Commit : d \in Contains[c] => Contains[d] \subseteq Contains[c]
ASSUME ParentsAssumption ==
  /\ Parents \in [Commit -> Seq(Commit)]
  /\ \A c \in Commit :
       Contains[c] = {c} \cup UNION {Contains[Parents[c][i]] : i \in 1 .. Len(Parents[c])}
\* A commit names its parents by their hashes: its history is finite, and no parent
\* has the commit in its own.
ASSUME HistoryAssumption ==
  \A c \in Commit :
    /\ IsFiniteSet(Contains[c])
    /\ \A i \in 1 .. Len(Parents[c]) : c \notin Contains[Parents[c][i]]
ASSUME ScopeAssumption ==
  /\ None \notin Commit
  /\ DOMAIN Touches = Commit
  /\ Clean \subseteq Commit
  /\ Scope \in [Commit -> [paths : SUBSET Paths, old : Commit \cup {None}, past : SUBSET Paths]]

\* rev-list head ^main
Relevant(h, base) == Contains[h] \ Contains[base]

\* The walk along first parents, and how far verify_history follows it.
Walk[c \in Commit] ==
  IF Parents[c] = <<>> THEN {c} ELSE {c} \cup Walk[Parents[c][1]]

Chain(h, base) == Walk[h] \ Contains[base]

\* Commits of the history an older approval covered have the paths of that approval.
Permitted(c, h) ==
  IF Scope[h].old # None /\ c \in Contains[Scope[h].old] THEN Scope[h].past
  ELSE Scope[h].paths

InScope(c, h) == Len(Parents[c]) = 1 /\ Touches[c] \subseteq Permitted(c, h)

\* The parents are an Issue tip and a commit of main the tip does not have yet.
Integration(c, base) ==
  /\ Len(Parents[c]) = 2
  /\ Parents[c][1] \notin Contains[base]
  /\ Parents[c][2] \in Contains[base]
  /\ Parents[c][2] \notin Contains[Parents[c][1]]
  /\ c \in Clean

WalkHolds(h, base) ==
  /\ \A c \in Chain(h, base) : InScope(c, h) \/ Integration(c, base)
  /\ Chain(h, base) = Relevant(h, base)

Anchored(h, anchors) == anchors \ {None} \subseteq Contains[h]

\* Mutant: what the remote already has is not examined again.
HistoryHoldsSince(h, base, original, current) ==
  /\ Anchored(h, {base, original, current, Scope[h].old})
  /\ \A c \in Chain(h, base) :
       \/ current # None /\ c \in Contains[current]
       \/ InScope(c, h) \/ Integration(c, base)
  /\ Chain(h, base) = Relevant(h, base)

HistoryHolds(h, base, original, current) ==
  /\ Anchored(h, {base, original, current, Scope[h].old})
  /\ WalkHolds(h, base)

-----------------------------------------------------------------------------
\* What a reader of the branch may rely on, whichever way the commits were
\* visited: a commit that main does not contain changed only paths the spec names,
\* or is the merge of main and adds nothing to it.
Vetted(h, base) ==
  \A c \in Contains[h] \ Contains[base] :
    \/ Len(Parents[c]) = 1 /\ Touches[c] \subseteq Scope[h].paths \cup Scope[h].past
    \/ Len(Parents[c]) = 2 /\ c \in Clean /\ Parents[c][2] \in Contains[base]
===============================================================================
