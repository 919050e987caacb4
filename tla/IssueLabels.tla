----------------------------- MODULE IssueLabels -----------------------------
(***************************************************************************)
(* The labels of one Gitea Issue and everybody who writes them: the typed  *)
(* label operations of the broker, the loop's label reconciliation, the    *)
(* deployment hook and the operator tools.  Each of them reads the label   *)
(* set and later PUTs a whole new one.                                     *)
(*                                                                         *)
(* Abstractions.  Label definitions and ids are left out: a label of these *)
(* sets is defined in the repository.  The documents of a merged change    *)
(* and the manifest do not change, so what mark-completed concludes from   *)
(* them is a constant of the behaviour.                                    *)
(***************************************************************************)
EXTENDS Naturals

CONSTANTS
  TypeLabels, ComplexityLabels, LifecycleLabels,
  RetiredLabels,   \* complexity/ labels of earlier contracts, still on old Issues
  Categories,      \* triage category labels
  States,          \* triage state labels
  Families,        \* one label set per project-extension prefix
  Proc,            \* broker, loop, hook and tool processes
  Chains,          \* deployment_lifecycle branches to consider
  Verification,    \* the change's required_docs contain verification
  MaxWrites,       \* bound: writes by people and by analysis tools
  MaxFaults        \* bound: failed or repeated requests

AllChains == {"every-merge", "selective", "no-chain"}
Complexity == ComplexityLabels \cup RetiredLabels
Triage == Categories \cup States
Free == Triage \cup UNION Families
Label == TypeLabels \cup Complexity \cup LifecycleLabels \cup Free

AtMostOne(dimension, names) == \A x, y \in dimension \cap names : x = y

\* The dimensions of which an Issue may carry one label.
Dimensions == {TypeLabels, ComplexityLabels, LifecycleLabels}

ASSUME DisjointAssumption ==
  /\ TypeLabels \cap (Complexity \cup LifecycleLabels \cup Free) = {}
  /\ Complexity \cap (LifecycleLabels \cup Free) = {}
  /\ LifecycleLabels \cap Free = {}
  /\ ComplexityLabels \cap RetiredLabels = {}
ASSUME LifecycleAssumption ==
  /\ {"needs-analysis", "awaiting-triage", "spec-drafting", "approved",
      "completed", "deployed"} \subseteq LifecycleLabels
  /\ {"complexity/small", "complexity/complex"} \subseteq ComplexityLabels
  /\ "triage/needs-triage" \in States
ASSUME ChainsAssumption ==
  /\ Chains \subseteq AllChains /\ Verification \in BOOLEAN
  /\ MaxWrites \in Nat /\ MaxFaults \in Nat

VARIABLES
  labels,    \* names attached to the Issue
  closed,    \* state of the Issue
  merged,    \* its pull request was merged
  shipped,   \* the deployment of that merge ran its hook
  chain,     \* lifecycle_branch of the repository
  pc, my,    \* where a writer stands; what it read and is about to write
  writes, faults

issue == <<labels, closed, merged, shipped, chain>>
vars == <<issue, pc, my, writes, faults>>

Points == {"idle", "seen", "judged", "put"}
Request == [by : {"broker", "loop", "hook"}, owned : SUBSET Label,
            targets : SUBSET Label, read : SUBSET Label]
NoRequest == [by |-> "broker", owned |-> {}, targets |-> {}, read |-> {}]

TypeOK ==
  /\ labels \subseteq Label
  /\ closed \in BOOLEAN
  /\ merged \in BOOLEAN
  /\ shipped \in BOOLEAN
  /\ chain \in Chains
  /\ pc \in [Proc -> Points]
  /\ my \in [Proc -> Request]
  /\ writes \in 0 .. MaxWrites
  /\ faults \in 0 .. MaxFaults

\* An Issue opened at one of the two entrances; old ones wear a retired label.
Init ==
  /\ \E entry \in {"needs-analysis", "triage/needs-triage"},
        retired \in {{}} \cup {{r} : r \in RetiredLabels} :
       labels = {entry} \cup retired
  /\ closed = FALSE
  /\ merged = FALSE
  /\ shipped = FALSE
  /\ chain \in Chains
  /\ pc = [p \in Proc |-> "idle"]
  /\ my = [p \in Proc |-> NoRequest]
  /\ writes = 0
  /\ faults = 0

(***************************************************************************)
(* The one shape of every writer: read the labels, PUT the whole set.      *)
(***************************************************************************)
Read(p, by, owned, targets) ==
  /\ pc' = [pc EXCEPT ![p] = "put"]
  /\ my' = [my EXCEPT ![p] = [by |-> by, owned |-> owned, targets |-> targets,
                              read |-> labels]]

\* Everything outside the named dimensions is carried across as it was read.
Final(p) == (my[p].read \ my[p].owned) \cup my[p].targets

End(p) ==
  /\ pc' = [pc EXCEPT ![p] = "idle"]
  /\ my' = [my EXCEPT ![p] = NoRequest]

Counted == writes < MaxWrites /\ writes' = writes + 1

Put(p) ==
  /\ pc[p] = "put"
  /\ labels' = Final(p)
  /\ End(p)
  /\ UNCHANGED <<closed, merged, shipped, chain, writes, faults>>

\* The loop's client repeats a PUT whose answer was lost; the others give up.
PutAgain(p) ==
  /\ pc[p] = "put" /\ my[p].by = "loop"
  /\ faults < MaxFaults
  /\ faults' = faults + 1
  /\ labels' = Final(p)
  /\ UNCHANGED <<closed, merged, shipped, chain, pc, my, writes>>

\* A transport error or a crash before anything was written.
Fail(p) ==
  /\ pc[p] # "idle"
  /\ faults < MaxFaults
  /\ faults' = faults + 1
  /\ End(p)
  /\ UNCHANGED <<issue, writes>>

(***************************************************************************)
(* The broker: replace whole dimensions, but not when they are right.      *)
(***************************************************************************)
\* Mutant: the dimension is not cleared.
ReplaceDimensionAdds(p, owned, targets) ==
  /\ labels \cap owned # targets
  /\ Read(p, "broker", {}, targets)

ReplaceDimension(p, owned, targets) ==
  /\ labels \cap owned # targets
  /\ Read(p, "broker", owned, targets)

\* Mutant: no state is terminal.
DeniedNever(lifecycle) == FALSE

\* A deployed Issue is not taken back to completed.
Denied(lifecycle) == lifecycle = "completed" /\ "deployed" \in labels

SetLifecycle(p, lifecycle) ==
  /\ ~Denied(lifecycle)
  /\ ReplaceDimension(p, LifecycleLabels, {lifecycle})

WriteLifecycle(p, lifecycle) ==
  /\ pc[p] = "idle"
  /\ Counted
  /\ SetLifecycle(p, lifecycle)
  /\ UNCHANGED <<issue, faults>>

SetExtensionLabel(p, family, label) ==
  /\ pc[p] = "idle"
  /\ Counted
  /\ ReplaceDimension(p, family, {label})
  /\ UNCHANGED <<issue, faults>>

\* apply-classification-labels reads that the Issue is open ...
SeeOpen(p) ==
  /\ pc[p] = "idle"
  /\ ~closed
  /\ Counted
  /\ pc' = [pc EXCEPT ![p] = "seen"]
  /\ UNCHANGED <<issue, my, faults>>

\* ... and then asks the broker to classify it.
Classify(p, type, complexity) ==
  /\ pc[p] = "seen"
  /\ ReplaceDimension(p, TypeLabels \cup Complexity, {type, complexity})
  /\ UNCHANGED <<issue, writes, faults>>

\* The labels already say so.
ClassifyNothing(p) ==
  /\ pc[p] = "seen"
  /\ \E type \in TypeLabels, complexity \in ComplexityLabels :
       labels \cap (TypeLabels \cup Complexity) = {type, complexity}
  /\ End(p)
  /\ UNCHANGED <<issue, writes, faults>>

(***************************************************************************)
(* The loop: reconcile exactly the canonical names, whatever they are.     *)
(***************************************************************************)
\* Mutant: a route to a lifecycle label the contract does not have.
RoutesUnknown == {[complexity |-> {}, lifecycle |-> "blocked"]}

\* What a classification can be routed to; small work without acceptance criteria waits.
Routes == {[complexity |-> {}, lifecycle |-> "awaiting-triage"],
           [complexity |-> {"complexity/complex"}, lifecycle |-> "spec-drafting"],
           [complexity |-> {"complexity/small"}, lifecycle |-> "approved"],
           [complexity |-> {"complexity/small"}, lifecycle |-> "awaiting-triage"]}

\* apply-analysis reads the Issue and routes the result by the complexity it asks for ...
ApplyAnalysis(p, type, route) ==
  /\ pc[p] = "idle"
  /\ Counted
  /\ AtMostOne(ComplexityLabels, labels)
  /\ "complexity/complex" \in labels => route.complexity # {"complexity/small"}
  /\ pc' = [pc EXCEPT ![p] = "judged"]
  /\ my' = [my EXCEPT ![p].targets = {type, route.lifecycle} \cup route.complexity]
  /\ UNCHANGED <<issue, faults>>

\* ... and then reads it again for the labels it will write.
SetLabels(p) ==
  /\ pc[p] = "judged"
  /\ Read(p, "loop", TypeLabels \cup ComplexityLabels \cup LifecycleLabels, my[p].targets)
  /\ UNCHANGED <<issue, writes, faults>>

SetTriageLabels(p, category, state) ==
  /\ pc[p] = "idle"
  /\ Counted
  /\ Read(p, "loop", Triage, {category, state})
  /\ UNCHANGED <<issue, faults>>

(***************************************************************************)
(* After the merge: the deployment hook and the operator's mark-completed. *)
(***************************************************************************)
\* The hook writes deployed once per deployment and never reports a failure.
MarkDeployed(p) ==
  /\ pc[p] = "idle"
  /\ merged /\ ~shipped
  /\ chain # "no-chain"
  /\ shipped' = TRUE
  /\ Read(p, "hook", LifecycleLabels, {"deployed"})
  /\ UNCHANGED <<labels, closed, merged, chain, writes, faults>>

\* Mutant: any repository with a deployment chain is waited for.
WaitsAlways == Verification /\ chain # "no-chain"

\* requires-deployment: the chain covers every merge, so deployed will be written.
Waits == Verification /\ chain = "every-merge"

MarkCompleted(p) ==
  /\ pc[p] = "idle"
  /\ merged
  /\ ~Waits
  /\ SetLifecycle(p, "completed")
  /\ UNCHANGED <<issue, writes, faults>>

(***************************************************************************)
(* People: merging, closing, reopening, and labels nobody manages.         *)
(***************************************************************************)
Merge ==
  /\ ~merged
  /\ merged' = TRUE
  /\ closed' = TRUE
  /\ UNCHANGED <<labels, shipped, chain, pc, my, writes, faults>>

\* The broker opens or closes any Issue; nothing is written when it is so already.
SetIssueState(state) ==
  /\ closed # state
  /\ Counted
  /\ closed' = state
  /\ UNCHANGED <<labels, merged, shipped, chain, pc, my, faults>>

EditLabel(label) ==
  /\ Counted
  /\ labels' = IF label \in labels THEN labels \ {label} ELSE labels \cup {label}
  /\ UNCHANGED <<closed, merged, shipped, chain, pc, my, faults>>

Edit(p) ==
  \/ \E lifecycle \in LifecycleLabels : WriteLifecycle(p, lifecycle)
  \/ \E family \in Families : \E label \in family : SetExtensionLabel(p, family, label)
  \/ SeeOpen(p)
  \/ \E type \in TypeLabels, route \in Routes : ApplyAnalysis(p, type, route)
  \/ \E category \in Categories, state \in States : SetTriageLabels(p, category, state)

Advance(p) ==
  \/ \E type \in TypeLabels, complexity \in ComplexityLabels : Classify(p, type, complexity)
  \/ ClassifyNothing(p)
  \/ SetLabels(p)
  \/ Put(p)

Next ==
  \/ \E p \in Proc :
       Edit(p) \/ Advance(p) \/ MarkDeployed(p) \/ MarkCompleted(p) \/ PutAgain(p) \/ Fail(p)
  \/ Merge
  \/ \E state \in BOOLEAN : SetIssueState(state)
  \/ \E label \in Free : EditLabel(label)

Spec == Init /\ [][Next]_vars

\* A running writer goes on; the operator runs mark-completed again and again; a
\* chain that covers every merge deploys this one.
Fairness ==
  /\ \A p \in Proc : WF_vars(Advance(p))
  /\ SF_vars(\E p \in Proc : MarkCompleted(p))
  /\ SF_vars(chain = "every-merge" /\ \E p \in Proc : MarkDeployed(p))

FairSpec == Spec /\ Fairness

-----------------------------------------------------------------------------
(***************************************************************************)
(* Properties.                                                             *)
(***************************************************************************)
\* Whole-set writes computed from stale reads may undo each other, but the Issue
\* never carries two labels of the type, complexity or lifecycle dimension.
OnePerDimension == \A d \in Dimensions : AtMostOne(d, labels)

\* A deployed Issue falls back to completed only through a write that was computed
\* before it was deployed: the guard of the broker stops every other one.
DemotionNeedsRace ==
  [][labels' # labels /\ "deployed" \in labels \ labels' /\ "completed" \in labels' =>
       \E p \in Proc : pc[p] = "put" /\ "deployed" \notin my[p].read]_vars

\* After the merge the Issue reaches a terminal state and stays in one, unless its
\* repository promises to deploy every merge: then mark-completed waits for the hook.
Terminal == {"completed", "deployed"}
TerminalReached ==
  <>[](merged /\ chain # "every-merge" => labels \cap Terminal # {})

-----------------------------------------------------------------------------
(* The inductive invariant.                                                *)
\* A pending write replaces a dimension by at most one label or leaves it alone.
CleanWrite(request) ==
  \A d \in Dimensions :
    /\ AtMostOne(d, request.read)
    /\ \/ d \subseteq request.owned /\ AtMostOne(d, request.targets)
       \/ d \cap (request.owned \cup request.targets) = {}

\* completed is about to be written only by who did not read deployed.
CleanDemotion(request) ==
  "completed" \in request.targets => "deployed" \notin request.read

\* The loop is about to write one label of each dimension at most, and not completed.
CleanRoute(targets) ==
  /\ \A d \in Dimensions : AtMostOne(d, targets)
  /\ "completed" \notin targets

CleanRequests ==
  \A p \in Proc :
    /\ pc[p] = "put" => CleanWrite(my[p]) /\ CleanDemotion(my[p])
    /\ pc[p] = "judged" => CleanRoute(my[p].targets)

IInv == TypeOK /\ OnePerDimension /\ CleanRequests
==============================================================================
