-------------------------- MODULE IssueLabels_proofs --------------------------
(***************************************************************************)
(* IInv is inductive: a request that was computed from a clean label set   *)
(* either replaces a dimension by at most one label or carries it across,  *)
(* so whatever order stale requests land in, the result is clean again.    *)
(***************************************************************************)
EXTENDS IssueLabels, TLAPS



\* The request a writer makes from a clean label set is clean.
LEMMA ReadIsClean ==
  ASSUME IInv, NEW p \in Proc, NEW by \in {"broker", "loop", "hook"},
         NEW owned \in SUBSET Label, NEW targets \in SUBSET Label,
         Read(p, by, owned, targets), UNCHANGED labels,
         \A d \in Dimensions :
           \/ d \subseteq owned /\ AtMostOne(d, targets)
           \/ d \cap (owned \cup targets) = {},
         "completed" \in targets => "deployed" \notin labels
  PROVE  /\ pc' \in [Proc -> Points]
         /\ my' \in [Proc -> Request]
         /\ OnePerDimension'
         /\ CleanRequests'
<1> DEFINE new == [by |-> by, owned |-> owned, targets |-> targets, read |-> labels]
<1>1. new \in Request
  BY DEF Request, IInv, TypeOK
<1>2. CleanWrite(new) /\ CleanDemotion(new)
  BY DEF CleanWrite, CleanDemotion, IInv, OnePerDimension
<1>3. /\ pc' = [pc EXCEPT ![p] = "put"]
      /\ my' = [my EXCEPT ![p] = new]
  BY DEF Read
<1> HIDE DEF new
<1>4. OnePerDimension'
  BY DEF IInv, OnePerDimension, AtMostOne, Dimensions
<1>5. \A q \in Proc : my'[q] = IF q = p THEN new ELSE my[q]
  BY <1>3 DEF IInv, TypeOK
<1>6. \A q \in Proc : pc'[q] = IF q = p THEN "put" ELSE pc[q]
  BY <1>3 DEF IInv, TypeOK
<1>7. CleanRequests'
  BY <1>2, <1>5, <1>6 DEF IInv, CleanRequests, CleanWrite, CleanDemotion, CleanRoute, AtMostOne
<1> QED
  BY <1>1, <1>3, <1>4, <1>7 DEF IInv, TypeOK, Points

\* What a clean request writes is clean.
LEMMA FinalIsClean ==
  ASSUME IInv, NEW p \in Proc, pc[p] = "put"
  PROVE  /\ Final(p) \subseteq Label
         /\ \A d \in Dimensions : AtMostOne(d, Final(p))
<1>1. my[p] \in Request /\ CleanWrite(my[p])
  BY DEF IInv, TypeOK, CleanRequests
<1>2. Final(p) \subseteq Label
  BY <1>1 DEF Final, Request
<1>3. ASSUME NEW d \in Dimensions PROVE AtMostOne(d, Final(p))
  <2>1. CASE d \subseteq my[p].owned /\ AtMostOne(d, my[p].targets)
    BY <2>1 DEF Final, AtMostOne
  <2>2. CASE d \cap (my[p].owned \cup my[p].targets) = {} /\ AtMostOne(d, my[p].read)
    BY <2>2 DEF Final, AtMostOne
  <2> QED
    BY <1>1, <2>1, <2>2 DEF CleanWrite
<1> QED
  BY <1>2, <1>3

\* A process that goes idle leaves the others' requests as they are.
LEMMA EndIsClean ==
  ASSUME IInv, NEW p \in Proc, End(p)
  PROVE  /\ pc' \in [Proc -> Points]
         /\ my' \in [Proc -> Request]
         /\ CleanRequests'
<1>1. NoRequest \in Request
  BY DEF NoRequest, Request
<1>2. \A q \in Proc : pc'[q] # "idle" => pc'[q] = pc[q] /\ my'[q] = my[q]
  BY DEF End, IInv, TypeOK
<1>3. CleanRequests'
  BY <1>2 DEF IInv, CleanRequests, CleanWrite, CleanDemotion, CleanRoute, AtMostOne
<1> QED
  BY <1>1, <1>3 DEF End, IInv, TypeOK, Points

\* A broker request for whole dimensions keeps the invariant.
LEMMA ReplaceKeeps ==
  ASSUME IInv, NEW p \in Proc,
         NEW owned \in SUBSET Label, NEW targets \in SUBSET Label,
         ReplaceDimension(p, owned, targets), UNCHANGED issue,
         \A d \in Dimensions :
           \/ d \subseteq owned /\ AtMostOne(d, targets)
           \/ d \cap (owned \cup targets) = {},
         "completed" \in targets => "deployed" \notin labels,
         writes' \in 0 .. MaxWrites, faults' \in 0 .. MaxFaults
  PROVE  IInv'
<1>1. Read(p, "broker", owned, targets) /\ UNCHANGED labels
  BY DEF ReplaceDimension, issue
<1>2. /\ pc' \in [Proc -> Points]
      /\ my' \in [Proc -> Request]
      /\ OnePerDimension'
      /\ CleanRequests'
  BY <1>1, ReadIsClean
<1>3. TypeOK'
  BY <1>2 DEF IInv, TypeOK, issue
<1> QED
  BY <1>2, <1>3 DEF IInv

LEMMA InitHolds == Init => IInv
<1> SUFFICES ASSUME Init PROVE IInv
  OBVIOUS
<1>1. NoRequest \in Request
  BY DEF NoRequest, Request
<1>2. PICK entry \in {"needs-analysis", "triage/needs-triage"},
           retired \in {{}} \cup {{r} : r \in RetiredLabels} :
        labels = {entry} \cup retired
  BY DEF Init
<1>3. retired \subseteq RetiredLabels
  OBVIOUS
<1>4. entry \in LifecycleLabels \cup Free
  BY LifecycleAssumption DEF Free, Triage
<1>5. labels \subseteq Label
  BY <1>2, <1>3, <1>4 DEF Label, Complexity
<1>6. TypeOK
  <2>1. pc \in [Proc -> Points] /\ my \in [Proc -> Request]
    BY <1>1 DEF Init, Points
  <2>2. closed \in BOOLEAN /\ merged \in BOOLEAN /\ shipped \in BOOLEAN /\ chain \in Chains
    BY DEF Init
  <2>3. writes \in 0 .. MaxWrites /\ faults \in 0 .. MaxFaults
    BY ChainsAssumption DEF Init
  <2> QED
    BY <1>5, <2>1, <2>2, <2>3 DEF TypeOK
<1>7. \A d \in Dimensions : d \cap retired = {}
  BY <1>3, DisjointAssumption DEF Dimensions, Complexity
<1>8. OnePerDimension
  BY <1>2, <1>7 DEF OnePerDimension, AtMostOne
<1> QED
  BY <1>6, <1>8 DEF IInv, Init, CleanRequests

\* The operator tools and the broker write one lifecycle label.
LEMMA LifecycleKeeps ==
  ASSUME IInv, NEW p \in Proc, NEW lifecycle \in LifecycleLabels,
         SetLifecycle(p, lifecycle), UNCHANGED issue,
         writes' \in 0 .. MaxWrites, faults' \in 0 .. MaxFaults
  PROVE  IInv'
<1> DEFINE owned == LifecycleLabels
           targets == {lifecycle}
<1>1. owned \in SUBSET Label /\ targets \in SUBSET Label
  BY DEF Label
<1>2. ReplaceDimension(p, owned, targets)
  BY DEF SetLifecycle
<1>3. \A d \in Dimensions :
        \/ d \subseteq owned /\ AtMostOne(d, targets)
        \/ d \cap (owned \cup targets) = {}
  BY DisjointAssumption DEF Dimensions, AtMostOne, Complexity
<1>4. "completed" \in targets => "deployed" \notin labels
  BY DEF SetLifecycle, Denied
<1> HIDE DEF owned, targets
<1> QED
  BY <1>1, <1>2, <1>3, <1>4, ReplaceKeeps

\* An extension label is outside every dimension.
LEMMA ExtensionKeeps ==
  ASSUME IInv, NEW p \in Proc, NEW family \in Families, NEW label \in family,
         SetExtensionLabel(p, family, label)
  PROVE  IInv'
<1> DEFINE targets == {label}
<1>1. family \subseteq Free /\ targets \subseteq Free
  BY DEF Free
<1>2. \A d \in Dimensions : d \cap (family \cup targets) = {}
  BY <1>1, DisjointAssumption DEF Dimensions, Complexity
<1>3. "completed" \notin targets
  BY <1>1, DisjointAssumption, LifecycleAssumption
<1>4. family \in SUBSET Label /\ targets \in SUBSET Label
  BY <1>1 DEF Label
<1>5. ReplaceDimension(p, family, targets) /\ UNCHANGED issue
  BY DEF SetExtensionLabel
<1>6. writes' \in 0 .. MaxWrites /\ faults' \in 0 .. MaxFaults
  BY ChainsAssumption DEF SetExtensionLabel, Counted, IInv, TypeOK
<1> HIDE DEF targets
<1> QED
  BY <1>2, <1>3, <1>4, <1>5, <1>6, ReplaceKeeps

\* A classification replaces the type and the whole complexity namespace.
LEMMA ClassifyKeeps ==
  ASSUME IInv, NEW p \in Proc, NEW type \in TypeLabels, NEW complexity \in ComplexityLabels,
         Classify(p, type, complexity)
  PROVE  IInv'
<1> DEFINE owned == TypeLabels \cup Complexity
           targets == {type, complexity}
<1>1. owned \in SUBSET Label /\ targets \in SUBSET Label
  BY DEF Label, Complexity
<1>2. type \notin ComplexityLabels \cup LifecycleLabels
      /\ complexity \notin TypeLabels \cup LifecycleLabels
  BY DisjointAssumption DEF Complexity
<1>3. \A d \in Dimensions :
        \/ d \subseteq owned /\ AtMostOne(d, targets)
        \/ d \cap (owned \cup targets) = {}
  <2>1. TypeLabels \subseteq owned /\ AtMostOne(TypeLabels, targets)
    BY <1>2 DEF AtMostOne
  <2>2. ComplexityLabels \subseteq owned /\ AtMostOne(ComplexityLabels, targets)
    BY <1>2 DEF AtMostOne, Complexity
  <2>3. LifecycleLabels \cap (owned \cup targets) = {}
    BY <1>2, DisjointAssumption DEF Complexity
  <2> QED
    BY <2>1, <2>2, <2>3 DEF Dimensions
<1>4. "completed" \notin targets
  BY <1>2, LifecycleAssumption
<1>5. ReplaceDimension(p, owned, targets) /\ UNCHANGED issue
  BY DEF Classify
<1>6. writes' \in 0 .. MaxWrites /\ faults' \in 0 .. MaxFaults
  BY DEF Classify, IInv, TypeOK
<1> HIDE DEF owned, targets
<1> QED
  BY <1>1, <1>3, <1>4, <1>5, <1>6, ReplaceKeeps

\* A route names at most one label of each dimension.
LEMMA JudgeKeeps ==
  ASSUME IInv, NEW p \in Proc, NEW type \in TypeLabels, NEW route \in Routes,
         ApplyAnalysis(p, type, route)
  PROVE  IInv'
<1> DEFINE targets == {type, route.lifecycle} \cup route.complexity
<1>1. /\ route.lifecycle \in LifecycleLabels /\ route.lifecycle # "completed"
      /\ route.complexity \subseteq ComplexityLabels
      /\ \A x, y \in route.complexity : x = y
  BY LifecycleAssumption DEF Routes
<1>2. targets \in SUBSET Label
  BY <1>1 DEF Label, Complexity
<1>3. TypeLabels \cap ComplexityLabels = {} /\ TypeLabels \cap LifecycleLabels = {}
      /\ ComplexityLabels \cap LifecycleLabels = {}
  BY DisjointAssumption DEF Complexity
<1>4. CleanRoute(targets)
  <2>1. AtMostOne(TypeLabels, targets)
    BY <1>1, <1>3 DEF AtMostOne
  <2>2. AtMostOne(ComplexityLabels, targets)
    BY <1>1, <1>3 DEF AtMostOne
  <2>3. AtMostOne(LifecycleLabels, targets)
    BY <1>1, <1>3 DEF AtMostOne
  <2>4. "completed" \notin targets
    BY <1>1, <1>3, LifecycleAssumption
  <2> QED
    BY <2>1, <2>2, <2>3, <2>4 DEF CleanRoute, Dimensions
<1>5. /\ pc' = [pc EXCEPT ![p] = "judged"]
      /\ my' = [my EXCEPT ![p].targets = targets]
      /\ UNCHANGED <<issue, faults>> /\ writes' \in 0 .. MaxWrites
  BY ChainsAssumption DEF ApplyAnalysis, Counted, IInv, TypeOK
<1> HIDE DEF targets
<1>6. [my[p] EXCEPT !.targets = targets] \in Request
  BY <1>2 DEF IInv, TypeOK, Request
<1>7. TypeOK'
  BY <1>5, <1>6 DEF IInv, TypeOK, issue, Points
<1>8. \A q \in Proc : /\ pc'[q] = IF q = p THEN "judged" ELSE pc[q]
                      /\ q # p => my'[q] = my[q]
  BY <1>5 DEF IInv, TypeOK
<1>9. my'[p].targets = targets
  BY <1>5 DEF IInv, TypeOK, Request
<1>10. CleanRequests'
  BY <1>4, <1>8, <1>9 DEF IInv, CleanRequests, CleanWrite, CleanDemotion, CleanRoute, AtMostOne
<1> QED
  BY <1>5, <1>7, <1>10 DEF IInv, OnePerDimension, AtMostOne, issue

\* The loop replaces all three dimensions by what the route says.
LEMMA AnalysisKeeps ==
  ASSUME IInv, NEW p \in Proc, SetLabels(p)
  PROVE  IInv'
<1> DEFINE owned == TypeLabels \cup ComplexityLabels \cup LifecycleLabels
           targets == my[p].targets
<1>1. CleanRoute(targets) /\ targets \in SUBSET Label
  BY DEF SetLabels, IInv, TypeOK, CleanRequests, Request
<1>2. owned \in SUBSET Label
  BY DEF Label, Complexity
<1>3. \A d \in Dimensions : d \subseteq owned /\ AtMostOne(d, targets)
  BY <1>1 DEF CleanRoute, Dimensions
<1>4. Read(p, "loop", owned, targets) /\ UNCHANGED <<issue, writes, faults>>
  BY DEF SetLabels
<1>5. "completed" \notin targets
  BY <1>1 DEF CleanRoute
<1> HIDE DEF owned, targets
<1>6. /\ pc' \in [Proc -> Points]
      /\ my' \in [Proc -> Request]
      /\ OnePerDimension'
      /\ CleanRequests'
  BY <1>1, <1>2, <1>3, <1>4, <1>5, ReadIsClean DEF issue
<1>7. TypeOK'
  BY <1>4, <1>6 DEF IInv, TypeOK, issue
<1> QED
  BY <1>6, <1>7 DEF IInv

\* The triage labels are outside every dimension.
LEMMA TriageKeeps ==
  ASSUME IInv, NEW p \in Proc, NEW category \in Categories, NEW state \in States,
         SetTriageLabels(p, category, state)
  PROVE  IInv'
<1> DEFINE targets == {category, state}
<1>1. Triage \subseteq Free /\ targets \subseteq Free
  BY DEF Free, Triage
<1>2. Triage \in SUBSET Label /\ targets \in SUBSET Label
  BY <1>1 DEF Label
<1>3. \A d \in Dimensions : d \cap (Triage \cup targets) = {}
  BY <1>1, DisjointAssumption DEF Dimensions, Complexity
<1>4. "completed" \notin targets
  BY <1>1, DisjointAssumption, LifecycleAssumption
<1>5. Read(p, "loop", Triage, targets) /\ UNCHANGED issue
  BY DEF SetTriageLabels
<1>6. writes' \in 0 .. MaxWrites /\ faults' \in 0 .. MaxFaults
  BY ChainsAssumption DEF SetTriageLabels, Counted, IInv, TypeOK
<1> HIDE DEF targets
<1>7. /\ pc' \in [Proc -> Points]
      /\ my' \in [Proc -> Request]
      /\ OnePerDimension'
      /\ CleanRequests'
  BY <1>2, <1>3, <1>4, <1>5, ReadIsClean DEF issue
<1>8. TypeOK'
  BY <1>5, <1>6, <1>7 DEF IInv, TypeOK, issue
<1> QED
  BY <1>7, <1>8 DEF IInv

\* The deployment hook writes the other terminal label.
LEMMA DeployedKeeps ==
  ASSUME IInv, NEW p \in Proc, MarkDeployed(p)
  PROVE  IInv'
<1> DEFINE targets == {"deployed"}
<1>1. LifecycleLabels \in SUBSET Label /\ targets \in SUBSET Label /\ targets \subseteq LifecycleLabels
  BY LifecycleAssumption DEF Label
<1>2. \A d \in Dimensions :
        \/ d \subseteq LifecycleLabels /\ AtMostOne(d, targets)
        \/ d \cap (LifecycleLabels \cup targets) = {}
  BY <1>1, DisjointAssumption DEF Dimensions, AtMostOne, Complexity
<1>3. "completed" \notin targets
  OBVIOUS
<1>4. Read(p, "hook", LifecycleLabels, targets) /\ UNCHANGED labels
  BY DEF MarkDeployed
<1> HIDE DEF targets
<1>5. /\ pc' \in [Proc -> Points]
      /\ my' \in [Proc -> Request]
      /\ OnePerDimension'
      /\ CleanRequests'
  BY <1>1, <1>2, <1>3, <1>4, ReadIsClean
<1>6. TypeOK'
  BY <1>5 DEF IInv, TypeOK, MarkDeployed
<1> QED
  BY <1>5, <1>6 DEF IInv

\* Every step keeps the invariant.
LEMMA NextKeeps == IInv /\ [Next]_vars => IInv'
<1> SUFFICES ASSUME IInv, [Next]_vars PROVE IInv'
  OBVIOUS
<1> USE ChainsAssumption
<1>1. CASE UNCHANGED vars
  BY <1>1 DEF vars, issue, IInv, TypeOK, OnePerDimension, AtMostOne, CleanRequests, CleanWrite, CleanDemotion,
         CleanRoute
<1>2. CASE Merge
  BY <1>2 DEF Merge, IInv, TypeOK, OnePerDimension, AtMostOne, CleanRequests, CleanWrite, CleanDemotion,
         CleanRoute
<1>3. ASSUME NEW label \in Free, EditLabel(label) PROVE IInv'
  <2>1. labels' \subseteq Label
    BY <1>3 DEF EditLabel, IInv, TypeOK, Label
  <2>2. \A d \in Dimensions : label \notin d
    BY DisjointAssumption DEF Dimensions, Complexity
  <2>3. OnePerDimension'
    BY <1>3, <2>2 DEF EditLabel, IInv, OnePerDimension, AtMostOne, Dimensions
  <2>4. TypeOK'
    BY <1>3, <2>1 DEF EditLabel, Counted, IInv, TypeOK
  <2> QED
    BY <1>3, <2>3, <2>4 DEF EditLabel, IInv, AtMostOne, CleanRequests, CleanWrite, CleanDemotion,
         CleanRoute
<1>4. ASSUME NEW state \in BOOLEAN, SetIssueState(state) PROVE IInv'
  BY <1>4 DEF SetIssueState, Counted, IInv, TypeOK, OnePerDimension, AtMostOne, CleanRequests,
              CleanWrite, CleanDemotion, CleanRoute
<1>5. ASSUME NEW p \in Proc, Edit(p) PROVE IInv'
  <2>1. ASSUME NEW lifecycle \in LifecycleLabels, WriteLifecycle(p, lifecycle) PROVE IInv'
    BY <2>1, LifecycleKeeps DEF WriteLifecycle, Counted, IInv, TypeOK
  <2>2. CASE SeeOpen(p)
    <3>1. \A q \in Proc : pc'[q] \in {"judged", "put"} => pc'[q] = pc[q]
      BY <2>2 DEF SeeOpen, IInv, TypeOK
    <3>2. TypeOK'
      BY <2>2 DEF SeeOpen, Counted, IInv, TypeOK, issue, Points
    <3> QED
      BY <2>2, <3>1, <3>2 DEF SeeOpen, IInv, OnePerDimension, AtMostOne, issue, CleanRequests,
                              CleanWrite, CleanDemotion, CleanRoute
  <2> QED
    BY <1>5, <2>1, <2>2, ExtensionKeeps, JudgeKeeps, TriageKeeps DEF Edit
<1>6. ASSUME NEW p \in Proc, Advance(p) PROVE IInv'
  <2>1. CASE ClassifyNothing(p)
    <3>1. End(p) /\ UNCHANGED <<issue, writes, faults>>
      BY <2>1 DEF ClassifyNothing
    <3>2. TypeOK'
      BY <3>1, EndIsClean DEF IInv, TypeOK, issue
    <3> QED
      BY <3>1, <3>2, EndIsClean DEF IInv, OnePerDimension, AtMostOne, issue
  <2>2. CASE Put(p)
    <3>1. pc[p] = "put" /\ labels' = Final(p) /\ End(p)
      BY <2>2 DEF Put
    <3>2. OnePerDimension'
      BY <3>1, FinalIsClean DEF OnePerDimension, AtMostOne, Dimensions
    <3>3. TypeOK'
      BY <2>2, <3>1, FinalIsClean, EndIsClean DEF Put, IInv, TypeOK
    <3> QED
      BY <3>1, <3>2, <3>3, EndIsClean DEF IInv
  <2> QED
    BY <1>6, <2>1, <2>2, ClassifyKeeps, AnalysisKeeps DEF Advance
<1>7. ASSUME NEW p \in Proc, MarkCompleted(p) PROVE IInv'
  BY <1>7, LifecycleKeeps, LifecycleAssumption DEF MarkCompleted, IInv, TypeOK
<1>8. ASSUME NEW p \in Proc, PutAgain(p) PROVE IInv'
  <2>1. pc[p] = "put" /\ labels' = Final(p)
    BY <1>8 DEF PutAgain
  <2>2. OnePerDimension'
    BY <2>1, FinalIsClean DEF OnePerDimension, AtMostOne, Dimensions
  <2>3. TypeOK'
    BY <1>8, <2>1, FinalIsClean DEF PutAgain, IInv, TypeOK
  <2> QED
    BY <1>8, <2>2, <2>3 DEF PutAgain, IInv, AtMostOne, CleanRequests, CleanWrite, CleanDemotion,
         CleanRoute
<1>9. ASSUME NEW p \in Proc, Fail(p) PROVE IInv'
  <2>1. End(p) /\ UNCHANGED <<issue, writes>> /\ faults' \in 0 .. MaxFaults
    BY <1>9 DEF Fail, IInv, TypeOK
  <2>2. TypeOK'
    BY <2>1, EndIsClean DEF IInv, TypeOK, issue
  <2> QED
    BY <2>1, <2>2, EndIsClean DEF IInv, OnePerDimension, AtMostOne, issue
<1> QED
  BY <1>1, <1>2, <1>3, <1>5, <1>6, <1>7, <1>8, <1>9, <1>4, DeployedKeeps DEF Next

\* In every state of the label protocol the inductive invariant holds.
THEOREM LabelsInductive == Spec => []IInv
<1> QED
  BY InitHolds, NextKeeps, PTL DEF Spec

\* The type invariant of the labels and of the pending requests.
THEOREM LabelsTypes == Spec => []TypeOK
<1>1. IInv => TypeOK
  BY DEF IInv
<1> QED
  BY <1>1, LabelsInductive, PTL

\* However many writers of however many kinds overlap, the Issue carries at most one
\* label of each managed dimension.
THEOREM OneLabelPerDimension == Spec => []OnePerDimension
<1>1. IInv => OnePerDimension
  BY DEF IInv
<1> QED
  BY <1>1, LabelsInductive, PTL

\* Only a write computed before the deployment label was attached can put completed
\* over it: with the broker's guard no later reader can.
THEOREM DemotionOnlyByRace == Spec => DemotionNeedsRace
<1>1. IInv /\ [Next]_vars =>
        [labels' # labels /\ "deployed" \in labels \ labels' /\ "completed" \in labels' =>
           \E p \in Proc : pc[p] = "put" /\ "deployed" \notin my[p].read]_vars
  <2> SUFFICES ASSUME IInv, Next, labels' # labels, "deployed" \in labels \ labels',
                      "completed" \in labels'
               PROVE  \E p \in Proc : pc[p] = "put" /\ "deployed" \notin my[p].read
    BY DEF vars, issue
  <2>1. ASSUME NEW label \in Free, EditLabel(label) PROVE FALSE
    BY <2>1, DisjointAssumption, LifecycleAssumption DEF EditLabel
  <2>2. PICK p \in Proc : pc[p] = "put" /\ labels' = Final(p)
    BY <2>1 DEF Next, Merge, Edit, Advance, WriteLifecycle, SetExtensionLabel, SeeOpen,
                ApplyAnalysis, SetTriageLabels, Classify, ClassifyNothing, MarkDeployed,
                MarkCompleted, Put, PutAgain, Fail, SetLabels, SetIssueState, issue
  <2>3. my[p] \in Request /\ CleanWrite(my[p]) /\ CleanDemotion(my[p])
    BY <2>2 DEF IInv, TypeOK, CleanRequests
  <2>4. CASE "completed" \in my[p].targets
    BY <2>2, <2>3, <2>4 DEF CleanDemotion
  <2>5. CASE "completed" \in my[p].read
    <3>1. \A x, y \in LifecycleLabels \cap my[p].read : x = y
      BY <2>3 DEF CleanWrite, Dimensions, AtMostOne
    <3> QED
      BY <2>2, <2>5, <3>1, LifecycleAssumption
  <2> QED
    BY <2>2, <2>4, <2>5 DEF Final
<1> QED
  BY <1>1, LabelsInductive, PTL DEF Spec, DemotionNeedsRace
===============================================================================
