------------------------- MODULE TicketExecution_proofs -------------------------
(***************************************************************************)
(* The safety of ticket preparations, for any number of tickets, sessions, *)
(* processes and plans.                                                    *)
(***************************************************************************)
EXTENDS TicketExecution, TLAPS

\* What a preparation has already written.
Before(step) ==
  CASE step = "plan-path" -> {"dir"}
    [] step = "identity" -> {"dir", "plan-path"}
    [] step \in {"derived", "receipt"} -> Files
    [] OTHER -> {}

\* The heads a preparation needs stay on the branch until it reads HEAD.
NeedsKept ==
  \A p \in Proc :
    pc[p] = "judge" /\ ~my[p].rewritten => my[p].needs \subseteq branch

\* What a preparation has written stays there, unless its slug is torn.
FilesKept ==
  \A p \in Proc :
    /\ pc[p] # "idle" /\ my[p].slug \notin torn => Before(pc[p]) \subseteq scratch[my[p].slug]
    /\ pc[p] = "receipt" => my[p].slug \in derived

\* Records are made from receipts, and receipts are never replaced.
RecordKept == \A t \in Ticket : record[t] # None => receipt[t] = record[t].start

\* The next-state relation, one operator per action.
LEMMA NextCases ==
  ASSUME Next
  PROVE  \/ \E p \in Proc, t \in Ticket, resume \in BOOLEAN : Check(p, t, resume)
         \/ \E p \in Proc : Judge(p)
         \/ \E p \in Proc : Register(p)
         \/ \E p \in Proc : Derive(p)
         \/ \E p \in Proc : Save(p)
         \/ \E p \in Proc : Cut(p)
         \/ CommitWork
         \/ \E c \in Commit : Reset(c)
         \/ \E t \in Ticket : Complete(t)
         \/ \E v \in Plan : Replan(v)
         \/ \E to \in Scope, recorded \in SUBSET Scope : Amend(to, recorded)
         \/ \E s \in Session : TakeOver(s)
  BY DEF Next
-----------------------------------------------------------------------------
(* Types.                                                                  *)

\* What Go does to the two tables.
LEMMA Went ==
  ASSUME TypeOK, NEW p \in Proc, NEW step, Go(p, step)
  PROVE  /\ \A q \in Proc : pc'[q] = IF q = p THEN step ELSE pc[q]
         /\ \A q \in Proc : my'[q] = IF q = p /\ step = "idle" THEN Idle ELSE my[q]
  BY DEF Go, TypeOK

LEMMA GoTyped ==
  ASSUME TypeOK, NEW p \in Proc, pc[p] \notin {"idle", "judge"},
         NEW step \in Files \cup {"idle", "derived", "receipt"}, Go(p, step)
  PROVE  /\ pc' \in [Proc -> Files \cup {"idle", "judge", "derived", "receipt"}]
         /\ my' \in [Proc -> Preparation]
         /\ \A q \in Proc : pc'[q] \notin {"idle", "judge"} => my'[q].base \in Commit
         /\ \A q \in Proc : pc'[q] # "idle" => my'[q].ticket \in Ticket /\ my'[q].slug \in Slug
<1>1. Idle \in Preparation
  BY BoundAssumption DEF Idle, Preparation, Scope
<1> QED  BY <1>1, Went DEF Go, TypeOK, Files

LEMMA AfterTyped ==
  ASSUME NEW step \in Files \cup {"derived", "receipt"}, NEW resume
  PROVE  After(step, resume) \in Files \cup {"idle", "derived", "receipt"}
  BY DEF After, Files

LEMMA CheckTyped ==
  ASSUME TypeOK, NEW p \in Proc, NEW t \in Ticket, NEW resume \in BOOLEAN,
         Check(p, t, resume)
  PROVE  TypeOK'
<1> DEFINE m == [ticket |-> t, resume |-> resume, slug |-> <<owner, plan>>,
              scope |-> scope, allowed |-> {s \in Scope : ScopeMatches(s)}, base |-> 0,
              needs |-> {record[d].head : d \in Deps[t]}, rewritten |-> FALSE]
<1>1. \A d \in Deps[t] : record[d] \in Record
  BY DepsAssumption DEF Check, Completed, TypeOK
<1>2. m.needs \subseteq Commit
  BY <1>1 DEF Record
<1>3. m.allowed \subseteq Scope
  OBVIOUS
<1>4. m \in Preparation
  BY <1>2, <1>3 DEF Preparation, TypeOK, Slug
<1>5. pc' = [pc EXCEPT ![p] = "judge"] /\ my' = [my EXCEPT ![p] = m]
  BY DEF Check
<1>6. m.ticket \in Ticket /\ m.slug \in Slug
  BY DEF TypeOK, Slug
<1> HIDE DEF m
<1>7. my' \in [Proc -> Preparation] /\ my'[p] = m /\ \A q \in Proc \ {p} : my'[q] = my[q]
  BY <1>4, <1>5 DEF TypeOK
<1>8. /\ pc' \in [Proc -> Files \cup {"idle", "judge", "derived", "receipt"}]
      /\ pc'[p] = "judge" /\ \A q \in Proc \ {p} : pc'[q] = pc[q]
  BY <1>5 DEF TypeOK
<1> QED  BY <1>6, <1>7, <1>8, BoundAssumption DEF Check, TypeOK, git, documents, cache

LEMMA JudgeTyped ==
  ASSUME TypeOK, NEW p \in Proc, Judge(p)
  PROVE  TypeOK'
<1>1. my[p] \in Preparation /\ pc[p] = "judge" /\ my[p].ticket \in Ticket /\ my[p].slug \in Slug
  BY DEF Judge, TypeOK
<1>2. CASE pc' = [pc EXCEPT ![p] = "dir"]
  <2>1. PICK base \in Commit : my' = [my EXCEPT ![p].base = base]
    <3>1. head \in Commit
      BY BoundAssumption DEF TypeOK, Commit
    <3>2. pc'[p] = "dir"
      BY <1>2 DEF TypeOK
    <3>3. ~Go(p, "idle")
      BY <3>2 DEF Go, TypeOK
    <3>4. my[p].resume => receipt[my[p].ticket].base \in Commit
      BY <1>1, <3>3 DEF Judge, Resumable, Registers, Receipt
    <3> QED  BY <3>1, <3>3, <3>4 DEF Judge
  <2>2. [my[p] EXCEPT !.base = base] \in Preparation
    BY <1>1 DEF Preparation
  <2>3. /\ my' \in [Proc -> Preparation] /\ my'[p] = [my[p] EXCEPT !.base = base]
        /\ \A q \in Proc \ {p} : my'[q] = my[q]
    BY <2>1, <2>2 DEF TypeOK
  <2>4. my'[p].base = base /\ my'[p].ticket = my[p].ticket /\ my'[p].slug = my[p].slug
    BY <1>1, <2>3 DEF Preparation
  <2>5. /\ pc' \in [Proc -> Files \cup {"idle", "judge", "derived", "receipt"}]
        /\ pc'[p] = "dir" /\ \A q \in Proc \ {p} : pc'[q] = pc[q]
    BY <1>2 DEF TypeOK, Files
  <2> QED  BY <1>1, <2>3, <2>4, <2>5 DEF Judge, TypeOK, git, documents, cache
<1>3. CASE Go(p, "idle")
  <2>1. Idle \in Preparation
    BY BoundAssumption DEF Idle, Preparation, Scope
  <2> QED  BY <1>3, <2>1, Went DEF Judge, Go, TypeOK, git, documents, cache
<1> QED  BY <1>2, <1>3 DEF Judge

LEMMA RegisterTyped ==
  ASSUME TypeOK, NEW p \in Proc, Register(p)
  PROVE  TypeOK'
<1>1. Go(p, After(pc[p], my[p].resume)) /\ pc[p] \in Files
  BY DEF Register
<1>2. pc[p] \notin {"idle", "judge"}
  BY <1>1 DEF Files
<1>3. scratch' \in [Slug -> SUBSET Files]
  BY <1>1 DEF Register, TypeOK
<1>4. After(pc[p], my[p].resume) \in Files \cup {"idle", "derived", "receipt"}
  BY <1>1, AfterTyped
<1> QED  BY <1>1, <1>2, <1>3, <1>4, GoTyped DEF Register, TypeOK, git, documents

LEMMA DeriveTyped ==
  ASSUME TypeOK, NEW p \in Proc, Derive(p)
  PROVE  TypeOK'
<1>1. Go(p, After("derived", my[p].resume)) /\ pc[p] = "derived"
  BY DEF Derive
<1>2. derived' \subseteq Slug
  BY <1>1 DEF Derive, TypeOK
<1>3. After("derived", my[p].resume) \in Files \cup {"idle", "derived", "receipt"}
  BY AfterTyped
<1> QED  BY <1>1, <1>2, <1>3, GoTyped DEF Derive, TypeOK, git, documents

\* A preparation that saves has all that a receipt needs.
LEMMA ReceiptTyped ==
  ASSUME TypeOK, NEW p \in Proc, pc[p] = "receipt"
  PROVE  ReceiptOf(my[p]) \in Receipt /\ my[p].ticket \in Ticket
<1>1. my[p] \in Preparation /\ my[p].base \in Commit /\ my[p].slug \in Slug
      /\ my[p].ticket \in Ticket
  BY DEF TypeOK
<1> QED  BY <1>1 DEF ReceiptOf, Receipt, Preparation, Slug

LEMMA SaveTyped ==
  ASSUME TypeOK, NEW p \in Proc, Save(p)
  PROVE  TypeOK'
<1>1. PICK step \in {"idle"} : Go(p, step)
  BY DEF Save, After
<1>2. receipt' \in [Ticket -> Receipt \cup {None, Torn}]
  BY ReceiptTyped DEF Save, TypeOK
<1> QED  BY <1>1, <1>2, GoTyped DEF Save, TypeOK, git, documents

LEMMA CutTyped ==
  ASSUME TypeOK, NEW p \in Proc, Cut(p)
  PROVE  TypeOK'
<1>1. Idle \in Preparation
  BY BoundAssumption DEF Idle, Preparation, Scope
<1>2. /\ pc' \in [Proc -> Files \cup {"idle", "judge", "derived", "receipt"}]
      /\ my' \in [Proc -> Preparation]
      /\ \A q \in Proc : pc'[q] \notin {"idle", "judge"} => my'[q].base \in Commit
      /\ \A q \in Proc : pc'[q] # "idle" => my'[q].ticket \in Ticket /\ my'[q].slug \in Slug
  BY <1>1, Went DEF Cut, Go, TypeOK
<1>3. my[p].slug \in Slug
  BY DEF Cut, TypeOK
<1>4. /\ receipt' \in [Ticket -> Receipt \cup {None, Torn}]
      /\ scratch' \in [Slug -> SUBSET Files] /\ derived' \subseteq Slug /\ torn' \subseteq Slug
  BY <1>3 DEF Cut, TypeOK, cache
<1>5. faults' \in 0 .. MaxFaults
  BY BoundAssumption DEF Cut, TypeOK
<1> QED  BY <1>2, <1>4, <1>5 DEF Cut, TypeOK, git, documents

LEMMA ResetTyped ==
  ASSUME TypeOK, NEW c \in Commit, Reset(c)
  PROVE  TypeOK'
<1>1. c \in 1 .. head /\ c <= made
  BY BoundAssumption DEF Reset, TypeOK, Commit
<1>2. head' \in branch' /\ branch' \subseteq 1 .. head' /\ head' <= made'
  BY <1>1, BoundAssumption DEF Reset, TypeOK, Commit
<1>3. \A q \in Proc : [my[q] EXCEPT !.rewritten = @ \/ pc[q] = "judge"] \in Preparation
  BY DEF TypeOK, Preparation
<1>4. /\ my' \in [Proc -> Preparation]
      /\ \A q \in Proc : /\ my'[q].base = my[q].base /\ my'[q].ticket = my[q].ticket
                         /\ my'[q].slug = my[q].slug
  BY <1>3 DEF Reset, TypeOK, Preparation
<1>5. events' \in 0 .. MaxEvents
  BY BoundAssumption DEF Reset, Event, TypeOK
<1> QED  BY <1>2, <1>4, <1>5 DEF Reset, TypeOK, documents, cache

LEMMA CompleteTyped ==
  ASSUME TypeOK, NEW t \in Ticket, Complete(t)
  PROVE  TypeOK'
<1>1. head \in Commit
  BY BoundAssumption DEF TypeOK, Commit
<1>2. [start |-> receipt[t], head |-> head, plan |-> plan] \in Record
  BY <1>1 DEF Complete, Record, TypeOK
<1>3. record' \in [Ticket -> Record \cup {None}] /\ done' \subseteq Ticket
  BY <1>2 DEF Complete, TypeOK
<1> QED  BY <1>3 DEF Complete, TypeOK, git, cache

LEMMA CommitTyped ==
  ASSUME TypeOK, CommitWork
  PROVE  TypeOK'
<1>1. /\ made' \in Commit /\ head' \in branch' /\ branch' \subseteq 1 .. head'
      /\ head' <= made'
  BY BoundAssumption DEF CommitWork, TypeOK, Commit
<1> QED  BY <1>1 DEF CommitWork, TypeOK, documents, cache

LEMMA PeopleTyped ==
  ASSUME TypeOK
  PROVE  /\ \A v \in Plan : Replan(v) => TypeOK'
         /\ \A to \in Scope, recorded \in SUBSET Scope : Amend(to, recorded) => TypeOK'
         /\ \A s \in Session : TakeOver(s) => TypeOK'
<1>1. Event => events' \in 0 .. MaxEvents
  BY BoundAssumption DEF Event, TypeOK
<1>2. ASSUME NEW v \in Plan, Replan(v) PROVE TypeOK'
  BY <1>1, <1>2 DEF Replan, TypeOK, git, cache
<1>3. ASSUME NEW to \in Scope, NEW recorded \in SUBSET Scope, Amend(to, recorded)
      PROVE  TypeOK'
  BY <1>1, <1>3 DEF Amend, TypeOK, git, cache
<1>4. ASSUME NEW s \in Session, TakeOver(s) PROVE TypeOK'
  BY <1>1, <1>4 DEF TakeOver, TypeOK, git, documents, cache
<1> QED  BY <1>2, <1>3, <1>4

LEMMA InitTyped == Init => TypeOK
  BY BoundAssumption
  DEF Init, TypeOK, Commit, Plan, Scope, Idle, Preparation, Files

LEMMA TypeStep == TypeOK /\ [Next]_vars => TypeOK'
<1> SUFFICES ASSUME TypeOK, [Next]_vars PROVE TypeOK'
  OBVIOUS
<1>1. CASE UNCHANGED vars
  BY <1>1 DEF vars, git, documents, cache, TypeOK
<1>2. CASE Next
  BY <1>2, NextCases, CheckTyped, JudgeTyped, RegisterTyped, DeriveTyped, SaveTyped,
     CutTyped, ResetTyped, CompleteTyped, CommitTyped, PeopleTyped
<1> QED  BY <1>1, <1>2

\* Every variable keeps its type.
THEOREM Typing == Spec => []TypeOK
  BY InitTyped, TypeStep, PTL DEF Spec

-----------------------------------------------------------------------------
(* What a ticket is started from.                                          *)

Blockers == NeedsKept /\ StartAfterBlockers

LEMMA BlockersStep ==
  ASSUME TypeOK, Blockers, Next
  PROVE  Blockers'
<1> USE DEF Blockers, NeedsKept, StartAfterBlockers
<1>0. \A q \in Proc : pc[q] \in Files \cup {"idle", "judge", "derived", "receipt"}
  BY DEF TypeOK
<1>1. ASSUME NEW p \in Proc, NEW t \in Ticket, NEW resume \in BOOLEAN, Check(p, t, resume)
      PROVE  Blockers'
  <2>1. {record[d].head : d \in Deps[t]} \subseteq branch
    BY <1>1 DEF Check, Completed
  <2>2. /\ pc'[p] = "judge" /\ my'[p].needs = {record[d].head : d \in Deps[t]}
        /\ \A q \in Proc \ {p} : pc'[q] = pc[q] /\ my'[q] = my[q]
    BY <1>1 DEF Check, TypeOK
  <2> QED  BY <1>1, <2>1, <2>2 DEF Check, git
<1>2. ASSUME NEW p \in Proc, Judge(p) PROVE Blockers'
  <2>1. \A h \in branch : h <= head
    BY DEF TypeOK
  <2>2. CASE Go(p, "idle")
    BY <1>2, <2>2, Went DEF Judge, git
  <2>3. CASE ~Go(p, "idle")
    <3>1. /\ pc'[p] = "dir" /\ my'[p].needs = my[p].needs
          /\ my'[p].resume = my[p].resume /\ my'[p].rewritten = my[p].rewritten
          /\ ~my[p].resume => my'[p].base = head
      BY <1>2, <2>3 DEF Judge, TypeOK, Preparation
    <3>2. \A q \in Proc \ {p} : pc'[q] = pc[q] /\ my'[q] = my[q]
      BY <1>2, <2>3 DEF Judge, TypeOK
    <3> QED  BY <1>2, <2>1, <3>1, <3>2 DEF Judge, git
  <2> QED  BY <2>2, <2>3
<1>3. ASSUME NEW p \in Proc, NEW step \in Files \cup {"idle", "derived", "receipt"},
             pc[p] \notin {"idle", "judge"}, Go(p, step), branch' = branch
      PROVE  Blockers'
  <2>1. step # "judge"
    BY DEF Files
  <2> QED  BY <1>3, <2>1, Went
<1>4. ASSUME NEW p \in Proc, Register(p) \/ Derive(p) \/ Save(p) PROVE Blockers'
  <2>1. pc[p] \in Files \cup {"derived", "receipt"} /\ branch' = branch
    BY <1>4 DEF Register, Derive, Save, git
  <2>2. \/ Go(p, "idle") \/ \E r \in BOOLEAN : Go(p, After(pc[p], r))
    BY <1>4 DEF Register, Derive, Save, TypeOK, Preparation
  <2>3. PICK step \in Files \cup {"idle", "derived", "receipt"} : Go(p, step)
    BY <2>1, <2>2, AfterTyped
  <2>4. pc[p] \notin {"idle", "judge"}
    BY <2>1 DEF Files
  <2> QED  BY <1>3, <2>1, <2>3, <2>4
<1>5. ASSUME NEW p \in Proc, Cut(p) PROVE Blockers'
  BY <1>5, Went DEF Cut, git
<1>6. CASE CommitWork
  BY <1>6 DEF CommitWork
<1>7. ASSUME NEW c \in Commit, Reset(c) PROVE Blockers'
  <2>1. \A q \in Proc :
          /\ my'[q].needs = my[q].needs /\ my'[q].resume = my[q].resume
          /\ my'[q].base = my[q].base
          /\ my'[q].rewritten = (my[q].rewritten \/ pc[q] = "judge")
    BY <1>7 DEF Reset, TypeOK, Preparation
  <2> QED  BY <1>7, <2>1 DEF Reset
<1>8. CASE \/ \E t \in Ticket : Complete(t)
           \/ \E v \in Plan : Replan(v)
           \/ \E to \in Scope, recorded \in SUBSET Scope : Amend(to, recorded)
           \/ \E s \in Session : TakeOver(s)
  BY <1>8 DEF Complete, Replan, Amend, TakeOver, git
<1> QED  BY NextCases, <1>1, <1>2, <1>4, <1>5, <1>6, <1>7, <1>8

\* A ticket is started from a commit that has its blockers' work in it.
THEOREM Started == Spec => []StartAfterBlockers
<1>1. Init => Blockers
  BY DEF Init, Blockers, NeedsKept, StartAfterBlockers
<1>2. TypeOK /\ Blockers /\ [Next]_vars => Blockers'
  <2>1. TypeOK /\ Blockers /\ UNCHANGED vars => Blockers'
    BY DEF vars, git, Blockers, NeedsKept, StartAfterBlockers
  <2> QED  BY <2>1, BlockersStep
<1>3. Blockers => StartAfterBlockers
  BY DEF Blockers
<1> QED  BY <1>1, <1>2, <1>3, Typing, PTL DEF Spec

-----------------------------------------------------------------------------
(* What is there when a receipt is.                                        *)

Cached == FilesKept /\ ReceiptResumable

LEMMA CachedStep ==
  ASSUME TypeOK, Cached, Next
  PROVE  Cached'
<1> USE DEF Cached, FilesKept, ReceiptResumable
<1>1. ASSUME NEW p \in Proc, NEW t \in Ticket, NEW resume \in BOOLEAN, Check(p, t, resume)
      PROVE  Cached'
  BY <1>1 DEF Check, TypeOK, cache, Before
<1>2. ASSUME NEW p \in Proc, Judge(p) PROVE Cached'
  <2>1. CASE Go(p, "idle")
    BY <1>2, <2>1, Went DEF Judge, cache
  <2>2. CASE ~Go(p, "idle")
    <3>1. pc'[p] = "dir" /\ \A q \in Proc \ {p} : pc'[q] = pc[q] /\ my'[q] = my[q]
      BY <1>2, <2>2 DEF Judge, TypeOK
    <3> QED  BY <1>2, <3>1 DEF Judge, cache, Before
  <2> QED  BY <2>1, <2>2
<1>3. ASSUME NEW p \in Proc, Register(p) PROVE Cached'
  <2>1. my[p].slug \in Slug /\ pc[p] \in Files /\ Go(p, After(pc[p], my[p].resume))
    BY <1>3 DEF Register, TypeOK, Files
  <2>2. /\ \A slug \in Slug : scratch[slug] \subseteq scratch'[slug] /\ scratch'[slug] \subseteq Files
        /\ pc[p] \in scratch'[my[p].slug]
    BY <1>3, <2>1 DEF Register, TypeOK
  <2>3. After(pc[p], my[p].resume) \in {"plan-path", "identity", "derived"}
        /\ Before(After(pc[p], my[p].resume)) = Before(pc[p]) \cup {pc[p]}
    BY <2>1 DEF After, Before, Files
  <2>4. \A q \in Proc : pc[q] # "idle" => my[q].slug \in Slug
    BY DEF TypeOK
  <2>5. \A t \in Ticket : receipt[t] \in Receipt => <<receipt[t].owner, receipt[t].plan>> \in Slug
    BY DEF Receipt, Slug
  <2>6. FilesKept'
    BY <1>3, <2>1, <2>2, <2>3, <2>4, Went DEF Register, Files
  <2>7. ReceiptResumable'
    BY <1>3, <2>2, <2>5 DEF Register
  <2> QED  BY <2>6, <2>7
<1>4. ASSUME NEW p \in Proc, Derive(p) PROVE Cached'
  <2>1. Go(p, After("derived", my[p].resume)) /\ pc[p] = "derived"
    BY <1>4 DEF Derive
  <2>2. /\ After("derived", my[p].resume) \in {"idle", "receipt"}
        /\ Before("receipt") = Before("derived")
    BY DEF After, Before
  <2> QED  BY <1>4, <2>1, <2>2, Went DEF Derive
<1>5. ASSUME NEW p \in Proc, Save(p) PROVE Cached'
  <2>1. Go(p, "idle") /\ pc[p] = "receipt"
    BY <1>5 DEF Save, After
  <2>2. FilesKept'
    BY <1>5, <2>1, Went DEF Save
  <2>3. ReceiptOf(my[p]) \in Receipt /\ my[p].slug \in Slug /\ my[p].ticket \in Ticket
    BY <2>1, ReceiptTyped DEF TypeOK
  <2>4. <<ReceiptOf(my[p]).owner, ReceiptOf(my[p]).plan>> = my[p].slug
    BY <2>3 DEF ReceiptOf, Slug
  <2>5. my[p].slug \in derived /\ (my[p].slug \notin torn => scratch[my[p].slug] = Files)
    BY <2>1, <2>3 DEF Before, TypeOK
  <2>6. \A t \in Ticket : receipt'[t] = receipt[t] \/ receipt'[t] = ReceiptOf(my[p])
    BY <1>5, <2>3 DEF Save, TypeOK
  <2>7. ReceiptResumable'
    BY <1>5, <2>4, <2>5, <2>6 DEF Save
  <2> QED  BY <2>2, <2>7
<1>6. ASSUME NEW p \in Proc, Cut(p) PROVE Cached'
  <2>1. my[p].slug \in Slug /\ Go(p, "idle")
    BY <1>6 DEF Cut, TypeOK
  <2>2. \A slug \in Slug : slug \notin torn' => slug \notin torn /\ scratch'[slug] = scratch[slug]
    <3>1. CASE scratch' = scratch /\ torn' = torn
      BY <3>1
    <3>2. CASE /\ scratch' = [scratch EXCEPT ![my[p].slug] = @ \ {pc[p]}]
               /\ torn' = IF pc[p] \in scratch[my[p].slug] THEN torn \cup {my[p].slug} ELSE torn
      <4>1. pc[p] \notin scratch[my[p].slug] =>
              scratch[my[p].slug] \ {pc[p]} = scratch[my[p].slug]
        OBVIOUS
      <4> QED  BY <2>1, <3>2, <4>1 DEF TypeOK
    <3> QED  BY <1>6, <3>1, <3>2 DEF Cut, cache
  <2>3. derived \subseteq derived'
    BY <1>6 DEF Cut, cache
  <2>4. \A t \in Ticket : receipt'[t] \in Receipt => receipt'[t] = receipt[t]
    BY <1>6, NoneAssumption DEF Cut, TypeOK, cache
  <2>5. FilesKept'
    <3> SUFFICES ASSUME NEW q \in Proc, pc'[q] # "idle"
                 PROVE  /\ my'[q].slug \notin torn' => Before(pc'[q]) \subseteq scratch'[my'[q].slug]
                        /\ pc'[q] = "receipt" => my'[q].slug \in derived'
      OBVIOUS
    <3>1. q # p /\ pc'[q] = pc[q] /\ my'[q] = my[q]
      BY <2>1, Went
    <3>2. my[q].slug \in Slug
      BY <3>1 DEF TypeOK
    <3> QED  BY <2>2, <2>3, <3>1, <3>2
  <2>6. ReceiptResumable'
    <3> SUFFICES ASSUME NEW t \in Ticket, receipt'[t] \in Receipt
                 PROVE  LET slug == <<receipt'[t].owner, receipt'[t].plan>> IN
                          /\ slug \in derived'
                          /\ slug \notin torn' => scratch'[slug] = Files
      OBVIOUS
    <3>1. receipt'[t] = receipt[t] /\ <<receipt[t].owner, receipt[t].plan>> \in Slug
      BY <2>4 DEF Receipt, Slug
    <3> QED  BY <2>2, <2>3, <3>1
  <2> QED  BY <2>5, <2>6
<1>7. ASSUME NEW c \in Commit, Reset(c) PROVE Cached'
  <2>1. \A q \in Proc : my'[q].slug = my[q].slug
    BY <1>7 DEF Reset, TypeOK, Preparation
  <2>2. pc' = pc /\ receipt' = receipt /\ scratch' = scratch /\ derived' = derived /\ torn' = torn
    BY <1>7 DEF Reset, cache
  <2>3. FilesKept'
    BY <2>1, <2>2
  <2>4. ReceiptResumable'
    BY <2>2
  <2> QED  BY <2>3, <2>4
<1>8. CASE \/ \E t \in Ticket : Complete(t)
           \/ \E v \in Plan : Replan(v)
           \/ \E to \in Scope, recorded \in SUBSET Scope : Amend(to, recorded)
           \/ \E s \in Session : TakeOver(s)
           \/ CommitWork
  BY <1>8 DEF Complete, Replan, Amend, TakeOver, CommitWork, cache
<1> QED  BY NextCases, <1>1, <1>2, <1>3, <1>4, <1>5, <1>6, <1>7, <1>8

\* A ticket with a receipt finds everything a resume needs, wherever a
\* preparation was cut short.
THEOREM Resumption == Spec => []ReceiptResumable
<1>1. Init => Cached
  BY NoneAssumption DEF Init, Cached, FilesKept, ReceiptResumable
<1>2. TypeOK /\ Cached /\ [Next]_vars => Cached'
  <2>1. TypeOK /\ Cached /\ UNCHANGED vars => Cached'
    BY DEF vars, cache, Cached, FilesKept, ReceiptResumable
  <2> QED  BY <2>1, CachedStep
<1>3. Cached => ReceiptResumable
  BY DEF Cached
<1> QED  BY <1>1, <1>2, <1>3, Typing, PTL DEF Spec

-----------------------------------------------------------------------------
(* Completion.                                                             *)

LEMMA RecordStep ==
  ASSUME TypeOK, RecordKept, Next
  PROVE  RecordKept'
<1>1. \A t \in Ticket : record[t] # None => receipt[t] \in Receipt
  BY DEF RecordKept, TypeOK, Record
<1>2. \A t \in Ticket : receipt[t] \in Receipt /\ UNCHANGED record => receipt'[t] = receipt[t]
  <2>1. ASSUME NEW p \in Proc, Save(p) \/ Cut(p), NEW t \in Ticket, receipt[t] \in Receipt
        PROVE  receipt'[t] = receipt[t]
    <3>1. None \notin Receipt
      BY NoneAssumption
    <3> QED  BY <2>1, <3>1 DEF Save, Cut, TypeOK, cache
  <2>2. ASSUME UNCHANGED receipt, NEW t \in Ticket PROVE receipt'[t] = receipt[t]
    BY <2>2
  <2> QED  BY NextCases, <2>1, <2>2
       DEF Check, Judge, Register, Derive, CommitWork, Reset, Complete, Replan, Amend,
           TakeOver, cache
<1>3. CASE UNCHANGED record
  BY <1>1, <1>2, <1>3 DEF RecordKept
<1>4. CASE \E t \in Ticket : Complete(t)
  <2>1. PICK t \in Ticket : Complete(t)
    BY <1>4
  <2>2. /\ record'[t].start = receipt[t] /\ receipt' = receipt
        /\ \A u \in Ticket \ {t} : record'[u] = record[u]
    BY <2>1 DEF Complete, TypeOK, cache
  <2> QED  BY <2>2 DEF RecordKept
<1> QED  BY NextCases, <1>3, <1>4
     DEF Check, Judge, Register, Derive, Save, Cut, CommitWork, Reset, Replan, Amend,
         TakeOver, documents

LEMMA AmendedGrows ==
  ASSUME Next
  PROVE  amended \subseteq amended' /\ scope' \in {scope, scope + 1}
  BY NextCases
  DEF Check, Judge, Register, Derive, Save, Cut, CommitWork, Reset, Complete, Replan, Amend,
      TakeOver, documents

LEMMA SurvivalStep ==
  ASSUME TypeOK, RecordKept, RecordKept', Next, NEW t \in Ticket,
         Completed(t), branch \subseteq branch', plan' = plan, record'[t] = record[t],
         scope' # scope => <<record[t].start.scope, scope'>> \in amended'
  PROVE  Completed(t)'
<1> DEFINE start == record[t].start
<1>1. record[t] \in Record /\ start.scope \in Scope
  BY DEF Completed, TypeOK, Record, Receipt
<1>2. scope \in Nat /\ start.scope \in Nat
  BY <1>1 DEF TypeOK, Scope
<1>3. ScopeMatches(start.scope)'
  BY <1>2, AmendedGrows DEF Completed, ScopeMatches
<1>4. receipt'[t] = start
  BY DEF RecordKept, Completed
<1> QED  BY <1>3, <1>4 DEF Completed

\* A completed ticket is taken back only by a rewritten branch, a new plan, an
\* unrecorded scope or another record; a new owner leaves it completed.
THEOREM Survival == Spec => CompletionSurvives
<1>1. Init => RecordKept
  BY DEF Init, RecordKept
<1>2. TypeOK /\ RecordKept /\ [Next]_vars => RecordKept'
  <2>1. RecordKept /\ UNCHANGED vars => RecordKept'
    BY DEF vars, documents, cache, RecordKept
  <2> QED  BY <2>1, RecordStep
<1>3. TypeOK /\ RecordKept /\ RecordKept' /\ [Next]_vars =>
        [\A t \in Ticket : Completed(t) /\ ~Completed(t)' =>
           \/ ~(branch \subseteq branch') \/ plan' # plan \/ record'[t] # record[t]
           \/ scope' # scope /\ <<record[t].start.scope, scope'>> \notin amended']_vars
  BY SurvivalStep
<1> QED  BY <1>1, <1>2, <1>3, Typing, PTL DEF Spec, CompletionSurvives

=================================================================================
