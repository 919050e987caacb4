---------------------------- MODULE TicketExecution ----------------------------
(***************************************************************************)
(* prepare_ticket: the session that owns the worktree of an Issue starts   *)
(* or resumes one ticket of its plan.  A start leaves a receipt (owner,    *)
(* plan, the head it starts from, scope) in the ignored cache, beside a    *)
(* derived plan and a registered scratch directory.  Completion is never   *)
(* stored: every preparation judges it anew from the evidence record and   *)
(* Git.  Preparations take no lock.                                        *)
(*                                                                         *)
(* Abstractions.  The branch is a line of commits, numbered as they are    *)
(* made.  A plan is its semantic hash; scopes are nested and numbered.     *)
(* Route, policy, Issue state, checks and acceptance entries, which are    *)
(* compared and never written here, may refuse a preparation without a     *)
(* trace, and so may links, fences and a cache that is not ignored.  What  *)
(* a record says of the start is copied from the receipt, and nobody       *)
(* deletes the cache.                                                      *)
(***************************************************************************)
EXTENDS Naturals

CONSTANTS
  Ticket, Deps,    \* tickets of the plan, and those each is blocked by
  Session, Proc,   \* owners of worktrees, processes that prepare tickets
  MaxCommits,      \* bound: commits made, the first one before the rest
  MaxPlans,        \* bound: semantic versions of the plan
  MaxScope,        \* bound: sizes of the scope
  MaxStarts,       \* bound: preparations begun
  MaxEvents,       \* bound: rewrites of the branch and edits of documents or owner
  MaxFaults,       \* bound: preparations cut short
  None,            \* no receipt, no record
  Torn             \* a receipt of which only a part was written

ASSUME DepsAssumption == Deps \in [Ticket -> SUBSET Ticket]
ASSUME BoundAssumption ==
  /\ MaxCommits \in Nat \ {0} /\ MaxPlans \in Nat \ {0} /\ MaxScope \in Nat \ {0}
  /\ MaxStarts \in Nat /\ MaxEvents \in Nat /\ MaxFaults \in Nat

Commit == 1 .. MaxCommits
Plan == 1 .. MaxPlans
Scope == 1 .. MaxScope
Slug == Session \X Plan      \* names a derived plan and a scratch directory
Files == {"dir", "plan-path", "identity"}

Receipt == [owner : Session, plan : Plan, base : Commit, scope : Scope]
Record == [start : Receipt, head : Commit, plan : Plan]
ASSUME NoneAssumption == None \notin Receipt \cup Record /\ Torn \notin Receipt \cup {None}

VARIABLES
  branch, head,   \* the commits from the root to HEAD, and HEAD
  made,      \* commits made so far
  owner,     \* the session the worktree belongs to
  plan,      \* the semantic hash of the plan
  scope, amended,   \* git_scope, and the recorded scope_amendments
  done,      \* tickets whose status is done
  record,    \* the evidence records
  receipt,   \* the receipts in the cache
  scratch,   \* what is valid of the scratch directory of each slug
  derived,   \* the slugs that have a derived plan
  torn,      \* slugs that lost a file because rewriting it was cut short
  pc, my,    \* the preparations
  starts, events, faults

git == <<branch, head, made>>
documents == <<plan, scope, amended, done, record>>
cache == <<receipt, scratch, derived, torn>>
vars == <<git, owner, documents, cache, pc, my, starts, events, faults>>

Idle == [ticket |-> None, resume |-> FALSE, slug |-> None, scope |-> 1, allowed |-> {},
         base |-> 0, needs |-> {}, rewritten |-> FALSE]

Init ==
  /\ branch = {1} /\ head = 1 /\ made = 1 /\ owner \in Session
  /\ plan = 1 /\ scope = 1 /\ amended = {} /\ done = {}
  /\ record = [t \in Ticket |-> None] /\ receipt = [t \in Ticket |-> None]
  /\ scratch = [s \in Slug |-> {}] /\ derived = {} /\ torn = {}
  /\ pc = [p \in Proc |-> "idle"] /\ my = [p \in Proc |-> Idle]
  /\ starts = 0 /\ events = 0 /\ faults = 0

-----------------------------------------------------------------------------
(* Judging completion.                                                     *)

\* The scope is unchanged, or has grown from this one directly as recorded.
ScopeMatches(from) == from = scope \/ (from < scope /\ <<from, scope>> \in amended)

\* Mutant: the ticket must have been started by the present owner.
CompletedByOwner(t) ==
  /\ record[t] # None
  /\ LET start == record[t].start IN
       /\ start.owner = owner /\ start.plan = plan /\ ScopeMatches(start.scope)
       /\ receipt[t] \in {None, start}
       /\ {start.base, record[t].head} \subseteq branch
       /\ start.base < record[t].head
  /\ record[t].plan = plan

\* Mutant: the recorded head may have left the branch.
CompletedAnywhere(t) ==
  /\ record[t] # None
  /\ LET start == record[t].start IN
       /\ start.plan = plan /\ ScopeMatches(start.scope)
       /\ receipt[t] \in {None, start}
       /\ start.base < record[t].head
  /\ record[t].plan = plan

\* Whoever started it, the record fits the receipt that is left and the plan,
\* and HEAD contains its commits.
Completed(t) ==
  /\ record[t] # None
  /\ LET start == record[t].start IN
       /\ start.plan = plan /\ ScopeMatches(start.scope)
       /\ receipt[t] \in {None, start}
       /\ {start.base, record[t].head} \subseteq branch
       /\ start.base < record[t].head
  /\ record[t].plan = plan

-----------------------------------------------------------------------------
(* Preparing a ticket.                                                     *)

\* context and the dependency checks: the owner starts from the documents and
\* the branch as they are now.
Check(p, t, resume) ==
  /\ pc[p] = "idle" /\ starts < MaxStarts
  /\ Deps[t] \subseteq done /\ \A d \in done : Completed(d)
  /\ ~resume => t \notin done
  /\ starts' = starts + 1
  /\ pc' = [pc EXCEPT ![p] = "judge"]
  /\ my' = [my EXCEPT ![p] = [ticket |-> t, resume |-> resume, slug |-> <<owner, plan>>,
              scope |-> scope, allowed |-> {s \in Scope : ScopeMatches(s)}, base |-> 0,
              needs |-> {record[d].head : d \in Deps[t]}, rewritten |-> FALSE]]
  /\ UNCHANGED <<git, owner, documents, cache, events, faults>>

\* The scratch directory is absent or registered for this owner and plan.
Adoptable(slug) == scratch[slug] \in {{}, Files}

Registers(r, slug) == r \in Receipt /\ <<r.owner, r.plan>> = slug

\* The saved receipt a resume may go on with.
Resumable(m) ==
  LET saved == receipt[m.ticket] IN
    /\ Registers(saved, m.slug)
    /\ saved.scope \in m.allowed
    /\ saved.base \in branch

\* A new start, which must not find the derived plan of nobody.
Startable(m) ==
  /\ receipt[m.ticket] = None
  /\ m.slug \in derived =>
       /\ \E t \in Ticket : Registers(receipt[t], m.slug)
       /\ \A t \in Ticket : receipt[t] # Torn

\* Of a preparation that is over nothing is left but its files.
Go(p, step) ==
  /\ pc' = [pc EXCEPT ![p] = step]
  /\ my' = IF step = "idle" THEN [my EXCEPT ![p] = Idle] ELSE my

Judge(p) ==
  LET m == my[p] IN
    /\ pc[p] = "judge"
    /\ IF Adoptable(m.slug) /\ IF m.resume THEN Resumable(m) ELSE Startable(m)
       THEN /\ pc' = [pc EXCEPT ![p] = "dir"]
            /\ my' = [my EXCEPT ![p].base =
                        IF m.resume THEN receipt[m.ticket].base ELSE head]
       ELSE Go(p, "idle")
    /\ UNCHANGED <<git, owner, documents, cache, starts, events, faults>>

\* Mutant: the receipt is written before the directory is registered.
AfterReceiptFirst(step, resume) ==
  CASE step = "dir" -> IF resume THEN "plan-path" ELSE "receipt"
    [] step = "receipt" -> "plan-path"
    [] step = "plan-path" -> "identity"
    [] step = "identity" -> "derived"
    [] step = "derived" -> "idle"

\* The order of the writes: scratch directory, derived plan, receipt.
After(step, resume) ==
  CASE step = "dir" -> "plan-path"
    [] step = "plan-path" -> "identity"
    [] step = "identity" -> "derived"
    [] step = "derived" -> IF resume THEN "idle" ELSE "receipt"
    [] step = "receipt" -> "idle"

\* mkdir, and the two files that register the directory.
Register(p) ==
  /\ pc[p] \in Files
  /\ scratch' = [scratch EXCEPT ![my[p].slug] = @ \cup {pc[p]}]
  /\ Go(p, After(pc[p], my[p].resume))
  /\ UNCHANGED <<git, owner, documents, receipt, derived, torn, starts, events, faults>>

Derive(p) ==
  /\ pc[p] = "derived"
  /\ derived' = derived \cup {my[p].slug}
  /\ Go(p, After("derived", my[p].resume))
  /\ UNCHANGED <<git, owner, documents, receipt, scratch, torn, starts, events, faults>>

\* Mutant: the base is inferred from the parent of HEAD.
ReceiptOfParent(m) ==
  [owner |-> m.slug[1], plan |-> m.slug[2], base |-> m.base - 1, scope |-> m.scope]

ReceiptOf(m) == [owner |-> m.slug[1], plan |-> m.slug[2], base |-> m.base, scope |-> m.scope]

\* The receipt is created, never overwritten.
Save(p) ==
  LET m == my[p] IN
    /\ pc[p] = "receipt"
    /\ IF receipt[m.ticket] = None
       THEN /\ receipt' = [receipt EXCEPT ![m.ticket] = ReceiptOf(m)]
            /\ Go(p, After("receipt", FALSE))
       ELSE Go(p, "idle") /\ UNCHANGED receipt
    /\ UNCHANGED <<git, owner, documents, scratch, derived, torn, starts, events, faults>>

\* A preparation is killed, or one of its writes fails: the file it was writing
\* may be left empty, and nothing is undone.
Cut(p) ==
  LET m == my[p] IN
    /\ pc[p] # "idle" /\ faults < MaxFaults
    /\ faults' = faults + 1
    /\ Go(p, "idle")
    /\ \/ UNCHANGED cache
       \/ /\ pc[p] \in {"plan-path", "identity"}
          /\ scratch' = [scratch EXCEPT ![m.slug] = @ \ {pc[p]}]
          /\ torn' = IF pc[p] \in scratch[m.slug] THEN torn \cup {m.slug} ELSE torn
          /\ UNCHANGED <<receipt, derived>>
       \/ /\ pc[p] = "derived"
          /\ derived' = derived \cup {m.slug}
          /\ UNCHANGED <<receipt, scratch, torn>>
       \/ /\ pc[p] = "receipt" /\ receipt[m.ticket] = None
          /\ receipt' = [receipt EXCEPT ![m.ticket] = Torn]
          /\ UNCHANGED <<scratch, derived, torn>>
    /\ UNCHANGED <<git, owner, documents, starts, events>>

-----------------------------------------------------------------------------
(* The session and people.                                                 *)

CommitWork ==
  /\ made < MaxCommits
  /\ made' = made + 1 /\ head' = made' /\ branch' = branch \cup {made'}
  /\ UNCHANGED <<owner, documents, cache, pc, my, starts, events, faults>>

Event == events < MaxEvents /\ events' = events + 1

Reset(c) ==
  /\ Event /\ c \in branch
  /\ head' = c /\ branch' = {d \in branch : d <= c}
  /\ my' = [p \in Proc |-> [my[p] EXCEPT !.rewritten = @ \/ pc[p] = "judge"]]
  /\ UNCHANGED <<made, owner, documents, cache, pc, starts, faults>>

\* The ticket is recorded as done, with the start its receipt shows.
Complete(t) ==
  /\ receipt[t] \in Receipt
  /\ record' = [record EXCEPT ![t] = [start |-> receipt[t], head |-> head, plan |-> plan]]
  /\ done' = done \cup {t}
  /\ UNCHANGED <<git, owner, plan, scope, amended, cache, pc, my, starts, events, faults>>

Replan(v) ==
  /\ Event
  /\ v # plan /\ plan' = v
  /\ UNCHANGED <<git, owner, scope, amended, done, record, cache, pc, my,
                 starts, faults>>

\* The scope grows; the amendment is recorded with it, or later, or not.
Amend(to, recorded) ==
  /\ Event
  /\ to \in {scope, scope + 1} /\ \A from \in recorded : from < to
  /\ scope' = to /\ amended' = amended \cup {<<from, to>> : from \in recorded}
  /\ UNCHANGED <<git, owner, plan, done, record, cache, pc, my, starts, faults>>

TakeOver(s) ==
  /\ Event
  /\ s # owner /\ owner' = s
  /\ UNCHANGED <<git, documents, cache, pc, my, starts, faults>>

Next ==
  \/ \E p \in Proc, t \in Ticket, resume \in BOOLEAN : Check(p, t, resume)
  \/ \E p \in Proc : Judge(p) \/ Register(p) \/ Derive(p) \/ Save(p) \/ Cut(p)
  \/ CommitWork
  \/ \E c \in Commit : Reset(c)
  \/ \E t \in Ticket : Complete(t)
  \/ \E v \in Plan : Replan(v)
  \/ \E to \in Scope, recorded \in SUBSET Scope : Amend(to, recorded)
  \/ \E s \in Session : TakeOver(s)

Spec == Init /\ [][Next]_vars

-----------------------------------------------------------------------------
Preparation ==
  [ticket : Ticket \cup {None}, resume : BOOLEAN, slug : Slug \cup {None}, scope : Scope,
   allowed : SUBSET Scope, base : Commit \cup {0}, needs : SUBSET Commit,
   rewritten : BOOLEAN]

TypeOK ==
  /\ made \in Commit /\ head \in branch /\ branch \subseteq 1 .. head /\ head <= made
  /\ owner \in Session /\ plan \in Plan /\ scope \in Scope
  /\ amended \subseteq Scope \X Scope /\ done \subseteq Ticket
  /\ record \in [Ticket -> Record \cup {None}]
  /\ receipt \in [Ticket -> Receipt \cup {None, Torn}]
  /\ scratch \in [Slug -> SUBSET Files] /\ derived \subseteq Slug /\ torn \subseteq Slug
  /\ pc \in [Proc -> Files \cup {"idle", "judge", "derived", "receipt"}]
  /\ my \in [Proc -> Preparation]
  /\ \A p \in Proc : pc[p] \notin {"idle", "judge"} => my[p].base \in Commit
  /\ \A p \in Proc : pc[p] # "idle" => my[p].ticket \in Ticket /\ my[p].slug \in Slug
  /\ starts \in 0 .. MaxStarts /\ events \in 0 .. MaxEvents /\ faults \in 0 .. MaxFaults

\* A ticket is started from a commit that has the work of every ticket that
\* blocks it, although the branch moves between the check and the reading of
\* HEAD; only a rewrite of the branch in between can break it.
StartAfterBlockers ==
  \A p \in Proc :
    pc[p] \notin {"idle", "judge"} /\ ~my[p].resume /\ ~my[p].rewritten =>
      \A h \in my[p].needs : h <= my[p].base

\* A receipt is the last thing written: wherever a preparation was cut short, a
\* ticket that has one finds its scratch directory registered and its derived
\* plan there, and can be resumed.  Only the cut rewriting of those files, by
\* a later preparation, takes that away.
ReceiptResumable ==
  \A t \in Ticket : receipt[t] \in Receipt =>
    LET slug == <<receipt[t].owner, receipt[t].plan>> IN
      /\ slug \in derived
      /\ slug \notin torn => scratch[slug] = Files

\* A completed ticket stays completed, for a new owner too, while preparations,
\* commits, crashes and recorded amendments go on: only a rewritten branch, a
\* new plan, an unrecorded scope or another record takes it back.
CompletionSurvives ==
  [][\A t \in Ticket : Completed(t) /\ ~Completed(t)' =>
       \/ ~(branch \subseteq branch') \/ plan' # plan \/ record'[t] # record[t]
       \/ scope' # scope /\ <<record[t].start.scope, scope'>> \notin amended']_vars
================================================================================
