----------------------------- MODULE InboundSync -----------------------------
(***************************************************************************)
(* sync/inbound-sync.sh: timer-driven runs of one profile that offer the   *)
(* head of GitHub main to Gitea as a branch sync/github/<sha> and one pull *)
(* request, with the lock, the two state files, reviewers who merge or     *)
(* close, a GitHub main that moves or is rewritten, and runs that die      *)
(* between any two effects.                                                *)
(*                                                                         *)
(* Abstractions.  Commits are given with the commits they contain.  Gitea  *)
(* main is the set of those commits it contains.  Profile, file modes and  *)
(* credentials are checked before the lock and change nothing.             *)
(***************************************************************************)
EXTENDS Naturals, FiniteSets

CONSTANTS
  Commit,
  Contains,   \* Contains[c]: c and every commit reachable from c
  Imported,   \* commits of GitHub that Gitea main contains at the start
  Proc,
  None,
  Killed,     \* holder of a lock directory whose process is gone
  PageLimit,  \* open pull requests in the one page a run reads
  MaxOthers,  \* bound: open pull requests that are not sync ones
  MaxMoves    \* bound: events around the runs

ASSUME ContainsAssumption ==
  /\ Contains \in [Commit -> SUBSET Commit]
  /\ \A c \in Commit : c \in Contains[c]
  /\ \A c, d \in Commit : d \in Contains[c] => Contains[d] \subseteq Contains[c]
ASSUME ImportedAssumption ==
  /\ Imported \subseteq Commit
  /\ \A c \in Imported : Contains[c] \subseteq Imported
ASSUME NoneAssumption == None \notin Commit \cup Proc /\ Killed \notin Proc \cup {None}
ASSUME BoundsAssumption ==
  /\ PageLimit \in Nat /\ MaxOthers \in Nat /\ MaxMoves \in Nat

VARIABLES
  github,   \* refs/heads/main on GitHub
  main,     \* GitHub commits contained in Gitea main
  branch,   \* branch[c]: sync/github/<c> is absent, at c, or at another commit
  open,     \* heads of the open sync pull requests
  others,   \* number of other open pull requests
  last,     \* last-successful-sha
  pending,  \* pending-sha
  flock,    \* flock is installed on this host; otherwise the lock is a directory
  lock,     \* holder of the profile's lock
  pc, my,   \* where a run stands and what it has read
  offered,  \* history: commits a run created a pull request for
  moves     \* events so far

gitea == <<main, branch, open, others>>
files == <<last, pending>>
vars == <<github, flock, gitea, files, lock, pc, my, offered, moves>>

Labels == {"idle", "github", "gitea", "check", "ls", "pulls", "push", "create",
           "record", "clear", "defer"}
Run == [sha : Commit \cup {None}, main : SUBSET Commit, remote : BOOLEAN]
Blank == [sha |-> None, main |-> {}, remote |-> FALSE]

TypeOK ==
  /\ github \in Commit
  /\ flock \in BOOLEAN
  /\ main \subseteq Commit
  /\ branch \in [Commit -> {"absent", "own", "other"}]
  /\ open \subseteq Commit
  /\ others \in 0 .. MaxOthers
  /\ last \in Commit \cup {None}
  /\ pending \in Commit \cup {None}
  /\ lock \in Proc \cup {None, Killed}
  /\ pc \in [Proc -> Labels]
  /\ my \in [Proc -> Run]
  /\ offered \subseteq Commit
  /\ moves \in 0 .. MaxMoves

\* The profile was just installed: no run has ever written its state files.
Init ==
  /\ github \in Commit
  /\ flock \in BOOLEAN
  /\ main = Imported
  /\ branch = [c \in Commit |-> "absent"]
  /\ open = {}
  /\ others \in 0 .. MaxOthers
  /\ last = None
  /\ pending = None
  /\ lock = None
  /\ pc = [p \in Proc |-> "idle"]
  /\ my = [p \in Proc |-> Blank]
  /\ offered = {}
  /\ moves = 0

(***************************************************************************)
(* Control.                                                                *)
(***************************************************************************)
Goto(p, label) == pc' = [pc EXCEPT ![p] = label]

End(p) ==
  /\ pc' = [pc EXCEPT ![p] = "idle"]
  /\ my' = [my EXCEPT ![p] = Blank]
  /\ lock' = None

\* A program point that only reads.
Reads(p, at, next) ==
  /\ pc[p] = at
  /\ Goto(p, next)
  /\ UNCHANGED <<github, flock, gitea, files, lock, offered, moves>>

Acquire(p) ==
  /\ pc[p] = "idle"
  /\ lock = None
  /\ lock' = p
  /\ Goto(p, "github")
  /\ UNCHANGED <<github, flock, gitea, files, my, offered, moves>>

(***************************************************************************)
(* Fetch both heads, then refuse a rewritten or an unrelated history.      *)
(***************************************************************************)
FetchGithub(p) ==
  /\ Reads(p, "github", "gitea")
  /\ my' = [my EXCEPT ![p].sha = github]

FetchGitea(p) ==
  /\ Reads(p, "gitea", "check")
  /\ my' = [my EXCEPT ![p].main = main]

\* Mutant: the ancestry of the last successful SHA is not checked.
LinearUnchecked(p) == Contains[my[p].sha] \cap my[p].main # {}

\* The last successful SHA is an ancestor, and the two mains have a common one.
Linear(p) ==
  /\ last # None => last \in Contains[my[p].sha]
  /\ Contains[my[p].sha] \cap my[p].main # {}

AlreadyPresent(p) ==
  /\ Reads(p, "check", "record")
  /\ Linear(p)
  /\ my[p].sha \in my[p].main
  /\ UNCHANGED my

NotPresent(p) ==
  /\ Reads(p, "check", "ls")
  /\ Linear(p)
  /\ my[p].sha \notin my[p].main
  /\ UNCHANGED my

\* Mutant: the answer itself is kept where a yes or no was meant.
LsRemoteRaw(p) ==
  /\ Reads(p, "ls", "pulls")
  /\ my' = [my EXCEPT ![p].remote = IF branch[my[p].sha] = "absent" THEN None ELSE TRUE]

\* A branch of that name at another commit is a conflict.
LsRemote(p) ==
  /\ Reads(p, "ls", "pulls")
  /\ branch[my[p].sha] # "other"
  /\ my' = [my EXCEPT ![p].remote = (branch[my[p].sha] = "own")]

(***************************************************************************)
(* One page of open pull requests decides between record, defer and offer. *)
(***************************************************************************)
\* Gitea answers with at most PageLimit of all open pull requests.
Page ==
  {page \in SUBSET open :
     \/ page = open
     \/ /\ Cardinality(open) + others > PageLimit
        /\ Cardinality(page) + others >= PageLimit}

ExistingPr(p) ==
  /\ Reads(p, "pulls", "record")
  /\ \E page \in Page : my[p].sha \in page
  /\ UNCHANGED my

\* Mutant: another active sync pull request is not looked for.
NoSyncPrSame(p) == \E page \in Page : my[p].sha \notin page

NoSyncPr(p) == \E page \in Page : page = {}

ActivePr(p) ==
  /\ Reads(p, "pulls", "defer")
  /\ \E page \in Page : page # {} /\ my[p].sha \notin page
  /\ UNCHANGED my

NoActivePr(p) ==
  /\ Reads(p, "pulls", IF my[p].remote THEN "create" ELSE "push")
  /\ NoSyncPr(p)
  /\ UNCHANGED my

Defer(p) ==
  /\ pc[p] = "defer"
  /\ pending' = my[p].sha
  /\ End(p)
  /\ UNCHANGED <<github, flock, gitea, last, offered, moves>>

\* An ordinary push: creates the branch, or fast-forwards one made meanwhile.
Push(p) ==
  /\ pc[p] = "push"
  /\ branch' = [branch EXCEPT ![my[p].sha] = "own"]
  /\ Goto(p, "create")
  /\ UNCHANGED <<github, flock, main, open, others, files, lock, my, offered, moves>>

PushRejected(p) ==
  /\ pc[p] = "push"
  /\ branch[my[p].sha] = "other"
  /\ End(p)
  /\ UNCHANGED <<github, flock, gitea, files, offered, moves>>

\* Gitea refuses a second pull request of a branch, and one of a missing branch.
CanCreate(p) == branch[my[p].sha] # "absent" /\ my[p].sha \notin open

Created(p) ==
  /\ CanCreate(p)
  /\ open' = open \cup {my[p].sha}
  /\ offered' = offered \cup {my[p].sha}

Create(p) ==
  /\ pc[p] = "create"
  /\ Created(p)
  /\ Goto(p, "record")
  /\ UNCHANGED <<github, flock, main, branch, others, files, lock, my, moves>>

(***************************************************************************)
(* The state files: last-successful-sha first, then pending-sha is removed. *)
(***************************************************************************)
Record(p) ==
  /\ pc[p] = "record"
  /\ last' = my[p].sha
  /\ Goto(p, "clear")
  /\ UNCHANGED <<github, flock, gitea, pending, lock, my, offered, moves>>

\* Mutant: pending-sha is left behind.
ClearKeeps(p) ==
  /\ pc[p] = "clear"
  /\ End(p)
  /\ UNCHANGED <<github, flock, gitea, files, offered, moves>>

Clear(p) ==
  /\ pc[p] = "clear"
  /\ pending' = None
  /\ End(p)
  /\ UNCHANGED <<github, flock, gitea, last, offered, moves>>

\* A run whose next check or command fails ends; its state files stay.
Blocked(p) ==
  \/ pc[p] = "check" /\ ~Linear(p)
  \/ pc[p] = "ls" /\ branch[my[p].sha] = "other"
  \/ pc[p] = "create" /\ ~CanCreate(p)

Refuse(p) ==
  /\ Blocked(p)
  /\ End(p)
  /\ UNCHANGED <<github, flock, gitea, files, offered, moves>>

Advance(p) ==
  \/ FetchGithub(p) \/ FetchGitea(p) \/ AlreadyPresent(p) \/ NotPresent(p)
  \/ LsRemote(p) \/ ExistingPr(p) \/ ActivePr(p) \/ NoActivePr(p) \/ Defer(p)
  \/ Push(p) \/ PushRejected(p) \/ Create(p) \/ Record(p) \/ Clear(p) \/ Refuse(p)

(***************************************************************************)
(* What happens around the runs.                                           *)
(***************************************************************************)
Happen == moves < MaxMoves /\ moves' = moves + 1

\* A command fails: set -e ends the script, its exit gives the lock back.
Fail(p) ==
  /\ pc[p] # "idle"
  /\ Happen
  /\ End(p)
  /\ UNCHANGED <<github, flock, gitea, files, offered>>

\* Killed outright: the kernel drops a flock, nobody removes a lock directory.
Kill(p) ==
  /\ pc[p] # "idle"
  /\ Happen
  /\ pc' = [pc EXCEPT ![p] = "idle"]
  /\ my' = [my EXCEPT ![p] = Blank]
  /\ lock' = IF flock THEN None ELSE Killed
  /\ UNCHANGED <<github, flock, gitea, files, offered>>

\* Gitea created the branch, or the pull request, and the answer was lost.
PushLost(p) ==
  /\ pc[p] = "push"
  /\ Happen
  /\ branch' = [branch EXCEPT ![my[p].sha] = "own"]
  /\ End(p)
  /\ UNCHANGED <<github, flock, main, open, others, files, offered>>

CreateLost(p) ==
  /\ pc[p] = "create"
  /\ Happen
  /\ Created(p)
  /\ End(p)
  /\ UNCHANGED <<github, flock, main, branch, others, files>>

\* GitHub main moves on, or is force-pushed to another history.
GithubMoves ==
  /\ Happen
  /\ github' \in Commit
  /\ UNCHANGED <<flock, gitea, files, lock, pc, my, offered>>

\* A reviewer merges or closes the pull request; its branch may be deleted.
Review(c) ==
  /\ c \in open
  /\ Happen
  /\ open' = open \ {c}
  /\ main' \in {main, IF branch[c] = "own" THEN main \cup Contains[c] ELSE main}
  /\ branch' \in {branch, [branch EXCEPT ![c] = "absent"]}
  /\ UNCHANGED <<github, flock, others, files, lock, pc, my, offered>>

OtherPr ==
  /\ Happen
  /\ others' \in 0 .. MaxOthers
  /\ UNCHANGED <<github, flock, main, branch, open, files, lock, pc, my, offered>>

\* Somebody pushes another commit under the name of a sync branch.
Squat(c) ==
  /\ branch[c] = "absent"
  /\ Happen
  /\ branch' = [branch EXCEPT ![c] = "other"]
  /\ UNCHANGED <<github, flock, main, open, others, files, lock, pc, my, offered>>

World == GithubMoves \/ OtherPr \/ \E c \in Commit : Review(c) \/ Squat(c)

Disturb(p) == Fail(p) \/ Kill(p) \/ PushLost(p) \/ CreateLost(p)

Next == World \/ \E p \in Proc : Acquire(p) \/ Advance(p) \/ Disturb(p)

Spec == Init /\ [][Next]_vars

\* A running script goes on, and the timer starts the next run.
Fairness == /\ \A p \in Proc : WF_vars(Advance(p))
            /\ WF_vars(\E p \in Proc : Acquire(p))

FairSpec == Spec /\ Fairness

-----------------------------------------------------------------------------
(***************************************************************************)
(* Properties.                                                             *)
(***************************************************************************)
\* 12-Linux-GitHub-Gitea, 8.2 item 12: a project has at most one open sync pull
\* request, whatever died between the push, the pull request and the state files.
OneSyncPr == \A c, d \in open : c = d

\* last-successful-sha is never ahead of Gitea: it names a commit that Gitea main
\* contains or that a run offered as a pull request.
LastOffered == last # None => last \in main \cup offered

\* No commit is offered that leaves out the last successful one: a rewrite of
\* GitHub main after it never reaches Gitea.
OfferedExtendsLast ==
  [][\A c \in offered' \ offered : last # None => last \in Contains[c]]_vars

-----------------------------------------------------------------------------
(* Where synchronisation can come to rest.                                 *)
Recorded == last = github /\ pending = None
Deferred == open # {} /\ github \notin open /\ pending = github

\* Refusals that repeat until a person acts.
Rewritten == last # None /\ last \notin Contains[github]
Unrelated == Contains[github] \cap main = {}
Conflicting == branch[github] = "other"
Reason == Rewritten \/ Unrelated \/ Conflicting
LockLeft == ~flock /\ lock = Killed

\* When events are over and the timer goes on, GitHub's head is in Gitea main or
\* offered and recorded so, or waits for another pull request as pending, or is
\* refused for one of the reasons above.
SyncSettles ==
  <>[](\/ github \in main \cup open /\ Recorded
       \/ Deferred \/ Reason \/ LockLeft)

-----------------------------------------------------------------------------
(* The inductive invariant of the safety properties.                       *)
\* Only the holder of the lock runs.
LockInv == \A p \in Proc : pc[p] # "idle" => lock = p

\* What a run has checked still holds: the last successful SHA is an ancestor of the
\* one it offers, and what it records is in Gitea main or offered.
PointInv ==
  \A p \in Proc :
    /\ pc[p] \notin {"idle", "github"} => my[p].sha \in Commit
    /\ my[p].main \subseteq main
    /\ pc[p] \in {"ls", "pulls", "push", "create"} /\ last # None =>
         last \in Contains[my[p].sha]
    /\ pc[p] \in {"record", "clear"} => my[p].sha \in main \cup offered

SafeInv ==
  /\ TypeOK
  /\ LockInv
  /\ PointInv
  /\ open \subseteq offered
  /\ LastOffered

\* Past a page that shows them all, no sync pull request is open.
SoleInv ==
  /\ OneSyncPr
  /\ \A p \in Proc : pc[p] \in {"push", "create"} => open = {}

IInv == SafeInv /\ SoleInv
==============================================================================
