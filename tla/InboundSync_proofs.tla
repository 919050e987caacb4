-------------------------- MODULE InboundSync_proofs --------------------------
(***************************************************************************)
(* Proofs about InboundSync, for every commit graph, number of processes   *)
(* and kind of lock.  Only that one sync pull request is open needs a page *)
(* with room for it beside all other open ones.                            *)
(***************************************************************************)
EXTENDS InboundSync, FiniteSetTheorems, TLAPS

Uncrowded == MaxOthers < PageLimit

\* Under Uncrowded an open sync pull request is on the page.
LEMMA PageShowsAll ==
  ASSUME Uncrowded, TypeOK, OneSyncPr, NEW page \in Page
  PROVE  page = open
<1>1. SUFFICES ASSUME Cardinality(open) + others > PageLimit PROVE FALSE
  BY DEF Page
<1>2. others \in Nat /\ others < PageLimit /\ PageLimit \in Nat
  BY BoundsAssumption DEF TypeOK, Uncrowded
<1>3. CASE open = {}
  <2>1. Cardinality(open) = 0
    BY <1>3, FS_EmptySet
  <2> QED BY <1>1, <1>2, <2>1
<1>4. CASE open # {}
  <2>1. PICK c \in open : open = {c}
    BY <1>4 DEF OneSyncPr
  <2>2. Cardinality(open) = 1
    BY <2>1, FS_Singleton
  <2> QED BY <1>1, <1>2, <2>2
<1> QED BY <1>3, <1>4

\* The initial states satisfy the invariant.
LEMMA InitInv == Init => IInv
BY NoneAssumption, ImportedAssumption, BoundsAssumption
   DEF Init, IInv, SafeInv, SoleInv, TypeOK, LockInv, PointInv, OneSyncPr, LastOffered,
       Blank, Run, Labels

\* Types, for the steps of one run.
LEMMA AdvanceType ==
  ASSUME TypeOK, PointInv, NEW p \in Proc, Acquire(p) \/ Advance(p)
  PROVE  TypeOK'
<1> USE NoneAssumption DEF TypeOK, Run, Labels, Reads, Goto, End, Blank
<1>1. CASE Acquire(p) BY <1>1 DEF Acquire, gitea, files
<1>2. CASE FetchGithub(p) BY <1>2 DEF FetchGithub, gitea, files
<1>3. CASE FetchGitea(p) BY <1>3 DEF FetchGitea, gitea, files
<1>4. CASE AlreadyPresent(p) BY <1>4 DEF AlreadyPresent, gitea, files
<1>5. CASE NotPresent(p) BY <1>5 DEF NotPresent, gitea, files
<1>6. CASE LsRemote(p)
  <2> DEFINE found == branch[my[p].sha] = "own"
  <2>1. found \in BOOLEAN
    OBVIOUS
  <2>2. my' = [my EXCEPT ![p].remote = found]
    BY <1>6 DEF LsRemote
  <2> HIDE DEF found
  <2>3. my' \in [Proc -> Run]
    BY <2>1, <2>2
  <2> QED BY <1>6, <2>3 DEF LsRemote, gitea, files
<1>7. CASE ExistingPr(p) BY <1>7 DEF ExistingPr, gitea, files
<1>8. CASE ActivePr(p) BY <1>8 DEF ActivePr, gitea, files
<1>9. CASE NoActivePr(p) BY <1>9 DEF NoActivePr, gitea, files
<1>10. CASE Defer(p) BY <1>10 DEF Defer, PointInv, gitea
<1>11. CASE Push(p) BY <1>11 DEF Push, files
<1>12. CASE PushRejected(p) BY <1>12 DEF PushRejected, gitea, files
<1>13. CASE Create(p) BY <1>13 DEF Create, Created, PointInv, files
<1>14. CASE Record(p) BY <1>14 DEF Record, PointInv, gitea
<1>15. CASE Clear(p) BY <1>15 DEF Clear, gitea
<1>16. CASE Refuse(p) BY <1>16 DEF Refuse, Blocked, gitea, files
<1> QED BY <1>1, <1>2, <1>3, <1>4, <1>5, <1>6, <1>7, <1>8, <1>9, <1>10, <1>11,
           <1>12, <1>13, <1>14, <1>15, <1>16 DEF Advance

\* Types, for everything around the runs.
LEMMA AroundType ==
  ASSUME TypeOK, PointInv, World \/ \E p \in Proc : Disturb(p)
  PROVE  TypeOK'
<1> USE NoneAssumption, BoundsAssumption
    DEF TypeOK, Run, Labels, Happen, End, Blank, gitea, files
<1>1. CASE GithubMoves BY <1>1 DEF GithubMoves
<1>2. CASE OtherPr BY <1>2 DEF OtherPr
<1>3. ASSUME NEW c \in Commit, Review(c) PROVE TypeOK'
  BY <1>3, ContainsAssumption DEF Review
<1>4. ASSUME NEW c \in Commit, Squat(c) PROVE TypeOK'
  BY <1>4 DEF Squat
<1>5. ASSUME NEW p \in Proc, Fail(p) PROVE TypeOK'
  BY <1>5 DEF Fail
<1>6. ASSUME NEW p \in Proc, Kill(p) PROVE TypeOK'
  BY <1>6 DEF Kill
<1>7. ASSUME NEW p \in Proc, PushLost(p) PROVE TypeOK'
  BY <1>7 DEF PushLost, PointInv
<1>8. ASSUME NEW p \in Proc, CreateLost(p) PROVE TypeOK'
  BY <1>8 DEF CreateLost, Created, PointInv
<1> QED BY <1>1, <1>2, <1>3, <1>4, <1>5, <1>6, <1>7, <1>8 DEF World, Disturb

\* What the invariant says beside the types.
Rest == LockInv /\ PointInv /\ open \subseteq offered /\ LastOffered

\* A step of the holder of the lock keeps the rest.
LEMMA AdvanceRest ==
  ASSUME SafeInv, NEW p \in Proc, Acquire(p) \/ Advance(p)
  PROVE  Rest'
<1> USE NoneAssumption
    DEF SafeInv, Rest, LockInv, PointInv, LastOffered, TypeOK, Run, Labels,
        Reads, Goto, End, Blank
<1>1. CASE Acquire(p) BY <1>1 DEF Acquire, gitea, files
<1>2. CASE FetchGithub(p) BY <1>2 DEF FetchGithub, gitea, files
<1>3. CASE FetchGitea(p) BY <1>3 DEF FetchGitea, gitea, files
<1>4. CASE AlreadyPresent(p) BY <1>4 DEF AlreadyPresent, gitea, files
<1>5. CASE NotPresent(p) BY <1>5 DEF NotPresent, Linear, gitea, files
<1>6. CASE LsRemote(p) BY <1>6 DEF LsRemote, gitea, files
<1>7. CASE ExistingPr(p) BY <1>7 DEF ExistingPr, Page, gitea, files
<1>8. CASE ActivePr(p) BY <1>8 DEF ActivePr, gitea, files
<1>9. CASE NoActivePr(p) BY <1>9 DEF NoActivePr, gitea, files
<1>10. CASE Defer(p) BY <1>10 DEF Defer, gitea
<1>11. CASE Push(p) BY <1>11 DEF Push, files
<1>12. CASE PushRejected(p) BY <1>12 DEF PushRejected, gitea, files
<1>13. CASE Create(p) BY <1>13 DEF Create, Created, files
<1>14. CASE Record(p) BY <1>14 DEF Record, gitea
<1>15. CASE Clear(p) BY <1>15 DEF Clear, gitea
<1>16. CASE Refuse(p) BY <1>16 DEF Refuse, Blocked, gitea, files
<1> QED BY <1>1, <1>2, <1>3, <1>4, <1>5, <1>6, <1>7, <1>8, <1>9, <1>10, <1>11,
           <1>12, <1>13, <1>14, <1>15, <1>16 DEF Advance

\* So does everything around the runs.
LEMMA AroundRest ==
  ASSUME SafeInv, World \/ \E p \in Proc : Disturb(p)
  PROVE  Rest'
<1> USE NoneAssumption
    DEF SafeInv, Rest, LockInv, PointInv, LastOffered, TypeOK, Run, Labels,
        Happen, End, Blank, gitea, files
<1>1. CASE GithubMoves BY <1>1 DEF GithubMoves
<1>2. CASE OtherPr BY <1>2 DEF OtherPr
<1>3. ASSUME NEW c \in Commit, Review(c) PROVE Rest'
  BY <1>3 DEF Review
<1>4. ASSUME NEW c \in Commit, Squat(c) PROVE Rest'
  BY <1>4 DEF Squat
<1>5. ASSUME NEW p \in Proc, Fail(p) PROVE Rest'
  BY <1>5 DEF Fail
<1>6. ASSUME NEW p \in Proc, Kill(p) PROVE Rest'
  BY <1>6 DEF Kill
<1>7. ASSUME NEW p \in Proc, PushLost(p) PROVE Rest'
  BY <1>7 DEF PushLost
<1>8. ASSUME NEW p \in Proc, CreateLost(p) PROVE Rest'
  BY <1>8 DEF CreateLost, Created
<1> QED BY <1>1, <1>2, <1>3, <1>4, <1>5, <1>6, <1>7, <1>8 DEF World, Disturb

\* Every step keeps what holds however crowded the page is.
LEMMA NextSafe == ASSUME SafeInv, [Next]_vars PROVE SafeInv'
<1>1. CASE UNCHANGED vars
  BY <1>1 DEF vars, gitea, files, SafeInv, TypeOK, LockInv, PointInv, LastOffered
<1>2. CASE Next
  BY <1>2, AdvanceType, AroundType, AdvanceRest, AroundRest DEF Next, SafeInv, Rest
<1> QED BY <1>1, <1>2

\* A pull request is opened only past a page without one, read under the lock, and
\* nobody else opens one: where the page shows all of them, there was none.
LEMMA NextSole == ASSUME Uncrowded, IInv, [Next]_vars PROVE SoleInv'
<1> USE DEF IInv, SafeInv, SoleInv, TypeOK, LockInv, OneSyncPr, gitea, files
<1>1. CASE UNCHANGED vars
  BY <1>1 DEF vars
<1>2. ASSUME NEW p \in Proc, Create(p) \/ CreateLost(p) PROVE SoleInv'
  <2>1. open = {} /\ open' = {my[p].sha}
    BY <1>2 DEF Create, CreateLost, Created
  <2>2. pc' = [pc EXCEPT ![p] = pc'[p]] /\ pc'[p] \notin {"push", "create"}
    BY <1>2 DEF Create, CreateLost, Goto, End
  <2>3. \A q \in Proc : pc'[q] \notin {"push", "create"}
    <3>1. \A q \in Proc : pc[q] # "idle" => q = p
      BY <1>2, NoneAssumption DEF Create, CreateLost
    <3> QED BY <2>2, <3>1
  <2> QED BY <2>1, <2>3
<1>3. ASSUME NEW p \in Proc, NoActivePr(p) PROVE SoleInv'
  <2>1. open = {}
    BY <1>3, PageShowsAll DEF NoActivePr, NoSyncPr
  <2> QED BY <1>3, <2>1 DEF NoActivePr, Reads
<1>4. ASSUME open' \subseteq open,
             \A q \in Proc : pc'[q] \in {"push", "create"} => pc[q] \in {"push", "create"}
      PROVE  SoleInv'
  BY <1>4
<1>5. ASSUME NEW p \in Proc, Acquire(p) \/ Advance(p), ~Create(p), ~NoActivePr(p)
      PROVE  SoleInv'
  BY <1>4, <1>5
  DEF Acquire, Advance, FetchGithub, FetchGitea, AlreadyPresent, NotPresent, LsRemote,
      ExistingPr, ActivePr, Defer, Push, PushRejected, Record, Clear, Refuse, Reads,
      Goto, End
<1>6. ASSUME NEW p \in Proc, Fail(p) \/ Kill(p) \/ PushLost(p) PROVE SoleInv'
  BY <1>4, <1>6 DEF Fail, Kill, PushLost, End
<1>7. CASE World
  BY <1>4, <1>7 DEF World, GithubMoves, OtherPr, Review, Squat
<1> QED BY <1>1, <1>2, <1>3, <1>5, <1>6, <1>7 DEF Next, Disturb

\* However many pull requests are open beside the page a run reads: only the holder
\* of the lock runs, and what a run has checked under the lock still holds when it acts.
THEOREM Safe == Spec => []SafeInv
<1>1. Init => SafeInv
  BY InitInv DEF IInv
<1> QED BY <1>1, NextSafe, PTL DEF Spec

\* Where the page has room, the invariant that only one is open holds too.
THEOREM SyncInductive == ASSUME Uncrowded PROVE Spec => []IInv
<1>1. IInv /\ [Next]_vars => IInv'
  BY NextSafe, NextSole DEF IInv
<1> QED BY InitInv, <1>1, PTL DEF Spec

\* Types are kept, whatever the graph, the processes and the lock.
THEOREM SyncTypes == Spec => []TypeOK
<1>1. SafeInv => TypeOK
  BY DEF SafeInv
<1> QED BY <1>1, Safe, PTL

\* At most one sync pull request is open.
THEOREM AtMostOneSyncPr == ASSUME Uncrowded PROVE Spec => []OneSyncPr
<1>1. IInv => OneSyncPr
  BY DEF IInv, SoleInv
<1> QED BY <1>1, SyncInductive, PTL

\* last-successful-sha is never ahead of Gitea.
THEOREM LastWasOffered == Spec => []LastOffered
<1>1. SafeInv => LastOffered
  BY DEF SafeInv
<1> QED BY <1>1, Safe, PTL

\* Only a step that creates a pull request changes what was offered, and by then
\* the ancestry of the last successful SHA has been checked under the lock.
THEOREM RewriteNeverOffered == Spec => OfferedExtendsLast
<1> DEFINE Extends == \A c \in offered' \ offered : last # None => last \in Contains[c]
<1>1. SafeInv /\ [Next]_vars => [Extends]_vars
  <2> SUFFICES ASSUME SafeInv, Next PROVE Extends
    OBVIOUS
  <2>1. ASSUME NEW p \in Proc, Create(p) \/ CreateLost(p) PROVE Extends
    BY <2>1 DEF Create, CreateLost, Created, SafeInv, PointInv
  <2>2. CASE offered' = offered
    BY <2>2
  <2>3. \/ offered' = offered
        \/ \E p \in Proc : Create(p) \/ CreateLost(p)
    BY DEF Next, World, Disturb, Advance, Acquire, FetchGithub, FetchGitea,
           AlreadyPresent, NotPresent, LsRemote, ExistingPr, ActivePr, NoActivePr,
           Defer, Push, PushRejected, Record, Clear, Refuse, Fail, Kill, PushLost,
           GithubMoves, Review, OtherPr, Squat, Reads
  <2> QED BY <2>1, <2>2, <2>3
<1> QED BY <1>1, Safe, PTL DEF Spec, OfferedExtendsLast

-----------------------------------------------------------------------------
\* What a run read of either main has changed, or the branch it found is deleted.
Overtaken(p) ==
  \/ github # my[p].sha
  \/ main # my[p].main
  \/ my[p].remote /\ branch[my[p].sha] = "absent"

\* The branch a run pushed itself is there when its pull request is created: only a
\* review deletes a branch, and then a pull request is open.
BranchInv ==
  \A p \in Proc :
    pc[p] = "create" /\ ~my[p].remote => branch[my[p].sha] # "absent"

LEMMA NextBranch == ASSUME IInv, BranchInv, [Next]_vars PROVE BranchInv'
<1> USE DEF IInv, SafeInv, TypeOK, BranchInv, gitea, files
<1>1. CASE UNCHANGED vars
  BY <1>1 DEF vars
<1>2. ASSUME NEW p \in Proc, Acquire(p) \/ Advance(p) PROVE BranchInv'
  <2> USE DEF Run, Reads, Goto, End, Blank
  <2>1. CASE Push(p)
    <3>1. my[p].sha \in Commit /\ \A q \in Proc : pc[q] # "idle" => q = p
      BY <2>1, NoneAssumption DEF Push, PointInv, LockInv
    <3> QED BY <2>1, <3>1 DEF Push
  <2>2. CASE NoActivePr(p)
    BY <2>2 DEF NoActivePr
  <2> QED
    BY <1>2, <2>1, <2>2
    DEF Acquire, Advance, FetchGithub, FetchGitea, AlreadyPresent, NotPresent, LsRemote,
        ExistingPr, ActivePr, Defer, PushRejected, Create, Record, Clear, Refuse
<1>3. ASSUME NEW p \in Proc, Disturb(p) PROVE BranchInv'
  BY <1>3 DEF PointInv, Disturb, Fail, Kill, PushLost, CreateLost, End, Blank
<1>4. ASSUME NEW c \in Commit, Review(c) PROVE BranchInv'
  BY <1>4 DEF Review, SoleInv
<1>5. CASE World
  BY <1>4, <1>5 DEF PointInv, World, GithubMoves, OtherPr, Squat
<1> QED BY <1>1, <1>2, <1>3, <1>5 DEF Next

\* A run that is not disturbed is refused only for one of the three reasons that wait
\* for a person, or because the world changed after the run had read it: nothing an
\* earlier run left behind, wherever it died, makes a later one give up.
THEOREM RefusedForReason ==
  ASSUME Uncrowded
  PROVE  Spec => [][\A p \in Proc :
                      Refuse(p) \/ PushRejected(p) => Reason \/ Overtaken(p)]_vars
<1> DEFINE A == \A p \in Proc : Refuse(p) \/ PushRejected(p) => Reason \/ Overtaken(p)
<1>1. Init => BranchInv
  BY DEF Init, BranchInv
<1>2. IInv /\ BranchInv => [A]_vars
  <2> SUFFICES ASSUME IInv, BranchInv, NEW p \in Proc, Refuse(p) \/ PushRejected(p),
                      github = my[p].sha, main = my[p].main
               PROVE  Reason \/ (my[p].remote /\ branch[my[p].sha] = "absent")
    BY DEF Overtaken
  <2>1. CASE PushRejected(p)
    BY <2>1 DEF PushRejected, Reason, Conflicting
  <2>2. CASE pc[p] = "check" /\ ~Linear(p)
    BY <2>2 DEF Linear, Reason, Rewritten, Unrelated
  <2>3. CASE pc[p] = "ls" /\ branch[my[p].sha] = "other"
    BY <2>3 DEF Reason, Conflicting
  <2>4. CASE pc[p] = "create" /\ ~CanCreate(p)
    BY <2>4 DEF CanCreate, BranchInv, IInv, SoleInv, SafeInv, TypeOK, Run
  <2> QED BY <2>1, <2>2, <2>3, <2>4 DEF Refuse, Blocked
<1> QED BY <1>1, <1>2, SyncInductive, NextBranch, PTL DEF Spec
===============================================================================
