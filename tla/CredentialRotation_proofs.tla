----------------------- MODULE CredentialRotation_proofs -----------------------
(***************************************************************************)
(* Proofs about CredentialRotation for every set of PATs, authorizations,  *)
(* scopes and operator processes and for every number of faults.  What is  *)
(* about SafeInv asks nothing of the VM.  What is about IInv needs one     *)
(* that is prompt: no revocation commits after the run that asked for it.  *)
(***************************************************************************)
EXTENDS CredentialRotationInv, TLAPS

\* The initial states satisfy the inductive invariant.
LEMMA InitIInv == Init => IInv
<1> SUFFICES ASSUME Init PROVE IInv
  OBVIOUS
<1> USE NoneAssumption, FaultsAssumption DEF Init, NoJournal
<1>0. LateInv /\ SurvivorInv
  BY DEF LateInv, SurvivorInv, Survivor
<1>1. TypeOK
  BY DEF TypeOK, Journal, Phases, Labels
<1>2. LockInv /\ NamesInv /\ PointInv /\ ProvenanceFirst /\ ReceiptInv
  BY DEF LockInv, NamesInv, PointInv, ProvenanceFirst, ReceiptInv
<1>3. MintInv
  BY DEF MintInv
<1>4. ShapeInv
  BY DEF ShapeInv, AbsentShape
<1> QED BY <1>0, <1>1, <1>2, <1>3, <1>4 DEF IInv, SafeInv

\* Every action keeps the types.
LEMMA NextTypeOK == ASSUME SafeInv, [Next]_vars PROVE TypeOK'
<1> USE NoneAssumption, FaultsAssumption DEF SafeInv, TypeOK, Journal, Phases,
        Labels, NamesInv, PointInv, files, records, gitea
<1>1. CASE UNCHANGED vars
  BY <1>1 DEF vars, control
<1>2. ASSUME NEW p \in Proc, NEW a \in Auth, Acquire(p, a) PROVE TypeOK'
  BY <1>2 DEF Acquire, control
<1>3. ASSUME NEW p \in Proc, LoadJournal(p) PROVE TypeOK'
  <2>1. CASE OpenFirst(p)
    BY <2>1 DEF OpenFirst, CanOpen, NewJournal, Fresh, Goto, control
  <2>2. CASE Resume(p)
    BY <2>2 DEF Resume, CanResume, Goto, control
  <2>3. CASE ArchiveCompleted(p)
    BY <2>3 DEF ArchiveCompleted, CanSucceed, Matches, Goto, control
  <2>4. CASE SweepCompleted(p)
    BY <2>4 DEF SweepCompleted, Goto, control
  <2>5. CASE OpenNext(p)
    BY <2>5 DEF OpenNext, NewJournal, Fresh, Matches, Goto, control
  <2> QED BY <1>3, <2>1, <2>2, <2>3, <2>4, <2>5 DEF LoadJournal
<1>4. ASSUME NEW p \in Proc, IssueCandidate(p) PROVE TypeOK'
  <2>1. CASE Isolate(p)
    BY <2>1 DEF Isolate, CanIsolate, Matches, Goto, control
  <2>2. CASE FoundIsolated(p)
    BY <2>2 DEF FoundIsolated, CanResumeIsolated, OldIntact, Matches, Goto,
        control
  <2>3. CASE RecordIsolated(p)
    BY <2>3 DEF RecordIsolated, Record, WritePhase, Goto, control
  <2>4. CASE RecordIssuing(p)
    BY <2>4 DEF RecordIssuing, OldIntact, Matches, WritePhase, Goto, control
  <2>5. CASE Generate(p)
    BY <2>5 DEF Generate, Called, Goto, control
  <2>6. CASE SaveCandidate(p)
    BY <2>6 DEF SaveCandidate, Goto, control
  <2>7. CASE AdoptCandidate(p)
    BY <2>7 DEF AdoptCandidate, Matches, Goto, control
  <2> QED BY <1>4, <2>1, <2>2, <2>3, <2>4, <2>5, <2>6, <2>7 DEF IssueCandidate
<1>5. ASSUME NEW p \in Proc, SwapTokens(p) PROVE TypeOK'
  <2>1. CASE Accept(p)
    BY <2>1 DEF Accept, CandidateAccepted, Matches, Record, WritePhase, Goto,
        control
  <2>2. CASE Reject(p)
    BY <2>2 DEF Reject, CandidateAccepted, Blame, Goto, control
  <2>3. CASE RevokeOld(p)
    BY <2>3 DEF RevokeOld, CanRevokeOld, CandidateAccepted, OldIntact,
        Matches, Goto, control
  <2>4. CASE RecordRevoked(p)
    BY <2>4 DEF RecordRevoked, Record, WritePhase, Goto, control
  <2>5. CASE WriteProvenance(p)
    BY <2>5 DEF WriteProvenance, CanPublish, OldRejected, Source, Matches,
        Goto, control
  <2>6. CASE Publish(p)
    BY <2>6 DEF Publish, Goto, control
  <2>7. CASE RecordPublished(p)
    BY <2>7 DEF RecordPublished, Record, WritePhase, Goto, control
  <2>8. CASE Complete(p)
    BY <2>8 DEF Complete, PublishedAccepted, Matches, OldRejected, WritePhase,
        Goto, control
  <2>9. CASE Withdraw(p)
    BY <2>9 DEF Withdraw, Blame, Goto, control
  <2>10. CASE RecordWithdrawn(p)
    BY <2>10 DEF RecordWithdrawn, WritePhase, Release, control
  <2>11. CASE Finish(p)
    BY <2>11 DEF Finish, Release, control
  <2>12. CASE AlreadyComplete(p)
    BY <2>12 DEF AlreadyComplete, CanConfirm, Matches, Release, control
  <2> QED BY <1>5, <2>1, <2>2, <2>3, <2>4, <2>5, <2>6, <2>7, <2>8, <2>9,
        <2>10, <2>11, <2>12 DEF SwapTokens
<1>6. ASSUME NEW p \in Proc, UndoCandidate(p) PROVE TypeOK'
  <2>1. CASE RevokeCandidate(p)
    BY <2>1 DEF RevokeCandidate, CanCompensate, Goto, control
  <2>2. CASE Restore(p)
    BY <2>2 DEF Restore, CanRestore, OldIntact, Matches, Goto, control
  <2>3. CASE RecordAborted(p)
    BY <2>3 DEF RecordAborted, WritePhase, Goto, control
  <2>4. CASE Discard(p)
    BY <2>4 DEF Discard, Release, control
  <2> QED BY <1>6, <2>1, <2>2, <2>3, <2>4 DEF UndoCandidate
<1>7. ASSUME NEW p \in Proc, Disturb(p) PROVE TypeOK'
  <2>1. CASE Fault(p)
    BY <2>1 DEF Fault, Blame, Release, control
  <2>2. CASE Expire(p)
    BY <2>2 DEF Expire, Blame, control
  <2>3. CASE GenerateUnknown(p)
    BY <2>3 DEF GenerateUnknown, Blame, Called, Release, control
  <2>4. CASE SaveFailed(p)
    BY <2>4 DEF SaveFailed, Blame, Goto, control
  <2>5. CASE RevokeOldUnknown(p)
    BY <2>5 DEF RevokeOldUnknown, Blame, CanRevokeOld, CandidateAccepted,
        OldIntact, Matches, Unanswered, Release, control
  <2>6. CASE RevokeCandidateUnknown(p)
    BY <2>6 DEF RevokeCandidateUnknown, Blame, CanCompensate, Unanswered,
        Release, control
  <2> QED BY <1>7, <2>1, <2>2, <2>3, <2>4, <2>5, <2>6 DEF Disturb
<1>8. ASSUME NEW p \in Proc, Refuse(p) PROVE TypeOK'
  BY <1>8 DEF Refuse, Release, control
<1>9. CASE LateRevocation
  BY <1>9 DEF LateRevocation, control
<1> QED BY <1>1, <1>2, <1>3, <1>4, <1>5, <1>6, <1>7, <1>8, <1>9 DEF Next, Advance

\* Only the holder of the flock runs, and past load() it runs its own journal.
LEMMA NextLockInv == ASSUME SafeInv, [Next]_vars PROVE LockInv'
<1> USE NoneAssumption, FaultsAssumption DEF SafeInv, TypeOK, LockInv, files,
        records, gitea
<1>1. CASE UNCHANGED vars
  BY <1>1 DEF vars, control
<1>2. ASSUME NEW p \in Proc, NEW a \in Auth, Acquire(p, a) PROVE LockInv'
  BY <1>2 DEF Acquire, control
<1>3. ASSUME NEW p \in Proc, LoadJournal(p) PROVE LockInv'
  <2>1. CASE OpenFirst(p)
    BY <2>1 DEF OpenFirst, CanOpen, NewJournal, Fresh, Goto, control
  <2>2. CASE Resume(p)
    BY <2>2 DEF Resume, CanResume, Goto, control
  <2>3. CASE ArchiveCompleted(p)
    BY <2>3 DEF ArchiveCompleted, CanSucceed, Matches, Goto, control
  <2>4. CASE SweepCompleted(p)
    BY <2>4 DEF SweepCompleted, Goto, control
  <2>5. CASE OpenNext(p)
    BY <2>5 DEF OpenNext, NewJournal, Fresh, Matches, Goto, control
  <2> QED BY <1>3, <2>1, <2>2, <2>3, <2>4, <2>5 DEF LoadJournal
<1>4. ASSUME NEW p \in Proc, IssueCandidate(p) PROVE LockInv'
  <2>1. CASE Isolate(p)
    BY <2>1 DEF Isolate, CanIsolate, Matches, Goto, control
  <2>2. CASE FoundIsolated(p)
    BY <2>2 DEF FoundIsolated, CanResumeIsolated, OldIntact, Matches, Goto,
        control
  <2>3. CASE RecordIsolated(p)
    BY <2>3 DEF RecordIsolated, Record, WritePhase, Goto, control
  <2>4. CASE RecordIssuing(p)
    BY <2>4 DEF RecordIssuing, OldIntact, Matches, WritePhase, Goto, control
  <2>5. CASE Generate(p)
    BY <2>5 DEF Generate, Called, Goto, control
  <2>6. CASE SaveCandidate(p)
    BY <2>6 DEF SaveCandidate, Goto, control
  <2>7. CASE AdoptCandidate(p)
    BY <2>7 DEF AdoptCandidate, Matches, Goto, control
  <2> QED BY <1>4, <2>1, <2>2, <2>3, <2>4, <2>5, <2>6, <2>7 DEF IssueCandidate
<1>5. ASSUME NEW p \in Proc, SwapTokens(p) PROVE LockInv'
  <2>1. CASE Accept(p)
    BY <2>1 DEF Accept, CandidateAccepted, Matches, Record, WritePhase, Goto,
        control
  <2>2. CASE Reject(p)
    BY <2>2 DEF Reject, CandidateAccepted, Blame, Goto, control
  <2>3. CASE RevokeOld(p)
    BY <2>3 DEF RevokeOld, CanRevokeOld, CandidateAccepted, OldIntact,
        Matches, Goto, control
  <2>4. CASE RecordRevoked(p)
    BY <2>4 DEF RecordRevoked, Record, WritePhase, Goto, control
  <2>5. CASE WriteProvenance(p)
    BY <2>5 DEF WriteProvenance, CanPublish, OldRejected, Source, Matches,
        Goto, control
  <2>6. CASE Publish(p)
    BY <2>6 DEF Publish, Goto, control
  <2>7. CASE RecordPublished(p)
    BY <2>7 DEF RecordPublished, Record, WritePhase, Goto, control
  <2>8. CASE Complete(p)
    BY <2>8 DEF Complete, PublishedAccepted, Matches, OldRejected, WritePhase,
        Goto, control
  <2>9. CASE Withdraw(p)
    BY <2>9 DEF Withdraw, Blame, Goto, control
  <2>10. CASE RecordWithdrawn(p)
    BY <2>10 DEF RecordWithdrawn, WritePhase, Release, control
  <2>11. CASE Finish(p)
    BY <2>11 DEF Finish, Release, control
  <2>12. CASE AlreadyComplete(p)
    BY <2>12 DEF AlreadyComplete, CanConfirm, Matches, Release, control
  <2> QED BY <1>5, <2>1, <2>2, <2>3, <2>4, <2>5, <2>6, <2>7, <2>8, <2>9,
        <2>10, <2>11, <2>12 DEF SwapTokens
<1>6. ASSUME NEW p \in Proc, UndoCandidate(p) PROVE LockInv'
  <2>1. CASE RevokeCandidate(p)
    BY <2>1 DEF RevokeCandidate, CanCompensate, Goto, control
  <2>2. CASE Restore(p)
    BY <2>2 DEF Restore, CanRestore, OldIntact, Matches, Goto, control
  <2>3. CASE RecordAborted(p)
    BY <2>3 DEF RecordAborted, WritePhase, Goto, control
  <2>4. CASE Discard(p)
    BY <2>4 DEF Discard, Release, control
  <2> QED BY <1>6, <2>1, <2>2, <2>3, <2>4 DEF UndoCandidate
<1>7. ASSUME NEW p \in Proc, Disturb(p) PROVE LockInv'
  <2>1. CASE Fault(p)
    BY <2>1 DEF Fault, Blame, Release, control
  <2>2. CASE Expire(p)
    BY <2>2 DEF Expire, Blame, control
  <2>3. CASE GenerateUnknown(p)
    BY <2>3 DEF GenerateUnknown, Blame, Called, Release, control
  <2>4. CASE SaveFailed(p)
    BY <2>4 DEF SaveFailed, Blame, Goto, control
  <2>5. CASE RevokeOldUnknown(p)
    BY <2>5 DEF RevokeOldUnknown, Blame, CanRevokeOld, CandidateAccepted,
        OldIntact, Matches, Unanswered, Release, control
  <2>6. CASE RevokeCandidateUnknown(p)
    BY <2>6 DEF RevokeCandidateUnknown, Blame, CanCompensate, Unanswered,
        Release, control
  <2> QED BY <1>7, <2>1, <2>2, <2>3, <2>4, <2>5, <2>6 DEF Disturb
<1>8. ASSUME NEW p \in Proc, Refuse(p) PROVE LockInv'
  BY <1>8 DEF Refuse, Release, control
<1>9. CASE LateRevocation
  BY <1>9 DEF LateRevocation, control
<1> QED BY <1>1, <1>2, <1>3, <1>4, <1>5, <1>6, <1>7, <1>8, <1>9 DEF Next, Advance

\* The journal names two different PATs: the new name is one never asked for.
LEMMA NextNamesInv == ASSUME SafeInv, [Next]_vars PROVE NamesInv'
<1> USE NoneAssumption, FaultsAssumption DEF SafeInv, TypeOK, Journal, LockInv,
        NamesInv, MintInv, PointInv, files, records, gitea
<1>1. CASE UNCHANGED vars
  BY <1>1 DEF vars, control
<1>2. ASSUME NEW p \in Proc, NEW a \in Auth, Acquire(p, a) PROVE NamesInv'
  BY <1>2 DEF Acquire, control
<1>3. ASSUME NEW p \in Proc, LoadJournal(p) PROVE NamesInv'
  <2>1. CASE OpenFirst(p)
    BY <2>1 DEF OpenFirst, CanOpen, NewJournal, Fresh, Goto, control
  <2>2. CASE Resume(p)
    BY <2>2 DEF Resume, CanResume, Goto, control
  <2>3. CASE ArchiveCompleted(p)
    BY <2>3 DEF ArchiveCompleted, CanSucceed, Matches, Goto, control
  <2>4. CASE SweepCompleted(p)
    BY <2>4 DEF SweepCompleted, Goto, control
  <2>5. CASE OpenNext(p)
    BY <2>5 DEF OpenNext, NewJournal, Fresh, Matches, Goto, control
  <2> QED BY <1>3, <2>1, <2>2, <2>3, <2>4, <2>5 DEF LoadJournal
<1>4. ASSUME NEW p \in Proc, IssueCandidate(p) PROVE NamesInv'
  <2>1. CASE Isolate(p)
    BY <2>1 DEF Isolate, CanIsolate, Matches, Goto, control
  <2>2. CASE FoundIsolated(p)
    BY <2>2 DEF FoundIsolated, CanResumeIsolated, OldIntact, Matches, Goto,
        control
  <2>3. CASE RecordIsolated(p)
    BY <2>3 DEF RecordIsolated, Record, WritePhase, Goto, control
  <2>4. CASE RecordIssuing(p)
    BY <2>4 DEF RecordIssuing, OldIntact, Matches, WritePhase, Goto, control
  <2>5. CASE Generate(p)
    BY <2>5 DEF Generate, Called, Goto, control
  <2>6. CASE SaveCandidate(p)
    BY <2>6 DEF SaveCandidate, Goto, control
  <2>7. CASE AdoptCandidate(p)
    BY <2>7 DEF AdoptCandidate, Matches, Goto, control
  <2> QED BY <1>4, <2>1, <2>2, <2>3, <2>4, <2>5, <2>6, <2>7 DEF IssueCandidate
<1>5. ASSUME NEW p \in Proc, SwapTokens(p) PROVE NamesInv'
  <2>1. CASE Accept(p)
    BY <2>1 DEF Accept, CandidateAccepted, Matches, Record, WritePhase, Goto,
        control
  <2>2. CASE Reject(p)
    BY <2>2 DEF Reject, CandidateAccepted, Blame, Goto, control
  <2>3. CASE RevokeOld(p)
    BY <2>3 DEF RevokeOld, CanRevokeOld, CandidateAccepted, OldIntact,
        Matches, Goto, control
  <2>4. CASE RecordRevoked(p)
    BY <2>4 DEF RecordRevoked, Record, WritePhase, Goto, control
  <2>5. CASE WriteProvenance(p)
    BY <2>5 DEF WriteProvenance, CanPublish, OldRejected, Source, Matches,
        Goto, control
  <2>6. CASE Publish(p)
    BY <2>6 DEF Publish, Goto, control
  <2>7. CASE RecordPublished(p)
    BY <2>7 DEF RecordPublished, Record, WritePhase, Goto, control
  <2>8. CASE Complete(p)
    BY <2>8 DEF Complete, PublishedAccepted, Matches, OldRejected, WritePhase,
        Goto, control
  <2>9. CASE Withdraw(p)
    BY <2>9 DEF Withdraw, Blame, Goto, control
  <2>10. CASE RecordWithdrawn(p)
    BY <2>10 DEF RecordWithdrawn, WritePhase, Release, control
  <2>11. CASE Finish(p)
    BY <2>11 DEF Finish, Release, control
  <2>12. CASE AlreadyComplete(p)
    BY <2>12 DEF AlreadyComplete, CanConfirm, Matches, Release, control
  <2> QED BY <1>5, <2>1, <2>2, <2>3, <2>4, <2>5, <2>6, <2>7, <2>8, <2>9,
        <2>10, <2>11, <2>12 DEF SwapTokens
<1>6. ASSUME NEW p \in Proc, UndoCandidate(p) PROVE NamesInv'
  <2>1. CASE RevokeCandidate(p)
    BY <2>1 DEF RevokeCandidate, CanCompensate, Goto, control
  <2>2. CASE Restore(p)
    BY <2>2 DEF Restore, CanRestore, OldIntact, Matches, Goto, control
  <2>3. CASE RecordAborted(p)
    BY <2>3 DEF RecordAborted, WritePhase, Goto, control
  <2>4. CASE Discard(p)
    BY <2>4 DEF Discard, Release, control
  <2> QED BY <1>6, <2>1, <2>2, <2>3, <2>4 DEF UndoCandidate
<1>7. ASSUME NEW p \in Proc, Disturb(p) PROVE NamesInv'
  <2>1. CASE Fault(p)
    BY <2>1 DEF Fault, Blame, Release, control
  <2>2. CASE Expire(p)
    BY <2>2 DEF Expire, Blame, control
  <2>3. CASE GenerateUnknown(p)
    BY <2>3 DEF GenerateUnknown, Blame, Called, Release, control
  <2>4. CASE SaveFailed(p)
    BY <2>4 DEF SaveFailed, Blame, Goto, control
  <2>5. CASE RevokeOldUnknown(p)
    BY <2>5 DEF RevokeOldUnknown, Blame, CanRevokeOld, CandidateAccepted,
        OldIntact, Matches, Unanswered, Release, control
  <2>6. CASE RevokeCandidateUnknown(p)
    BY <2>6 DEF RevokeCandidateUnknown, Blame, CanCompensate, Unanswered,
        Release, control
  <2> QED BY <1>7, <2>1, <2>2, <2>3, <2>4, <2>5, <2>6 DEF Disturb
<1>8. ASSUME NEW p \in Proc, Refuse(p) PROVE NamesInv'
  BY <1>8 DEF Refuse, Release, control
<1>9. CASE LateRevocation
  BY <1>9 DEF LateRevocation, control
<1> QED BY <1>1, <1>2, <1>3, <1>4, <1>5, <1>6, <1>7, <1>8, <1>9 DEF Next, Advance

\* No PAT is asked for twice: generate is entered only with an unused name.
LEMMA NextMintInv == ASSUME SafeInv, [Next]_vars PROVE MintInv'
<1> USE NoneAssumption, FaultsAssumption DEF SafeInv, TypeOK, Journal, NamesInv,
        MintInv, PointInv, LockInv, files, records, gitea
<1>1. CASE UNCHANGED vars
  BY <1>1 DEF vars, control
<1>2. ASSUME NEW p \in Proc, NEW a \in Auth, Acquire(p, a) PROVE MintInv'
  BY <1>2 DEF Acquire, control
<1>3. ASSUME NEW p \in Proc, LoadJournal(p) PROVE MintInv'
  <2>1. CASE OpenFirst(p)
    BY <2>1 DEF OpenFirst, CanOpen, NewJournal, Fresh, Goto, control
  <2>2. CASE Resume(p)
    BY <2>2 DEF Resume, CanResume, Goto, control
  <2>3. CASE ArchiveCompleted(p)
    BY <2>3 DEF ArchiveCompleted, CanSucceed, Matches, Goto, control
  <2>4. CASE SweepCompleted(p)
    BY <2>4 DEF SweepCompleted, Goto, control
  <2>5. CASE OpenNext(p)
    BY <2>5 DEF OpenNext, NewJournal, Fresh, Matches, Goto, control
  <2> QED BY <1>3, <2>1, <2>2, <2>3, <2>4, <2>5 DEF LoadJournal
<1>4. ASSUME NEW p \in Proc, IssueCandidate(p) PROVE MintInv'
  <2>1. CASE Isolate(p)
    BY <2>1 DEF Isolate, CanIsolate, Matches, Goto, control
  <2>2. CASE FoundIsolated(p)
    BY <2>2 DEF FoundIsolated, CanResumeIsolated, OldIntact, Matches, Goto,
        control
  <2>3. CASE RecordIsolated(p)
    BY <2>3 DEF RecordIsolated, Record, WritePhase, Goto, control
  <2>4. CASE RecordIssuing(p)
    BY <2>4 DEF RecordIssuing, OldIntact, Matches, WritePhase, Goto, control
  <2>5. CASE Generate(p)
    BY <2>5 DEF Generate, Called, Goto, control
  <2>6. CASE SaveCandidate(p)
    BY <2>6 DEF SaveCandidate, Goto, control
  <2>7. CASE AdoptCandidate(p)
    BY <2>7 DEF AdoptCandidate, Matches, Goto, control
  <2> QED BY <1>4, <2>1, <2>2, <2>3, <2>4, <2>5, <2>6, <2>7 DEF IssueCandidate
<1>5. ASSUME NEW p \in Proc, SwapTokens(p) PROVE MintInv'
  <2>1. CASE Accept(p)
    BY <2>1 DEF Accept, CandidateAccepted, Matches, Record, WritePhase, Goto,
        control
  <2>2. CASE Reject(p)
    BY <2>2 DEF Reject, CandidateAccepted, Blame, Goto, control
  <2>3. CASE RevokeOld(p)
    BY <2>3 DEF RevokeOld, CanRevokeOld, CandidateAccepted, OldIntact,
        Matches, Goto, control
  <2>4. CASE RecordRevoked(p)
    BY <2>4 DEF RecordRevoked, Record, WritePhase, Goto, control
  <2>5. CASE WriteProvenance(p)
    BY <2>5 DEF WriteProvenance, CanPublish, OldRejected, Source, Matches,
        Goto, control
  <2>6. CASE Publish(p)
    BY <2>6 DEF Publish, Goto, control
  <2>7. CASE RecordPublished(p)
    BY <2>7 DEF RecordPublished, Record, WritePhase, Goto, control
  <2>8. CASE Complete(p)
    BY <2>8 DEF Complete, PublishedAccepted, Matches, OldRejected, WritePhase,
        Goto, control
  <2>9. CASE Withdraw(p)
    BY <2>9 DEF Withdraw, Blame, Goto, control
  <2>10. CASE RecordWithdrawn(p)
    BY <2>10 DEF RecordWithdrawn, WritePhase, Release, control
  <2>11. CASE Finish(p)
    BY <2>11 DEF Finish, Release, control
  <2>12. CASE AlreadyComplete(p)
    BY <2>12 DEF AlreadyComplete, CanConfirm, Matches, Release, control
  <2> QED BY <1>5, <2>1, <2>2, <2>3, <2>4, <2>5, <2>6, <2>7, <2>8, <2>9,
        <2>10, <2>11, <2>12 DEF SwapTokens
<1>6. ASSUME NEW p \in Proc, UndoCandidate(p) PROVE MintInv'
  <2>1. CASE RevokeCandidate(p)
    BY <2>1 DEF RevokeCandidate, CanCompensate, Goto, control
  <2>2. CASE Restore(p)
    BY <2>2 DEF Restore, CanRestore, OldIntact, Matches, Goto, control
  <2>3. CASE RecordAborted(p)
    BY <2>3 DEF RecordAborted, WritePhase, Goto, control
  <2>4. CASE Discard(p)
    BY <2>4 DEF Discard, Release, control
  <2> QED BY <1>6, <2>1, <2>2, <2>3, <2>4 DEF UndoCandidate
<1>7. ASSUME NEW p \in Proc, Disturb(p) PROVE MintInv'
  <2>1. CASE Fault(p)
    BY <2>1 DEF Fault, Blame, Release, control
  <2>2. CASE Expire(p)
    BY <2>2 DEF Expire, Blame, control
  <2>3. CASE GenerateUnknown(p)
    BY <2>3 DEF GenerateUnknown, Blame, Called, Release, control
  <2>4. CASE SaveFailed(p)
    BY <2>4 DEF SaveFailed, Blame, Goto, control
  <2>5. CASE RevokeOldUnknown(p)
    BY <2>5 DEF RevokeOldUnknown, Blame, CanRevokeOld, CandidateAccepted,
        OldIntact, Matches, Unanswered, Release, control
  <2>6. CASE RevokeCandidateUnknown(p)
    BY <2>6 DEF RevokeCandidateUnknown, Blame, CanCompensate, Unanswered,
        Release, control
  <2> QED BY <1>7, <2>1, <2>2, <2>3, <2>4, <2>5, <2>6 DEF Disturb
<1>8. ASSUME NEW p \in Proc, Refuse(p) PROVE MintInv'
  BY <1>8 DEF Refuse, Release, control
<1>9. CASE LateRevocation
  BY <1>9 DEF LateRevocation, control
<1> QED BY <1>1, <1>2, <1>3, <1>4, <1>5, <1>6, <1>7, <1>8, <1>9 DEF Next, Advance

\* Every phase on disk keeps telling where the tokens are and which are live.
LEMMA NextShapeInv == ASSUME SafeInv, [Next]_vars PROVE ShapeInv'
<1> USE NoneAssumption, FaultsAssumption DEF SafeInv, TypeOK, Journal, Phases,
        NamesInv, MintInv, ShapeInv, PointInv, AbsentShape, ReadyShape,
        IsolatedShape, IssuingShape, CandidateShape, RevokingShape,
        RevokedShape, CompleteShape, AbortedShape, OldIsolated, OldInstalled,
        CandidateSaved, CandidateInstalled, files, records, gitea
<1>1. CASE UNCHANGED vars
  BY <1>1 DEF vars, control
<1>2. ASSUME NEW p \in Proc, NEW a \in Auth, Acquire(p, a) PROVE ShapeInv'
  BY <1>2 DEF Acquire, control
<1>3. ASSUME NEW p \in Proc, LoadJournal(p) PROVE ShapeInv'
  <2>1. CASE OpenFirst(p)
    BY <2>1 DEF OpenFirst, CanOpen, NewJournal, Fresh, Goto, control
  <2>2. CASE Resume(p)
    BY <2>2 DEF Resume, CanResume, Goto, control
  <2>3. CASE ArchiveCompleted(p)
    BY <2>3 DEF ArchiveCompleted, CanSucceed, Matches, Goto, control
  <2>4. CASE SweepCompleted(p)
    BY <2>4 DEF SweepCompleted, Goto, control
  <2>5. CASE OpenNext(p)
    BY <2>5 DEF OpenNext, NewJournal, Fresh, Matches, Goto, control
  <2> QED BY <1>3, <2>1, <2>2, <2>3, <2>4, <2>5 DEF LoadJournal
<1>4. ASSUME NEW p \in Proc, IssueCandidate(p) PROVE ShapeInv'
  <2>1. CASE Isolate(p)
    BY <2>1 DEF Isolate, CanIsolate, Matches, Goto, control
  <2>2. CASE FoundIsolated(p)
    BY <2>2 DEF FoundIsolated, CanResumeIsolated, OldIntact, Matches, Goto,
        control
  <2>3. CASE RecordIsolated(p)
    BY <2>3 DEF RecordIsolated, Record, WritePhase, Goto, control
  <2>4. CASE RecordIssuing(p)
    BY <2>4 DEF RecordIssuing, OldIntact, Matches, WritePhase, Goto, control
  <2>5. CASE Generate(p)
    BY <2>5 DEF Generate, Called, Goto, control
  <2>6. CASE SaveCandidate(p)
    BY <2>6 DEF SaveCandidate, Goto, control
  <2>7. CASE AdoptCandidate(p)
    BY <2>7 DEF AdoptCandidate, Matches, Goto, control
  <2> QED BY <1>4, <2>1, <2>2, <2>3, <2>4, <2>5, <2>6, <2>7 DEF IssueCandidate
<1>5. ASSUME NEW p \in Proc, SwapTokens(p) PROVE ShapeInv'
  <2>1. CASE Accept(p)
    BY <2>1 DEF Accept, CandidateAccepted, Matches, Record, WritePhase, Goto,
        control
  <2>2. CASE Reject(p)
    BY <2>2 DEF Reject, CandidateAccepted, Blame, Goto, control
  <2>3. CASE RevokeOld(p)
    BY <2>3 DEF RevokeOld, CanRevokeOld, CandidateAccepted, OldIntact,
        Matches, Goto, control
  <2>4. CASE RecordRevoked(p)
    BY <2>4 DEF RecordRevoked, Record, WritePhase, Goto, control
  <2>5. CASE WriteProvenance(p)
    BY <2>5 DEF WriteProvenance, CanPublish, OldRejected, Source, Matches,
        Goto, control
  <2>6. CASE Publish(p)
    BY <2>6 DEF Publish, Goto, control
  <2>7. CASE RecordPublished(p)
    BY <2>7 DEF RecordPublished, Record, WritePhase, Goto, control
  <2>8. CASE Complete(p)
    BY <2>8 DEF Complete, PublishedAccepted, Matches, OldRejected, WritePhase,
        Goto, control
  <2>9. CASE Withdraw(p)
    BY <2>9 DEF Withdraw, Blame, Goto, control
  <2>10. CASE RecordWithdrawn(p)
    BY <2>10 DEF RecordWithdrawn, WritePhase, Release, control
  <2>11. CASE Finish(p)
    BY <2>11 DEF Finish, Release, control
  <2>12. CASE AlreadyComplete(p)
    BY <2>12 DEF AlreadyComplete, CanConfirm, Matches, Release, control
  <2> QED BY <1>5, <2>1, <2>2, <2>3, <2>4, <2>5, <2>6, <2>7, <2>8, <2>9,
        <2>10, <2>11, <2>12 DEF SwapTokens
<1>6. ASSUME NEW p \in Proc, UndoCandidate(p) PROVE ShapeInv'
  <2>1. CASE RevokeCandidate(p)
    BY <2>1 DEF RevokeCandidate, CanCompensate, Goto, control
  <2>2. CASE Restore(p)
    BY <2>2 DEF Restore, CanRestore, OldIntact, Matches, Goto, control
  <2>3. CASE RecordAborted(p)
    BY <2>3 DEF RecordAborted, WritePhase, Goto, control
  <2>4. CASE Discard(p)
    BY <2>4 DEF Discard, Release, control
  <2> QED BY <1>6, <2>1, <2>2, <2>3, <2>4 DEF UndoCandidate
<1>7. ASSUME NEW p \in Proc, Disturb(p) PROVE ShapeInv'
  <2>1. CASE Fault(p)
    BY <2>1 DEF Fault, Blame, Release, control
  <2>2. CASE Expire(p)
    BY <2>2 DEF Expire, Blame, control
  <2>3. CASE GenerateUnknown(p)
    BY <2>3 DEF GenerateUnknown, Blame, Called, Release, control
  <2>4. CASE SaveFailed(p)
    BY <2>4 DEF SaveFailed, Blame, Goto, control
  <2>5. CASE RevokeOldUnknown(p)
    BY <2>5 DEF RevokeOldUnknown, Blame, CanRevokeOld, CandidateAccepted,
        OldIntact, Matches, Unanswered, Release, control
  <2>6. CASE RevokeCandidateUnknown(p)
    BY <2>6 DEF RevokeCandidateUnknown, Blame, CanCompensate, Unanswered,
        Release, control
  <2> QED BY <1>7, <2>1, <2>2, <2>3, <2>4, <2>5, <2>6 DEF Disturb
<1>8. ASSUME NEW p \in Proc, Refuse(p) PROVE ShapeInv'
  BY <1>8 DEF Refuse, Release, control
<1>9. CASE LateRevocation
  BY <1>9 DEF LateRevocation, control
<1> QED BY <1>1, <1>2, <1>3, <1>4, <1>5, <1>6, <1>7, <1>8, <1>9 DEF Next, Advance

\* Every program point keeps what the code relies on there.
LEMMA NextPointInv == ASSUME SafeInv, [Next]_vars PROVE PointInv'
<1> USE NoneAssumption, FaultsAssumption DEF SafeInv, TypeOK, Journal, Phases,
        LockInv, NamesInv, MintInv, ShapeInv, PointInv, AbsentShape,
        ReadyShape, IsolatedShape, IssuingShape, CandidateShape,
        RevokingShape, RevokedShape, CompleteShape, AbortedShape, OldIsolated,
        OldInstalled, CandidateSaved, CandidateInstalled, files, records,
        gitea
<1>1. CASE UNCHANGED vars
  BY <1>1 DEF vars, control
<1>2. ASSUME NEW p \in Proc, NEW a \in Auth, Acquire(p, a) PROVE PointInv'
  BY <1>2 DEF Acquire, control
<1>3. ASSUME NEW p \in Proc, LoadJournal(p) PROVE PointInv'
  <2>1. CASE OpenFirst(p)
    BY <2>1 DEF OpenFirst, CanOpen, NewJournal, Fresh, Goto, control
  <2>2. CASE Resume(p)
    BY <2>2 DEF Resume, CanResume, Goto, control
  <2>3. CASE ArchiveCompleted(p)
    BY <2>3 DEF ArchiveCompleted, CanSucceed, Matches, Goto, control
  <2>4. CASE SweepCompleted(p)
    BY <2>4 DEF SweepCompleted, Goto, control
  <2>5. CASE OpenNext(p)
    BY <2>5 DEF OpenNext, NewJournal, Fresh, Matches, Goto, control
  <2> QED BY <1>3, <2>1, <2>2, <2>3, <2>4, <2>5 DEF LoadJournal
<1>4. ASSUME NEW p \in Proc, IssueCandidate(p) PROVE PointInv'
  <2>1. CASE Isolate(p)
    BY <2>1 DEF Isolate, CanIsolate, Matches, Goto, control
  <2>2. CASE FoundIsolated(p)
    BY <2>2 DEF FoundIsolated, CanResumeIsolated, OldIntact, Matches, Goto,
        control
  <2>3. CASE RecordIsolated(p)
    BY <2>3 DEF RecordIsolated, Record, WritePhase, Goto, control
  <2>4. CASE RecordIssuing(p)
    BY <2>4 DEF RecordIssuing, OldIntact, Matches, WritePhase, Goto, control
  <2>5. CASE Generate(p)
    BY <2>5 DEF Generate, Called, Goto, control
  <2>6. CASE SaveCandidate(p)
    BY <2>6 DEF SaveCandidate, Goto, control
  <2>7. CASE AdoptCandidate(p)
    BY <2>7 DEF AdoptCandidate, Matches, Goto, control
  <2> QED BY <1>4, <2>1, <2>2, <2>3, <2>4, <2>5, <2>6, <2>7 DEF IssueCandidate
<1>5. ASSUME NEW p \in Proc, SwapTokens(p) PROVE PointInv'
  <2>1. CASE Accept(p)
    BY <2>1 DEF Accept, CandidateAccepted, Matches, Record, WritePhase, Goto,
        control
  <2>2. CASE Reject(p)
    BY <2>2 DEF Reject, CandidateAccepted, Blame, Goto, control
  <2>3. CASE RevokeOld(p)
    BY <2>3 DEF RevokeOld, CanRevokeOld, CandidateAccepted, OldIntact,
        Matches, Goto, control
  <2>4. CASE RecordRevoked(p)
    BY <2>4 DEF RecordRevoked, Record, WritePhase, Goto, control
  <2>5. CASE WriteProvenance(p)
    BY <2>5 DEF WriteProvenance, CanPublish, OldRejected, Source, Matches,
        Goto, control
  <2>6. CASE Publish(p)
    BY <2>6 DEF Publish, Goto, control
  <2>7. CASE RecordPublished(p)
    BY <2>7 DEF RecordPublished, Record, WritePhase, Goto, control
  <2>8. CASE Complete(p)
    BY <2>8 DEF Complete, PublishedAccepted, Matches, OldRejected, WritePhase,
        Goto, control
  <2>9. CASE Withdraw(p)
    BY <2>9 DEF Withdraw, Blame, Goto, control
  <2>10. CASE RecordWithdrawn(p)
    BY <2>10 DEF RecordWithdrawn, WritePhase, Release, control
  <2>11. CASE Finish(p)
    BY <2>11 DEF Finish, Release, control
  <2>12. CASE AlreadyComplete(p)
    BY <2>12 DEF AlreadyComplete, CanConfirm, Matches, Release, control
  <2> QED BY <1>5, <2>1, <2>2, <2>3, <2>4, <2>5, <2>6, <2>7, <2>8, <2>9,
        <2>10, <2>11, <2>12 DEF SwapTokens
<1>6. ASSUME NEW p \in Proc, UndoCandidate(p) PROVE PointInv'
  <2>1. CASE RevokeCandidate(p)
    BY <2>1 DEF RevokeCandidate, CanCompensate, Goto, control
  <2>2. CASE Restore(p)
    BY <2>2 DEF Restore, CanRestore, OldIntact, Matches, Goto, control
  <2>3. CASE RecordAborted(p)
    BY <2>3 DEF RecordAborted, WritePhase, Goto, control
  <2>4. CASE Discard(p)
    BY <2>4 DEF Discard, Release, control
  <2> QED BY <1>6, <2>1, <2>2, <2>3, <2>4 DEF UndoCandidate
<1>7. ASSUME NEW p \in Proc, Disturb(p) PROVE PointInv'
  <2>1. CASE Fault(p)
    BY <2>1 DEF Fault, Blame, Release, control
  <2>2. CASE Expire(p)
    BY <2>2 DEF Expire, Blame, control
  <2>3. CASE GenerateUnknown(p)
    BY <2>3 DEF GenerateUnknown, Blame, Called, Release, control
  <2>4. CASE SaveFailed(p)
    BY <2>4 DEF SaveFailed, Blame, Goto, control
  <2>5. CASE RevokeOldUnknown(p)
    BY <2>5 DEF RevokeOldUnknown, Blame, CanRevokeOld, CandidateAccepted,
        OldIntact, Matches, Unanswered, Release, control
  <2>6. CASE RevokeCandidateUnknown(p)
    BY <2>6 DEF RevokeCandidateUnknown, Blame, CanCompensate, Unanswered,
        Release, control
  <2> QED BY <1>7, <2>1, <2>2, <2>3, <2>4, <2>5, <2>6 DEF Disturb
<1>8. ASSUME NEW p \in Proc, Refuse(p) PROVE PointInv'
  BY <1>8 DEF Refuse, Release, control
<1>9. CASE LateRevocation
  BY <1>9 DEF LateRevocation, control
<1> QED BY <1>1, <1>2, <1>3, <1>4, <1>5, <1>6, <1>7, <1>8, <1>9 DEF Next, Advance

\* The provenance is written before the candidate is installed.
LEMMA NextProvenance == ASSUME SafeInv, [Next]_vars PROVE ProvenanceFirst'
<1> USE NoneAssumption, FaultsAssumption DEF SafeInv, TypeOK, NamesInv, MintInv,
        ShapeInv, PointInv, ProvenanceFirst, AbsentShape, ReadyShape,
        IsolatedShape, IssuingShape, CandidateShape, RevokingShape,
        RevokedShape, CompleteShape, AbortedShape, OldIsolated, OldInstalled,
        CandidateSaved, CandidateInstalled, files, records, gitea
<1>1. CASE UNCHANGED vars
  BY <1>1 DEF vars, control
<1>2. ASSUME NEW p \in Proc, NEW a \in Auth, Acquire(p, a) PROVE ProvenanceFirst'
  BY <1>2 DEF Acquire, control
<1>3. ASSUME NEW p \in Proc, LoadJournal(p) PROVE ProvenanceFirst'
  <2>1. CASE OpenFirst(p)
    BY <2>1 DEF OpenFirst, CanOpen, NewJournal, Fresh, Goto, control
  <2>2. CASE Resume(p)
    BY <2>2 DEF Resume, CanResume, Goto, control
  <2>3. CASE ArchiveCompleted(p)
    BY <2>3 DEF ArchiveCompleted, CanSucceed, Matches, Goto, control
  <2>4. CASE SweepCompleted(p)
    BY <2>4 DEF SweepCompleted, Goto, control
  <2>5. CASE OpenNext(p)
    BY <2>5 DEF OpenNext, NewJournal, Fresh, Matches, Goto, control
  <2> QED BY <1>3, <2>1, <2>2, <2>3, <2>4, <2>5 DEF LoadJournal
<1>4. ASSUME NEW p \in Proc, IssueCandidate(p) PROVE ProvenanceFirst'
  <2>1. CASE Isolate(p)
    BY <2>1 DEF Isolate, CanIsolate, Matches, Goto, control
  <2>2. CASE FoundIsolated(p)
    BY <2>2 DEF FoundIsolated, CanResumeIsolated, OldIntact, Matches, Goto,
        control
  <2>3. CASE RecordIsolated(p)
    BY <2>3 DEF RecordIsolated, Record, WritePhase, Goto, control
  <2>4. CASE RecordIssuing(p)
    BY <2>4 DEF RecordIssuing, OldIntact, Matches, WritePhase, Goto, control
  <2>5. CASE Generate(p)
    BY <2>5 DEF Generate, Called, Goto, control
  <2>6. CASE SaveCandidate(p)
    BY <2>6 DEF SaveCandidate, Goto, control
  <2>7. CASE AdoptCandidate(p)
    BY <2>7 DEF AdoptCandidate, Matches, Goto, control
  <2> QED BY <1>4, <2>1, <2>2, <2>3, <2>4, <2>5, <2>6, <2>7 DEF IssueCandidate
<1>5. ASSUME NEW p \in Proc, SwapTokens(p) PROVE ProvenanceFirst'
  <2>1. CASE Accept(p)
    BY <2>1 DEF Accept, CandidateAccepted, Matches, Record, WritePhase, Goto,
        control
  <2>2. CASE Reject(p)
    BY <2>2 DEF Reject, CandidateAccepted, Blame, Goto, control
  <2>3. CASE RevokeOld(p)
    BY <2>3 DEF RevokeOld, CanRevokeOld, CandidateAccepted, OldIntact,
        Matches, Goto, control
  <2>4. CASE RecordRevoked(p)
    BY <2>4 DEF RecordRevoked, Record, WritePhase, Goto, control
  <2>5. CASE WriteProvenance(p)
    BY <2>5 DEF WriteProvenance, CanPublish, OldRejected, Source, Matches,
        Goto, control
  <2>6. CASE Publish(p)
    BY <2>6 DEF Publish, Goto, control
  <2>7. CASE RecordPublished(p)
    BY <2>7 DEF RecordPublished, Record, WritePhase, Goto, control
  <2>8. CASE Complete(p)
    BY <2>8 DEF Complete, PublishedAccepted, Matches, OldRejected, WritePhase,
        Goto, control
  <2>9. CASE Withdraw(p)
    BY <2>9 DEF Withdraw, Blame, Goto, control
  <2>10. CASE RecordWithdrawn(p)
    BY <2>10 DEF RecordWithdrawn, WritePhase, Release, control
  <2>11. CASE Finish(p)
    BY <2>11 DEF Finish, Release, control
  <2>12. CASE AlreadyComplete(p)
    BY <2>12 DEF AlreadyComplete, CanConfirm, Matches, Release, control
  <2> QED BY <1>5, <2>1, <2>2, <2>3, <2>4, <2>5, <2>6, <2>7, <2>8, <2>9,
        <2>10, <2>11, <2>12 DEF SwapTokens
<1>6. ASSUME NEW p \in Proc, UndoCandidate(p) PROVE ProvenanceFirst'
  <2>1. CASE RevokeCandidate(p)
    BY <2>1 DEF RevokeCandidate, CanCompensate, Goto, control
  <2>2. CASE Restore(p)
    BY <2>2 DEF Restore, CanRestore, OldIntact, Matches, Goto, control
  <2>3. CASE RecordAborted(p)
    BY <2>3 DEF RecordAborted, WritePhase, Goto, control
  <2>4. CASE Discard(p)
    BY <2>4 DEF Discard, Release, control
  <2> QED BY <1>6, <2>1, <2>2, <2>3, <2>4 DEF UndoCandidate
<1>7. ASSUME NEW p \in Proc, Disturb(p) PROVE ProvenanceFirst'
  <2>1. CASE Fault(p)
    BY <2>1 DEF Fault, Blame, Release, control
  <2>2. CASE Expire(p)
    BY <2>2 DEF Expire, Blame, control
  <2>3. CASE GenerateUnknown(p)
    BY <2>3 DEF GenerateUnknown, Blame, Called, Release, control
  <2>4. CASE SaveFailed(p)
    BY <2>4 DEF SaveFailed, Blame, Goto, control
  <2>5. CASE RevokeOldUnknown(p)
    BY <2>5 DEF RevokeOldUnknown, Blame, CanRevokeOld, CandidateAccepted,
        OldIntact, Matches, Unanswered, Release, control
  <2>6. CASE RevokeCandidateUnknown(p)
    BY <2>6 DEF RevokeCandidateUnknown, Blame, CanCompensate, Unanswered,
        Release, control
  <2> QED BY <1>7, <2>1, <2>2, <2>3, <2>4, <2>5, <2>6 DEF Disturb
<1>8. ASSUME NEW p \in Proc, Refuse(p) PROVE ProvenanceFirst'
  BY <1>8 DEF Refuse, Release, control
<1>9. CASE LateRevocation
  BY <1>9 DEF LateRevocation, control
<1> QED BY <1>1, <1>2, <1>3, <1>4, <1>5, <1>6, <1>7, <1>8, <1>9 DEF Next, Advance

\* A receipt is returned only by a run that leaves a finished rotation behind.
LEMMA NextReceiptInv == ASSUME SafeInv, [Next]_vars PROVE ReceiptInv'
<1> USE NoneAssumption, FaultsAssumption DEF SafeInv, TypeOK, LockInv, PointInv,
        ReceiptInv, files, records, gitea
<1>1. CASE UNCHANGED vars
  BY <1>1 DEF vars, control
<1>2. ASSUME NEW p \in Proc, NEW a \in Auth, Acquire(p, a) PROVE ReceiptInv'
  BY <1>2 DEF Acquire, control
<1>3. ASSUME NEW p \in Proc, LoadJournal(p) PROVE ReceiptInv'
  <2>1. CASE OpenFirst(p)
    BY <2>1 DEF OpenFirst, CanOpen, NewJournal, Fresh, Goto, control
  <2>2. CASE Resume(p)
    BY <2>2 DEF Resume, CanResume, Goto, control
  <2>3. CASE ArchiveCompleted(p)
    BY <2>3 DEF ArchiveCompleted, CanSucceed, Matches, Goto, control
  <2>4. CASE SweepCompleted(p)
    BY <2>4 DEF SweepCompleted, Goto, control
  <2>5. CASE OpenNext(p)
    BY <2>5 DEF OpenNext, NewJournal, Fresh, Matches, Goto, control
  <2> QED BY <1>3, <2>1, <2>2, <2>3, <2>4, <2>5 DEF LoadJournal
<1>4. ASSUME NEW p \in Proc, IssueCandidate(p) PROVE ReceiptInv'
  <2>1. CASE Isolate(p)
    BY <2>1 DEF Isolate, CanIsolate, Matches, Goto, control
  <2>2. CASE FoundIsolated(p)
    BY <2>2 DEF FoundIsolated, CanResumeIsolated, OldIntact, Matches, Goto,
        control
  <2>3. CASE RecordIsolated(p)
    BY <2>3 DEF RecordIsolated, Record, WritePhase, Goto, control
  <2>4. CASE RecordIssuing(p)
    BY <2>4 DEF RecordIssuing, OldIntact, Matches, WritePhase, Goto, control
  <2>5. CASE Generate(p)
    BY <2>5 DEF Generate, Called, Goto, control
  <2>6. CASE SaveCandidate(p)
    BY <2>6 DEF SaveCandidate, Goto, control
  <2>7. CASE AdoptCandidate(p)
    BY <2>7 DEF AdoptCandidate, Matches, Goto, control
  <2> QED BY <1>4, <2>1, <2>2, <2>3, <2>4, <2>5, <2>6, <2>7 DEF IssueCandidate
<1>5. ASSUME NEW p \in Proc, SwapTokens(p) PROVE ReceiptInv'
  <2>1. CASE Accept(p)
    BY <2>1 DEF Accept, CandidateAccepted, Matches, Record, WritePhase, Goto,
        control
  <2>2. CASE Reject(p)
    BY <2>2 DEF Reject, CandidateAccepted, Blame, Goto, control
  <2>3. CASE RevokeOld(p)
    BY <2>3 DEF RevokeOld, CanRevokeOld, CandidateAccepted, OldIntact,
        Matches, Goto, control
  <2>4. CASE RecordRevoked(p)
    BY <2>4 DEF RecordRevoked, Record, WritePhase, Goto, control
  <2>5. CASE WriteProvenance(p)
    BY <2>5 DEF WriteProvenance, CanPublish, OldRejected, Source, Matches,
        Goto, control
  <2>6. CASE Publish(p)
    BY <2>6 DEF Publish, Goto, control
  <2>7. CASE RecordPublished(p)
    BY <2>7 DEF RecordPublished, Record, WritePhase, Goto, control
  <2>8. CASE Complete(p)
    BY <2>8 DEF Complete, PublishedAccepted, Matches, OldRejected, WritePhase,
        Goto, control
  <2>9. CASE Withdraw(p)
    BY <2>9 DEF Withdraw, Blame, Goto, control
  <2>10. CASE RecordWithdrawn(p)
    BY <2>10 DEF RecordWithdrawn, WritePhase, Release, control
  <2>11. CASE Finish(p)
    BY <2>11 DEF Finish, Release, control
  <2>12. CASE AlreadyComplete(p)
    BY <2>12 DEF AlreadyComplete, CanConfirm, Matches, Release, control
  <2> QED BY <1>5, <2>1, <2>2, <2>3, <2>4, <2>5, <2>6, <2>7, <2>8, <2>9,
        <2>10, <2>11, <2>12 DEF SwapTokens
<1>6. ASSUME NEW p \in Proc, UndoCandidate(p) PROVE ReceiptInv'
  <2>1. CASE RevokeCandidate(p)
    BY <2>1 DEF RevokeCandidate, CanCompensate, Goto, control
  <2>2. CASE Restore(p)
    BY <2>2 DEF Restore, CanRestore, OldIntact, Matches, Goto, control
  <2>3. CASE RecordAborted(p)
    BY <2>3 DEF RecordAborted, WritePhase, Goto, control
  <2>4. CASE Discard(p)
    BY <2>4 DEF Discard, Release, control
  <2> QED BY <1>6, <2>1, <2>2, <2>3, <2>4 DEF UndoCandidate
<1>7. ASSUME NEW p \in Proc, Disturb(p) PROVE ReceiptInv'
  <2>1. CASE Fault(p)
    BY <2>1 DEF Fault, Blame, Release, control
  <2>2. CASE Expire(p)
    BY <2>2 DEF Expire, Blame, control
  <2>3. CASE GenerateUnknown(p)
    BY <2>3 DEF GenerateUnknown, Blame, Called, Release, control
  <2>4. CASE SaveFailed(p)
    BY <2>4 DEF SaveFailed, Blame, Goto, control
  <2>5. CASE RevokeOldUnknown(p)
    BY <2>5 DEF RevokeOldUnknown, Blame, CanRevokeOld, CandidateAccepted,
        OldIntact, Matches, Unanswered, Release, control
  <2>6. CASE RevokeCandidateUnknown(p)
    BY <2>6 DEF RevokeCandidateUnknown, Blame, CanCompensate, Unanswered,
        Release, control
  <2> QED BY <1>7, <2>1, <2>2, <2>3, <2>4, <2>5, <2>6 DEF Disturb
<1>8. ASSUME NEW p \in Proc, Refuse(p) PROVE ReceiptInv'
  BY <1>8 DEF Refuse, Release, control
<1>9. CASE LateRevocation
  BY <1>9 DEF LateRevocation, control
<1> QED BY <1>1, <1>2, <1>3, <1>4, <1>5, <1>6, <1>7, <1>8, <1>9 DEF Next, Advance

-----------------------------------------------------------------------------
(***************************************************************************)
(* Whatever the VM does.                                                   *)
(***************************************************************************)
\* THEOREM: in every behaviour the phase on disk and the program point of the
\* running process determine where the raw tokens are and which PATs can be live.
THEOREM Safe == Spec => []SafeInv
<1>1. Init => SafeInv BY InitIInv DEF IInv
<1>2. SafeInv /\ [Next]_vars => SafeInv'
  BY NextTypeOK, NextLockInv, NextNamesInv, NextMintInv, NextShapeInv,
     NextPointInv, NextProvenance, NextReceiptInv DEF SafeInv
<1> QED BY <1>1, <1>2, PTL DEF Spec

\* THEOREM: the types are kept.
THEOREM TypeCorrect == Spec => []TypeOK
BY Safe, PTL DEF SafeInv

\* THEOREM: while a PAT is installed Gitea accepts no other one, even when it is
\* deleted late itself.
THEOREM OtherNever == Spec => []NoOtherPat
<1>1. SafeInv => NoOtherPat
  BY NoneAssumption
     DEF SafeInv, TypeOK, Journal, Phases, NamesInv, ShapeInv, AbsentShape, ReadyShape,
         IsolatedShape, IssuingShape, CandidateShape, RevokingShape, RevokedShape,
         CompleteShape, AbortedShape, OldIsolated, OldInstalled, CandidateSaved,
         CandidateInstalled, NoOtherPat
<1> QED BY <1>1, Safe, PTL

\* THEOREM: no live PAT is ever outside the store, but the one being issued.
THEOREM ForgottenNever == Spec => []NoForgottenPat
<1>1. SafeInv => NoForgottenPat
  BY NoneAssumption
     DEF SafeInv, TypeOK, Journal, Phases, NamesInv, ShapeInv, AbsentShape, ReadyShape,
         IsolatedShape, IssuingShape, CandidateShape, RevokingShape, RevokedShape,
         CompleteShape, AbortedShape, OldIsolated, OldInstalled, CandidateSaved,
         CandidateInstalled, NoForgottenPat, Held
<1> QED BY <1>1, Safe, PTL

\* THEOREM: no PAT name is asked of Gitea twice.
THEOREM IssuedAtMostOnce == Spec => []IssuedOnce
<1>1. SafeInv => IssuedOnce
  BY DEF SafeInv, MintInv, IssuedOnce
<1> QED BY <1>1, Safe, PTL

\* THEOREM: provenance.json precedes the candidate it speaks of.
THEOREM ProvenanceBeforePublication == Spec => []ProvenanceFirst
BY Safe, PTL DEF SafeInv

-----------------------------------------------------------------------------
(***************************************************************************)
(* A VM that is prompt.                                                    *)
(***************************************************************************)
\* A prompt VM leaves no revocation behind.
LEMMA NextLateInv == ASSUME Prompt, IInv, [Next]_vars PROVE LateInv'
<1> USE NoneAssumption, FaultsAssumption DEF IInv, LateInv, files, records,
        gitea
<1>1. CASE UNCHANGED vars
  BY <1>1 DEF vars, control
<1>2. ASSUME NEW p \in Proc, NEW a \in Auth, Acquire(p, a) PROVE LateInv'
  BY <1>2 DEF Acquire, control
<1>3. ASSUME NEW p \in Proc, LoadJournal(p) PROVE LateInv'
  <2>1. CASE OpenFirst(p)
    BY <2>1 DEF OpenFirst, CanOpen, NewJournal, Fresh, Goto, control
  <2>2. CASE Resume(p)
    BY <2>2 DEF Resume, CanResume, Goto, control
  <2>3. CASE ArchiveCompleted(p)
    BY <2>3 DEF ArchiveCompleted, CanSucceed, Matches, Goto, control
  <2>4. CASE SweepCompleted(p)
    BY <2>4 DEF SweepCompleted, Goto, control
  <2>5. CASE OpenNext(p)
    BY <2>5 DEF OpenNext, NewJournal, Fresh, Matches, Goto, control
  <2> QED BY <1>3, <2>1, <2>2, <2>3, <2>4, <2>5 DEF LoadJournal
<1>4. ASSUME NEW p \in Proc, IssueCandidate(p) PROVE LateInv'
  <2>1. CASE Isolate(p)
    BY <2>1 DEF Isolate, CanIsolate, Matches, Goto, control
  <2>2. CASE FoundIsolated(p)
    BY <2>2 DEF FoundIsolated, CanResumeIsolated, OldIntact, Matches, Goto,
        control
  <2>3. CASE RecordIsolated(p)
    BY <2>3 DEF RecordIsolated, Record, WritePhase, Goto, control
  <2>4. CASE RecordIssuing(p)
    BY <2>4 DEF RecordIssuing, OldIntact, Matches, WritePhase, Goto, control
  <2>5. CASE Generate(p)
    BY <2>5 DEF Generate, Called, Goto, control
  <2>6. CASE SaveCandidate(p)
    BY <2>6 DEF SaveCandidate, Goto, control
  <2>7. CASE AdoptCandidate(p)
    BY <2>7 DEF AdoptCandidate, Matches, Goto, control
  <2> QED BY <1>4, <2>1, <2>2, <2>3, <2>4, <2>5, <2>6, <2>7 DEF IssueCandidate
<1>5. ASSUME NEW p \in Proc, SwapTokens(p) PROVE LateInv'
  <2>1. CASE Accept(p)
    BY <2>1 DEF Accept, CandidateAccepted, Matches, Record, WritePhase, Goto,
        control
  <2>2. CASE Reject(p)
    BY <2>2 DEF Reject, CandidateAccepted, Blame, Goto, control
  <2>3. CASE RevokeOld(p)
    BY <2>3 DEF RevokeOld, CanRevokeOld, CandidateAccepted, OldIntact,
        Matches, Goto, control
  <2>4. CASE RecordRevoked(p)
    BY <2>4 DEF RecordRevoked, Record, WritePhase, Goto, control
  <2>5. CASE WriteProvenance(p)
    BY <2>5 DEF WriteProvenance, CanPublish, OldRejected, Source, Matches,
        Goto, control
  <2>6. CASE Publish(p)
    BY <2>6 DEF Publish, Goto, control
  <2>7. CASE RecordPublished(p)
    BY <2>7 DEF RecordPublished, Record, WritePhase, Goto, control
  <2>8. CASE Complete(p)
    BY <2>8 DEF Complete, PublishedAccepted, Matches, OldRejected, WritePhase,
        Goto, control
  <2>9. CASE Withdraw(p)
    BY <2>9 DEF Withdraw, Blame, Goto, control
  <2>10. CASE RecordWithdrawn(p)
    BY <2>10 DEF RecordWithdrawn, WritePhase, Release, control
  <2>11. CASE Finish(p)
    BY <2>11 DEF Finish, Release, control
  <2>12. CASE AlreadyComplete(p)
    BY <2>12 DEF AlreadyComplete, CanConfirm, Matches, Release, control
  <2> QED BY <1>5, <2>1, <2>2, <2>3, <2>4, <2>5, <2>6, <2>7, <2>8, <2>9,
        <2>10, <2>11, <2>12 DEF SwapTokens
<1>6. ASSUME NEW p \in Proc, UndoCandidate(p) PROVE LateInv'
  <2>1. CASE RevokeCandidate(p)
    BY <2>1 DEF RevokeCandidate, CanCompensate, Goto, control
  <2>2. CASE Restore(p)
    BY <2>2 DEF Restore, CanRestore, OldIntact, Matches, Goto, control
  <2>3. CASE RecordAborted(p)
    BY <2>3 DEF RecordAborted, WritePhase, Goto, control
  <2>4. CASE Discard(p)
    BY <2>4 DEF Discard, Release, control
  <2> QED BY <1>6, <2>1, <2>2, <2>3, <2>4 DEF UndoCandidate
<1>7. ASSUME NEW p \in Proc, Disturb(p) PROVE LateInv'
  <2>1. CASE Fault(p)
    BY <2>1 DEF Fault, Blame, Release, control
  <2>2. CASE Expire(p)
    BY <2>2 DEF Expire, Blame, control
  <2>3. CASE GenerateUnknown(p)
    BY <2>3 DEF GenerateUnknown, Blame, Called, Release, control
  <2>4. CASE SaveFailed(p)
    BY <2>4 DEF SaveFailed, Blame, Goto, control
  <2>5. CASE RevokeOldUnknown(p)
    BY <2>5 DEF RevokeOldUnknown, Blame, CanRevokeOld, CandidateAccepted,
        OldIntact, Matches, Unanswered, Release, control
  <2>6. CASE RevokeCandidateUnknown(p)
    BY <2>6 DEF RevokeCandidateUnknown, Blame, CanCompensate, Unanswered,
        Release, control
  <2> QED BY <1>7, <2>1, <2>2, <2>3, <2>4, <2>5, <2>6 DEF Disturb
<1>8. ASSUME NEW p \in Proc, Refuse(p) PROVE LateInv'
  BY <1>8 DEF Refuse, Release, control
<1>9. CASE LateRevocation
  BY <1>9 DEF LateRevocation
<1> QED BY <1>1, <1>2, <1>3, <1>4, <1>5, <1>6, <1>7, <1>8, <1>9 DEF Next, Advance

\* A prompt VM leaves the PAT that works alone.
LEMMA NextSurvivorInv == ASSUME Prompt, IInv, [Next]_vars PROVE SurvivorInv'
<1> USE NoneAssumption, FaultsAssumption
    DEF IInv, SafeInv, SurvivorInv, Survivor, TypeOK, Journal, Phases, LockInv, NamesInv,
        MintInv, ShapeInv, PointInv, AbsentShape, ReadyShape, IsolatedShape,
        IssuingShape, CandidateShape, RevokingShape, RevokedShape, CompleteShape,
        AbortedShape, OldIsolated, OldInstalled, CandidateSaved, CandidateInstalled,
        files, records, gitea
<1>1. CASE UNCHANGED vars
  BY <1>1 DEF vars, control
<1>2. ASSUME NEW p \in Proc, NEW a \in Auth, Acquire(p, a) PROVE SurvivorInv'
  BY <1>2 DEF Acquire, control
<1>3. ASSUME NEW p \in Proc, LoadJournal(p) PROVE SurvivorInv'
  <2>1. CASE OpenFirst(p)
    BY <2>1 DEF OpenFirst, CanOpen, NewJournal, Fresh, Goto, control
  <2>2. CASE Resume(p)
    BY <2>2 DEF Resume, CanResume, Goto, control
  <2>3. CASE ArchiveCompleted(p)
    BY <2>3 DEF ArchiveCompleted, CanSucceed, Matches, Goto, control
  <2>4. CASE SweepCompleted(p)
    BY <2>4 DEF SweepCompleted, Goto, control
  <2>5. CASE OpenNext(p)
    BY <2>5 DEF OpenNext, NewJournal, Fresh, Matches, Goto, control
  <2> QED BY <1>3, <2>1, <2>2, <2>3, <2>4, <2>5 DEF LoadJournal
<1>4. ASSUME NEW p \in Proc, IssueCandidate(p) PROVE SurvivorInv'
  <2>1. CASE Isolate(p)
    BY <2>1 DEF Isolate, CanIsolate, Matches, Goto, control
  <2>2. CASE FoundIsolated(p)
    BY <2>2 DEF FoundIsolated, CanResumeIsolated, OldIntact, Matches, Goto,
        control
  <2>3. CASE RecordIsolated(p)
    BY <2>3 DEF RecordIsolated, Record, WritePhase, Goto, control
  <2>4. CASE RecordIssuing(p)
    BY <2>4 DEF RecordIssuing, OldIntact, Matches, WritePhase, Goto, control
  <2>5. CASE Generate(p)
    BY <2>5 DEF Generate, Called, Goto, control
  <2>6. CASE SaveCandidate(p)
    BY <2>6 DEF SaveCandidate, Goto, control
  <2>7. CASE AdoptCandidate(p)
    BY <2>7 DEF AdoptCandidate, Matches, Goto, control
  <2> QED BY <1>4, <2>1, <2>2, <2>3, <2>4, <2>5, <2>6, <2>7 DEF IssueCandidate
<1>5. ASSUME NEW p \in Proc, SwapTokens(p) PROVE SurvivorInv'
  <2>1. CASE Accept(p)
    BY <2>1 DEF Accept, CandidateAccepted, Matches, Record, WritePhase, Goto,
        control
  <2>2. CASE Reject(p)
    BY <2>2 DEF Reject, CandidateAccepted, Blame, Goto, control
  <2>3. CASE RevokeOld(p)
    BY <2>3 DEF RevokeOld, CanRevokeOld, CandidateAccepted, OldIntact,
        Matches, Goto, control
  <2>4. CASE RecordRevoked(p)
    BY <2>4 DEF RecordRevoked, Record, WritePhase, Goto, control
  <2>5. CASE WriteProvenance(p)
    BY <2>5 DEF WriteProvenance, CanPublish, OldRejected, Source, Matches,
        Goto, control
  <2>6. CASE Publish(p)
    BY <2>6 DEF Publish, Goto, control
  <2>7. CASE RecordPublished(p)
    BY <2>7 DEF RecordPublished, Record, WritePhase, Goto, control
  <2>8. CASE Complete(p)
    BY <2>8 DEF Complete, PublishedAccepted, Matches, OldRejected, WritePhase,
        Goto, control
  <2>9. CASE Withdraw(p)
    BY <2>9 DEF Withdraw, Blame, Goto, control
  <2>10. CASE RecordWithdrawn(p)
    BY <2>10 DEF RecordWithdrawn, WritePhase, Release, control
  <2>11. CASE Finish(p)
    BY <2>11 DEF Finish, Release, control
  <2>12. CASE AlreadyComplete(p)
    BY <2>12 DEF AlreadyComplete, CanConfirm, Matches, Release, control
  <2> QED BY <1>5, <2>1, <2>2, <2>3, <2>4, <2>5, <2>6, <2>7, <2>8, <2>9,
        <2>10, <2>11, <2>12 DEF SwapTokens
<1>6. ASSUME NEW p \in Proc, UndoCandidate(p) PROVE SurvivorInv'
  <2>1. CASE RevokeCandidate(p)
    BY <2>1 DEF RevokeCandidate, CanCompensate, Goto, control
  <2>2. CASE Restore(p)
    BY <2>2 DEF Restore, CanRestore, OldIntact, Matches, Goto, control
  <2>3. CASE RecordAborted(p)
    BY <2>3 DEF RecordAborted, WritePhase, Goto, control
  <2>4. CASE Discard(p)
    BY <2>4 DEF Discard, Release, control
  <2> QED BY <1>6, <2>1, <2>2, <2>3, <2>4 DEF UndoCandidate
<1>7. ASSUME NEW p \in Proc, Disturb(p) PROVE SurvivorInv'
  <2>1. CASE Fault(p)
    BY <2>1 DEF Fault, Blame, Release, control
  <2>2. CASE Expire(p)
    BY <2>2 DEF Expire, Blame, control
  <2>3. CASE GenerateUnknown(p)
    BY <2>3 DEF GenerateUnknown, Blame, Called, Release, control
  <2>4. CASE SaveFailed(p)
    BY <2>4 DEF SaveFailed, Blame, Goto, control
  <2>5. CASE RevokeOldUnknown(p)
    BY <2>5 DEF RevokeOldUnknown, Blame, CanRevokeOld, CandidateAccepted,
        OldIntact, Matches, Unanswered, Release, control
  <2>6. CASE RevokeCandidateUnknown(p)
    BY <2>6 DEF RevokeCandidateUnknown, Blame, CanCompensate, Unanswered,
        Release, control
  <2> QED BY <1>7, <2>1, <2>2, <2>3, <2>4, <2>5, <2>6 DEF Disturb
<1>8. ASSUME NEW p \in Proc, Refuse(p) PROVE SurvivorInv'
  BY <1>8 DEF Refuse, Release, control
<1>9. CASE LateRevocation
  BY <1>9 DEF LateRevocation, LateInv
<1> QED BY <1>1, <1>2, <1>3, <1>4, <1>5, <1>6, <1>7, <1>8, <1>9 DEF Next, Advance

\* THEOREM: in every behaviour there is a PAT that works.
THEOREM Inductive ==
  ASSUME Prompt PROVE Spec => []IInv
<1>1. IInv /\ [Next]_vars => IInv'
  BY NextTypeOK, NextLockInv, NextNamesInv, NextMintInv, NextShapeInv,
     NextPointInv, NextProvenance, NextReceiptInv, NextLateInv, NextSurvivorInv
     DEF IInv, SafeInv
<1> QED BY InitIInv, <1>1, PTL DEF Spec

\* THEOREM: whatever crashes, an installed PAT is the only one Gitea accepts.
THEOREM SoleLive ==
  ASSUME Prompt PROVE Spec => []SoleLivePat
<1>1. IInv => SoleLivePat
  BY NoneAssumption
     DEF IInv, SafeInv, SurvivorInv, Survivor, TypeOK, Journal, Phases, NamesInv, ShapeInv,
         AbsentShape, ReadyShape, IsolatedShape, IssuingShape, CandidateShape,
         RevokingShape, RevokedShape, CompleteShape, AbortedShape, OldIsolated,
         OldInstalled, CandidateSaved, CandidateInstalled, SoleLivePat
<1> QED BY <1>1, Inductive, PTL

\* THEOREM: whatever crashes, the store holds a PAT that Gitea accepts.
THEOREM LockedOutNever ==
  ASSUME Prompt PROVE Spec => []NeverLockedOut
<1>1. IInv => NeverLockedOut
  BY NoneAssumption
     DEF IInv, SafeInv, SurvivorInv, Survivor, TypeOK, Journal, Phases, NamesInv, ShapeInv,
         AbsentShape, ReadyShape, IsolatedShape, IssuingShape, CandidateShape,
         RevokingShape, RevokedShape, CompleteShape, AbortedShape, OldIsolated,
         OldInstalled, CandidateSaved, CandidateInstalled, NeverLockedOut, Held
<1> QED BY <1>1, Inductive, PTL

\* THEOREM: a receipt always describes the state it is returned in.
THEOREM ReceiptsHonest ==
  ASSUME Prompt PROVE Spec => []HonestReceipt
<1>1. IInv => HonestReceipt
  BY NoneAssumption
  DEF IInv, SafeInv, SurvivorInv, Survivor, ReceiptInv, ShapeInv, NamesInv, CompleteShape,
      CandidateInstalled, ProvenanceFirst, HonestReceipt
<1> QED BY <1>1, Inductive, PTL

-----------------------------------------------------------------------------
(***************************************************************************)
(* The rotation implements CredentialCustody.                              *)
(***************************************************************************)
\* The initial store is an initial custody.
LEMMA InitCustody == Init => Custody!Init
BY NoneAssumption DEF Init, Custody!Init, Held

\* Every step of the rotation is a step of the custody contract or a stutter.
LEMMA NextCustody ==
  ASSUME Prompt, IInv, [Next]_vars PROVE [Custody!Next]_(Custody!custody)
<1> USE NoneAssumption DEF IInv, SafeInv, SurvivorInv, Survivor, TypeOK, Journal,
        NamesInv, MintInv, ShapeInv, PointInv, Held, Custody!custody, files, records, gitea, control,
        AbsentShape, ReadyShape, IsolatedShape, IssuingShape, CandidateShape,
        RevokingShape, RevokedShape, CompleteShape, AbortedShape, OldIsolated,
        OldInstalled, CandidateSaved, CandidateInstalled
<1>1. CASE UNCHANGED vars
  BY <1>1 DEF vars
<1>2. ASSUME NEW p \in Proc, NEW a \in Auth, Acquire(p, a) PROVE [Custody!Next]_(Custody!custody)
  BY <1>2 DEF Acquire
<1>3. ASSUME NEW p \in Proc, LoadJournal(p) PROVE [Custody!Next]_(Custody!custody)
  <2>1. CASE OpenFirst(p)
    BY <2>1 DEF OpenFirst, CanOpen, NewJournal, Fresh, Goto
  <2>2. CASE Resume(p)
    BY <2>2 DEF Resume, CanResume, Goto
  <2>3. CASE ArchiveCompleted(p)
    BY <2>3 DEF ArchiveCompleted, CanSucceed, Matches, Goto
  <2>4. CASE SweepCompleted(p)
    BY <2>4 DEF SweepCompleted, Custody!Next, Custody!Forget
  <2>5. CASE OpenNext(p)
    BY <2>5 DEF OpenNext, NewJournal, Fresh, Matches, Goto
  <2> QED BY <1>3, <2>1, <2>2, <2>3, <2>4, <2>5 DEF LoadJournal
<1>4. ASSUME NEW p \in Proc, IssueCandidate(p) PROVE [Custody!Next]_(Custody!custody)
  <2>1. CASE Isolate(p)
    BY <2>1 DEF Isolate, CanIsolate, Matches, Custody!Next, Custody!TakeOut
  <2>2. CASE FoundIsolated(p)
    BY <2>2 DEF FoundIsolated, CanResumeIsolated, OldIntact, Matches, Goto
  <2>3. CASE RecordIsolated(p)
    BY <2>3 DEF RecordIsolated, Record, WritePhase, Goto
  <2>4. CASE RecordIssuing(p)
    BY <2>4 DEF RecordIssuing, OldIntact, Matches, WritePhase, Goto
  <2>5. CASE Generate(p)
    BY <2>5 DEF Generate, Called, Custody!Next, Custody!Mint
  <2>6. CASE SaveCandidate(p)
    BY <2>6 DEF SaveCandidate, Custody!Next, Custody!Keep
  <2>7. CASE AdoptCandidate(p)
    BY <2>7 DEF AdoptCandidate, Matches, Goto
  <2> QED BY <1>4, <2>1, <2>2, <2>3, <2>4, <2>5, <2>6, <2>7 DEF IssueCandidate
<1>5. ASSUME NEW p \in Proc, SwapTokens(p) PROVE [Custody!Next]_(Custody!custody)
  <2>1. CASE Accept(p)
    BY <2>1 DEF Accept, CandidateAccepted, Matches, Record, WritePhase, Goto
  <2>2. CASE Reject(p)
    BY <2>2 DEF Reject, CandidateAccepted, Blame, Goto
  <2>3. CASE RevokeOld(p)
    BY <2>3 DEF RevokeOld, CanRevokeOld, CandidateAccepted, OldIntact,
        Matches, Custody!Next, Custody!Revoke
  <2>4. CASE RecordRevoked(p)
    BY <2>4 DEF RecordRevoked, Record, WritePhase, Goto
  <2>5. CASE WriteProvenance(p)
    BY <2>5 DEF WriteProvenance, CanPublish, OldRejected, Source, Matches,
        Goto
  <2>6. CASE Publish(p)
    BY <2>6 DEF Publish, Custody!Next, Custody!Install
  <2>7. CASE RecordPublished(p)
    BY <2>7 DEF RecordPublished, Record, WritePhase, Goto
  <2>8. CASE Complete(p)
    BY <2>8 DEF Complete, PublishedAccepted, Matches, OldRejected, WritePhase,
        Goto
  <2>9. CASE Withdraw(p)
    BY <2>9 DEF Withdraw, Custody!Next, Custody!TakeOut
  <2>10. CASE RecordWithdrawn(p)
    BY <2>10 DEF RecordWithdrawn, WritePhase, Release
  <2>11. CASE Finish(p)
    BY <2>11 DEF Finish, Custody!Next, Custody!Forget
  <2>12. CASE AlreadyComplete(p)
    BY <2>12 DEF AlreadyComplete, CanConfirm, Matches, Custody!Next,
        Custody!Forget
  <2> QED BY <1>5, <2>1, <2>2, <2>3, <2>4, <2>5, <2>6, <2>7, <2>8, <2>9,
        <2>10, <2>11, <2>12 DEF SwapTokens
<1>6. ASSUME NEW p \in Proc, UndoCandidate(p) PROVE [Custody!Next]_(Custody!custody)
  <2>1. CASE RevokeCandidate(p)
    BY <2>1 DEF RevokeCandidate, CanCompensate, Custody!Next, Custody!Revoke
  <2>2. CASE Restore(p)
    BY <2>2 DEF Restore, CanRestore, OldIntact, Matches, Custody!Next,
        Custody!Install
  <2>3. CASE RecordAborted(p)
    BY <2>3 DEF RecordAborted, WritePhase, Goto
  <2>4. CASE Discard(p)
    BY <2>4 DEF Discard, Custody!Next, Custody!Forget
  <2> QED BY <1>6, <2>1, <2>2, <2>3, <2>4 DEF UndoCandidate
<1>7. ASSUME NEW p \in Proc, Disturb(p) PROVE [Custody!Next]_(Custody!custody)
  <2>1. CASE Fault(p)
    BY <2>1 DEF Fault, Blame, Release
  <2>2. CASE Expire(p)
    BY <2>2 DEF Expire, Blame
  <2>3. CASE GenerateUnknown(p)
    BY <2>3 DEF GenerateUnknown, Called, Custody!Next, Custody!Mint
  <2>4. CASE SaveFailed(p)
    BY <2>4 DEF SaveFailed, Custody!Next, Custody!Keep
  <2>5. CASE RevokeOldUnknown(p)
    BY <2>5 DEF RevokeOldUnknown, CanRevokeOld, CandidateAccepted, OldIntact,
        Matches, Unanswered, Custody!Next, Custody!Revoke
  <2>6. CASE RevokeCandidateUnknown(p)
    BY <2>6 DEF RevokeCandidateUnknown, CanCompensate, Unanswered,
        Custody!Next, Custody!Revoke
  <2> QED BY <1>7, <2>1, <2>2, <2>3, <2>4, <2>5, <2>6 DEF Disturb
<1>8. ASSUME NEW p \in Proc, Refuse(p) PROVE [Custody!Next]_(Custody!custody)
  BY <1>8 DEF Refuse
<1>9. CASE LateRevocation
  BY <1>9 DEF LateRevocation, LateInv
<1> QED BY <1>1, <1>2, <1>3, <1>4, <1>5, <1>6, <1>7, <1>8, <1>9 DEF Next, Advance

\* THEOREM: every rotation, with its crashes and lost answers, is a custody
\* behaviour: take out, mint once, keep, revoke the spare, install the last one.
THEOREM RefinesCustody ==
  ASSUME Prompt PROVE Spec => ImplementsCustody
<1>1. IInv /\ [Next]_vars => [Custody!Next]_(Custody!custody)
  BY NextCustody
<1> QED
  BY InitCustody, <1>1, Inductive, PTL DEF Spec, Custody!Spec, ImplementsCustody

-----------------------------------------------------------------------------
(***************************************************************************)
(* The journal.                                                            *)
(***************************************************************************)
\* THEOREM: only a completed and archived journal is ever replaced.
THEOREM ReplacedOnlyArchived == Spec => ArchivedBeforeReplaced
<1> DEFINE Kept == journal'.name # journal.name =>
                     \/ journal.phase = "absent"
                     \/ journal.phase = "complete" /\ journal.auth \in archive
<1>1. SafeInv /\ [Next]_vars => [Kept]_journal
  <2> SUFFICES ASSUME SafeInv, [Next]_vars, journal' # journal PROVE Kept
    OBVIOUS
  <2> USE DEF SafeInv, TypeOK, Journal, PointInv, files, records, gitea
  <2>1. ASSUME NEW p \in Proc, LoadJournal(p) PROVE Kept
    BY <2>1 DEF LoadJournal, OpenFirst, CanOpen, Resume, ArchiveCompleted,
        SweepCompleted, OpenNext
  <2>2. ASSUME NEW p \in Proc, IssueCandidate(p) PROVE Kept
    BY <2>2 DEF IssueCandidate, Isolate, FoundIsolated, RecordIsolated, RecordIssuing,
        Generate, SaveCandidate, AdoptCandidate, Record, WritePhase
  <2>3. ASSUME NEW p \in Proc, SwapTokens(p) PROVE Kept
    BY <2>3 DEF SwapTokens, Accept, Reject, RevokeOld, RecordRevoked, WriteProvenance,
        Publish, RecordPublished, Complete, Withdraw, RecordWithdrawn, Finish,
        AlreadyComplete, Record, WritePhase
  <2>4. ASSUME NEW p \in Proc, UndoCandidate(p) PROVE Kept
    BY <2>4 DEF UndoCandidate, RevokeCandidate, Restore, RecordAborted, Discard, WritePhase
  <2>5. ASSUME NEW p \in Proc, Disturb(p) \/ Refuse(p) PROVE Kept
    BY <2>5 DEF Disturb, Fault, Expire, GenerateUnknown, SaveFailed, RevokeOldUnknown,
        RevokeCandidateUnknown, Refuse
  <2>6. ASSUME NEW p \in Proc, NEW a \in Auth, Acquire(p, a) PROVE Kept
    BY <2>6 DEF Acquire
  <2>7. CASE UNCHANGED vars
    BY <2>7 DEF vars
  <2>8. CASE LateRevocation
    BY <2>8 DEF LateRevocation
  <2> QED BY <2>1, <2>2, <2>3, <2>4, <2>5, <2>6, <2>7, <2>8 DEF Next, Advance
<1> QED BY <1>1, Safe, PTL DEF Spec, ArchivedBeforeReplaced

\* The phases that follow a phase.  Only a withdrawn candidate takes one back.
Follows ==
  [ready |-> {"isolated"}, isolated |-> {"issuing"},
   issuing |-> {"candidate", "aborted"}, candidate |-> {"revoking", "aborted"},
   revoking |-> {"revoked"}, revoked |-> {"published"},
   published |-> {"complete", "revoked"}, complete |-> {}, aborted |-> {}]

\* What may become of journal.json: it is replaced by a new one, or goes on by one
\* phase for the same authorization and the same two PATs.
JournalStep ==
  \/ journal.phase \in {"absent", "complete"} /\ journal'.phase = "ready"
  \/ /\ journal.phase \in DOMAIN Follows /\ journal'.phase \in Follows[journal.phase]
     /\ journal'.auth = journal.auth /\ journal'.old = journal.old
     /\ journal'.name = journal.name
     /\ journal'.candidate # journal.candidate => journal'.phase = "candidate"

\* Every step leaves the journal alone or is one of its steps.
LEMMA NextJournal == ASSUME SafeInv, [Next]_vars, journal' # journal PROVE JournalStep
<1> USE DEF SafeInv, TypeOK, Journal, PointInv, JournalStep, Follows, files, records, gitea
<1>1. ASSUME NEW p \in Proc, LoadJournal(p) PROVE JournalStep
  BY <1>1 DEF LoadJournal, OpenFirst, CanOpen, NewJournal, Resume, ArchiveCompleted,
      SweepCompleted, OpenNext
<1>2. ASSUME NEW p \in Proc, IssueCandidate(p) PROVE JournalStep
  <2>1. ASSUME RecordIsolated(p) PROVE JournalStep
    BY <2>1 DEF RecordIsolated, Record, WritePhase
  <2>2. ASSUME RecordIssuing(p) PROVE JournalStep
    BY <2>2 DEF RecordIssuing, WritePhase
  <2>3. ASSUME AdoptCandidate(p) PROVE JournalStep
    BY <2>3 DEF AdoptCandidate
  <2> QED BY <1>2, <2>1, <2>2, <2>3
          DEF IssueCandidate, Isolate, FoundIsolated, Generate, SaveCandidate
<1>3. ASSUME NEW p \in Proc, SwapTokens(p) PROVE JournalStep
  <2>1. ASSUME Accept(p) PROVE JournalStep
    BY <2>1 DEF Accept, Record, WritePhase
  <2>2. ASSUME RecordRevoked(p) PROVE JournalStep
    BY <2>2 DEF RecordRevoked, Record, WritePhase
  <2>3. ASSUME RecordPublished(p) PROVE JournalStep
    BY <2>3 DEF RecordPublished, Record, WritePhase
  <2>4. ASSUME Complete(p) PROVE JournalStep
    BY <2>4 DEF Complete, WritePhase
  <2>5. ASSUME RecordWithdrawn(p) PROVE JournalStep
    BY <2>5 DEF RecordWithdrawn, WritePhase
  <2> QED BY <1>3, <2>1, <2>2, <2>3, <2>4, <2>5
          DEF SwapTokens, Reject, RevokeOld, WriteProvenance, Publish, Withdraw,
              Finish, AlreadyComplete
<1>4. ASSUME NEW p \in Proc, UndoCandidate(p) PROVE JournalStep
  BY <1>4 DEF UndoCandidate, RevokeCandidate, Restore, RecordAborted, Discard, WritePhase
<1>5. ASSUME NEW p \in Proc, Disturb(p) \/ Refuse(p) PROVE JournalStep
  BY <1>5 DEF Disturb, Fault, Expire, GenerateUnknown, SaveFailed, RevokeOldUnknown,
      RevokeCandidateUnknown, Refuse
<1>6. ASSUME NEW p \in Proc, NEW a \in Auth, Acquire(p, a) PROVE JournalStep
  BY <1>6 DEF Acquire
<1>7. CASE UNCHANGED vars
  BY <1>7 DEF vars
<1>8. CASE LateRevocation
  BY <1>8 DEF LateRevocation
<1> QED BY <1>1, <1>2, <1>3, <1>4, <1>5, <1>6, <1>7, <1>8 DEF Next, Advance

\* THEOREM: whichever run writes the journal, after whatever crashes and retries, it
\* goes from one phase to a next one: no resumed run repeats or skips a phase.
THEOREM PhasesInOrder == Spec => [][JournalStep]_journal
<1>1. SafeInv /\ [Next]_vars => [JournalStep]_journal
  BY NextJournal
<1> QED BY <1>1, Safe, PTL DEF Spec

-----------------------------------------------------------------------------
(***************************************************************************)
(* Retries.                                                                *)
(***************************************************************************)
\* The scopes of a PAT do not change, and only Accept takes a journal past the
\* verification of its candidate.
LEMMA NextScopes == ASSUME SafeInv, ScopesInv, [Next]_vars PROVE ScopesInv'
<1> USE DEF ScopesInv, SafeInv, TypeOK, Journal, NamesInv, ShapeInv, CandidateShape,
        PointInv, files, records, gitea, control
<1>1. scopeOf' = scopeOf
  <2>1. CASE UNCHANGED vars
    BY <2>1 DEF vars
  <2>2. CASE LateRevocation
    BY <2>2 DEF LateRevocation
  <2>3. ASSUME NEW p \in Proc, LoadJournal(p) \/ IssueCandidate(p) PROVE scopeOf' = scopeOf
    BY <2>3 DEF LoadJournal, OpenFirst, Resume, ArchiveCompleted, SweepCompleted,
        OpenNext, IssueCandidate, Isolate, FoundIsolated, RecordIsolated, RecordIssuing,
        Generate, SaveCandidate, AdoptCandidate, Record
  <2>4. ASSUME NEW p \in Proc, SwapTokens(p) \/ UndoCandidate(p) PROVE scopeOf' = scopeOf
    BY <2>4 DEF SwapTokens, Accept, Reject, RevokeOld, RecordRevoked, WriteProvenance,
        Publish, RecordPublished, Complete, Withdraw, RecordWithdrawn, Finish,
        AlreadyComplete, Record, UndoCandidate, RevokeCandidate, Restore, RecordAborted,
        Discard
  <2>5. ASSUME NEW p \in Proc, Disturb(p) \/ Refuse(p) \/ \E a \in Auth : Acquire(p, a)
        PROVE  scopeOf' = scopeOf
    BY <2>5 DEF Disturb, Fault, Expire, GenerateUnknown, SaveFailed, RevokeOldUnknown,
        RevokeCandidateUnknown, Refuse, Acquire
  <2> QED BY <2>1, <2>2, <2>3, <2>4, <2>5 DEF Next, Advance
<1>2. CASE journal' = journal
  BY <1>1, <1>2
<1>3. CASE journal' # journal
  <2>1. JournalStep
    BY <1>3, NextJournal
  <2>2. CASE journal.phase = "candidate" /\ journal'.phase = "revoking"
    <3>1. PICK p \in Proc : Accept(p)
      <4>1. ~UNCHANGED vars /\ ~LateRevocation
        BY <1>3 DEF vars, LateRevocation
      <4>2. PICK p \in Proc : Advance(p) \/ Disturb(p) \/ \E a \in Auth : Acquire(p, a)
        BY <4>1 DEF Next
      <4>3. ~LoadJournal(p) /\ ~IssueCandidate(p)
        BY <1>3, <2>2
        DEF LoadJournal, OpenFirst, CanOpen, NewJournal, Resume, ArchiveCompleted,
            SweepCompleted, OpenNext, IssueCandidate, Isolate, FoundIsolated,
            RecordIsolated, RecordIssuing, Generate, SaveCandidate, AdoptCandidate,
            Record, WritePhase
      <4>4. ~UndoCandidate(p) /\ ~Disturb(p) /\ ~Refuse(p) /\ ~\E a \in Auth : Acquire(p, a)
        BY <1>3, <2>2
        DEF UndoCandidate, RevokeCandidate, Restore, RecordAborted, Discard, WritePhase,
            Disturb, Fault, Expire, GenerateUnknown, SaveFailed, RevokeOldUnknown,
            RevokeCandidateUnknown, Refuse, Acquire
      <4>5. SwapTokens(p) => Accept(p)
        BY <1>3, <2>2
        DEF SwapTokens, Reject, RevokeOld, RecordRevoked, WriteProvenance, Publish,
            RecordPublished, Complete, Withdraw, RecordWithdrawn, Finish,
            AlreadyComplete, Record, WritePhase
      <4> QED BY <4>2, <4>3, <4>4, <4>5 DEF Advance
    <3>2. scopeOf[journal.name] = Policy[journal.auth]
      BY <2>2, <3>1 DEF Accept, CandidateAccepted, Verified
    <3> QED BY <1>1, <2>1, <2>2, <3>2 DEF JournalStep, Follows
  <2>3. CASE ~(journal.phase = "candidate" /\ journal'.phase = "revoking")
    BY <1>1, <2>1, <2>3 DEF JournalStep, Follows
  <2> QED BY <2>2, <2>3
<1> QED BY <1>2, <1>3

\* THEOREM: a candidate past its verification has the scopes of the request.
THEOREM ScopesKept == Spec => []ScopesInv
<1>1. Init => ScopesInv
  BY DEF Init, NoJournal, ScopesInv
<1> QED BY <1>1, NextScopes, Safe, PTL DEF Spec

\* Where none of the named causes is there, the next check of a run succeeds.
LEMMA CauselessProceeds ==
  ASSUME IInv, ScopesInv, NEW p \in Proc, pc[p] # "idle", ~NamedCause(p)
  PROVE  Proceeds(p)
<1> USE NoneAssumption
    DEF IInv, SafeInv, SurvivorInv, Survivor, TypeOK, Journal, Phases, LockInv, NamesInv,
        ShapeInv, PointInv, NamedCause, Settled, DeadEnd, Matches
<1>1. /\ granted[p] /\ Fresh # {}
      /\ journal.phase \notin {"complete", "aborted"}
      /\ journal.phase # "absent" => journal.auth = run[p]
  OBVIOUS
<1>2. CASE pc[p] = "load"
  <2>1. CASE journal.phase = "absent"
    BY <1>1, <1>2, <2>1 DEF Proceeds, CanOpen, AbsentShape
  <2>2. CASE journal.phase # "absent"
    <3>1. journal.phase \in {"isolated", "issuing", "candidate", "revoking"}
            => canonical = None
      BY DEF IsolatedShape, IssuingShape, CandidateShape, RevokingShape, OldIsolated,
             OldInstalled, CandidateSaved, RestoredUnrecorded
    <3> QED BY <1>1, <1>2, <2>2, <3>1 DEF Proceeds, CanResume
  <2> QED BY <2>1, <2>2
<1>3. CASE pc[p] = "ready"
  BY <1>1, <1>3 DEF Proceeds, CanIsolate, CanResumeIsolated, OldIntact, ReadyShape,
     OldIsolated, OldInstalled
<1>4. CASE pc[p] = "isolated"
  BY <1>1, <1>4 DEF Proceeds, OldIntact, IsolatedShape, OldIsolated
<1>5. CASE pc[p] = "issuing"
  BY <1>1, <1>5 DEF Proceeds, IssuingShape, CandidateLost
<1>6. CASE pc[p] = "candidate"
  BY <1>1, <1>6 DEF Proceeds, CandidateShape
<1>7. CASE pc[p] = "revoking"
  BY <1>1, <1>7 DEF Proceeds, CanRevokeOld, CandidateAccepted, Verified, ScopesInv,
     OldIntact, RevokingShape, OldIsolated, CandidateSaved, RevocationUnconfirmed
<1>8. CASE pc[p] = "revoked"
  BY <1>1, <1>8 DEF Proceeds, CanPublish, OldRejected, Source, Verified, ScopesInv,
     RevokedShape, CandidateSaved, CandidateInstalled
<1>9. CASE pc[p] = "publish"
  BY <1>1, <1>9 DEF Proceeds, CandidateSaved
<1>10. CASE pc[p] = "published"
  BY <1>1, <1>10 DEF Proceeds, PublishedAccepted, OldRejected, Verified, ScopesInv,
     RevokedShape, CandidateSaved, CandidateInstalled, WithdrawnUnrecorded
<1>11. CASE pc[p] = "compensate"
  BY <1>1, <1>11 DEF Proceeds, CanCompensate, IssuingShape, CandidateShape,
     CandidateLost, CompensationUnconfirmed
<1>12. CASE pc[p] = "restore"
  BY <1>1, <1>12 DEF Proceeds, CanRestore, OldIntact, IssuingShape, CandidateShape,
     OldIsolated, OldInstalled, RestoredUnrecorded
<1>13. CASE pc[p] \in {"sweep", "open", "complete", "isolate", "generate", "save",
                       "confirm", "record", "withdrawn", "finish", "abort", "discard"}
  BY <1>1, <1>13 DEF Proceeds
<1> QED
  <2>1. pc[p] \in Labels OBVIOUS
  <2> QED BY <2>1, <1>2, <1>3, <1>4, <1>5, <1>6, <1>7, <1>8, <1>9, <1>10, <1>11,
             <1>12, <1>13 DEF Labels

\* THEOREM: a run is refused only for a cause that is named: the rotation is over or
\* at one of the five dead ends, the grant expired, another authorization has not
\* finished, or the names are used up.  From anything else a retry goes on.
THEOREM RefusedForCause ==
  ASSUME Prompt
  PROVE  Spec => [][\A p \in Proc : Refuse(p) => NamedCause(p)]_vars
<1> DEFINE Named == \A p \in Proc : Refuse(p) => NamedCause(p)
<1>1. IInv /\ ScopesInv /\ [Next]_vars => [Named]_vars
  BY CauselessProceeds DEF Refuse
<1> QED BY <1>1, Inductive, ScopesKept, PTL DEF Spec

\* At a dead end nothing a run can do changes anything.
LEMMA NextStuck ==
  ASSUME Prompt, IInv, Stuck, [Next]_vars
  PROVE  Stuck' /\ UNCHANGED <<journal, files, records, gitea>>
<1> DEFINE Kept == UNCHANGED <<journal, files, records, gitea>>
           Place(label) == \/ label \in {"idle", "load", journal.phase}
                           \/ label = "compensate" /\ journal.phase = "candidate"
<1>1. ASSUME Kept, \A p \in Proc : Place(pc'[p]) PROVE Stuck' /\ Kept
  BY <1>1 DEF Stuck, DeadEnd, CandidateLost, RestoredUnrecorded,
     CompensationUnconfirmed, RevocationUnconfirmed, WithdrawnUnrecorded, files, gitea
<1>2. journal.phase \in {"issuing", "candidate", "revoking", "published"}
  BY DEF Stuck, DeadEnd, CandidateLost, RestoredUnrecorded, CompensationUnconfirmed,
     RevocationUnconfirmed, WithdrawnUnrecorded
<1>3. /\ journal.phase = "issuing" => candidateFile \notin live
      /\ journal.phase = "candidate" => journal.name \notin live /\ candidateFile \notin live
      /\ journal.phase = "revoking" => journal.old \notin live
      /\ journal.phase = "published" => canonical = None
  BY NoneAssumption
     DEF Stuck, DeadEnd, CandidateLost, RestoredUnrecorded, CompensationUnconfirmed,
     RevocationUnconfirmed, WithdrawnUnrecorded, IInv, SafeInv, TypeOK, NamesInv,
     ShapeInv, IssuingShape, CandidateShape, OldIsolated, OldInstalled
<1> USE <1>2, <1>3 DEF Stuck, IInv, SafeInv, TypeOK, Labels, LateInv, Goto, Release,
        control, Matches
<1> HIDE DEF Kept
<1>4. CASE UNCHANGED vars
  BY <1>1, <1>4 DEF vars, Kept
<1>5. ASSUME NEW p \in Proc, NEW a \in Auth, Acquire(p, a) PROVE Stuck' /\ Kept
  BY <1>1, <1>5 DEF Acquire, Kept
<1>6. ASSUME NEW p \in Proc, LoadJournal(p) PROVE Stuck' /\ Kept
  BY <1>1, <1>6 DEF LoadJournal, OpenFirst, CanOpen, Resume, ArchiveCompleted,
     CanSucceed, SweepCompleted, OpenNext, Kept
<1>7. ASSUME NEW p \in Proc, IssueCandidate(p) PROVE Stuck' /\ Kept
  BY <1>7 DEF IssueCandidate, Isolate, FoundIsolated, RecordIsolated, RecordIssuing,
     Generate, SaveCandidate, AdoptCandidate, Record
<1>8. ASSUME NEW p \in Proc, SwapTokens(p) PROVE Stuck' /\ Kept
  <2>1. CASE Reject(p)
    BY <1>1, <2>1 DEF Reject, Kept
  <2>2. ~Accept(p) /\ ~RevokeOld(p) /\ ~RecordRevoked(p) /\ ~WriteProvenance(p)
    BY DEF Accept, CandidateAccepted, RevokeOld, CanRevokeOld, OldIntact, RecordRevoked,
       WriteProvenance, Record
  <2>3. ~Publish(p) /\ ~RecordPublished(p) /\ ~Complete(p) /\ ~Withdraw(p)
    BY DEF Publish, RecordPublished, Complete, PublishedAccepted, Withdraw, Record
  <2>4. ~RecordWithdrawn(p) /\ ~Finish(p) /\ ~AlreadyComplete(p)
    BY DEF RecordWithdrawn, Finish, AlreadyComplete
  <2> QED BY <1>8, <2>1, <2>2, <2>3, <2>4 DEF SwapTokens
<1>9. ASSUME NEW p \in Proc, UndoCandidate(p) PROVE Stuck' /\ Kept
  BY <1>9 DEF UndoCandidate, RevokeCandidate, CanCompensate, Restore, RecordAborted,
     Discard
<1>10. ASSUME NEW p \in Proc, Disturb(p) PROVE Stuck' /\ Kept
  <2>1. CASE Fault(p) \/ Expire(p)
    BY <1>1, <2>1 DEF Fault, Expire, Kept
  <2>2. ~GenerateUnknown(p) /\ ~SaveFailed(p)
    BY DEF GenerateUnknown, SaveFailed
  <2>3. ~RevokeOldUnknown(p) /\ ~RevokeCandidateUnknown(p)
    BY DEF RevokeOldUnknown, CanRevokeOld, CandidateAccepted, OldIntact,
       RevokeCandidateUnknown, CanCompensate
  <2> QED BY <1>10, <2>1, <2>2, <2>3 DEF Disturb
<1>11. ASSUME NEW p \in Proc, Refuse(p) PROVE Stuck' /\ Kept
  BY <1>1, <1>11 DEF Refuse, Kept
<1>12. ~LateRevocation
  BY DEF LateRevocation
<1> QED
  BY <1>4, <1>5, <1>6, <1>7, <1>8, <1>9, <1>10, <1>11, <1>12 DEF Next, Advance, Kept

\* THEOREM: from a dead end no run leads out, of this authorization or another one:
\* journal, tokens and PATs stay as they are, whatever is retried.
THEOREM DeadEndsStay ==
  ASSUME Prompt
  PROVE  /\ Spec => [][Stuck => Stuck' /\ UNCHANGED <<journal, files, records, gitea>>]_vars
         /\ Spec => [](DeadEnd /\ lock = None => Stuck)
<1> DEFINE Stays == Stuck => Stuck' /\ UNCHANGED <<journal, files, records, gitea>>
           Enters == DeadEnd /\ lock = None => Stuck
<1>1. IInv /\ [Next]_vars => [Stays]_vars
  BY NextStuck
<1>2. IInv => Enters
  BY NoneAssumption DEF IInv, SafeInv, TypeOK, LockInv, Stuck
<1>3. Spec => [][Stays]_vars
  BY <1>1, Inductive, PTL DEF Spec
<1>4. Spec => []Enters
  BY <1>2, Inductive, PTL
<1> QED BY <1>3, <1>4

================================================================================
