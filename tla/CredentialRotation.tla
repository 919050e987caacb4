------------------------- MODULE CredentialRotation -------------------------
(***************************************************************************)
(* The PAT rotation transaction of aisoft_host_access/credential_rotation  *)
(* (RotationTransaction): a journal and three token files on the Mac       *)
(* store, the PATs Gitea accepts, and operator runs that take the flock,   *)
(* resume the journal and may die between any two durable effects.         *)
(*                                                                         *)
(* Abstractions.  A PAT, its raw value, its row id and its unique name are *)
(* one member of Token.  A read (inspect, verify, rejected) is folded into *)
(* the durable effect it guards: under the flock nobody else writes what   *)
(* it reads.  An authorization stands for (issue, source SHA); the source  *)
(* SHA fixes the manifest, so it also fixes the scopes the target wants.   *)
(***************************************************************************)
EXTENDS Naturals, FiniteSets

CONSTANTS
  Token,      \* every PAT that will ever exist for this account and kind
  Auth,       \* operator authorizations
  Scope,      \* scope sets
  Policy,     \* Policy[a]: the scopes the manifest of authorization a requires
  Proc,       \* operator processes on the Mac
  None,       \* no token / no authorization / no process
  Prompt,     \* no VM operation outlives the 45 s (or the run) that waits for it
  MaxFaults   \* bound: crashes, lost answers and refused calls of a behaviour

ASSUME NoneAssumption == None \notin Token /\ None \notin Auth /\ None \notin Proc
ASSUME PolicyAssumption == Policy \in [Auth -> Scope]
ASSUME PromptAssumption == Prompt \in BOOLEAN
ASSUME FaultsAssumption == MaxFaults \in Nat

VARIABLES
  journal,        \* journal.json; phase "absent" when there is no file
  canonical,      \* <parent>/<basename>, the token every broker run reads
  oldFile,        \* .rotation-<kind>/old.token
  candidateFile,  \* .rotation-<kind>/candidate.token
  archive,        \* authorizations with a completed-<issue>-<sha>.json
  provenance,     \* authorization named by provenance.json
  live,           \* PATs Gitea accepts
  late,           \* PATs whose revocation goes on in the VM after its run ended
  scopeOf,        \* scopes Gitea records for a PAT
  calls,          \* calls[t]: generate-access-token calls made for name t
  lock,           \* holder of the flock on .rotation.lock
  pc,             \* where run() / advance() / compensate() of a process stands
  run,            \* the authorization a process runs with
  granted,        \* its grant has not expired yet
  receipt,        \* receipt returned by the last run that ended
  faults          \* faults so far

files == <<canonical, oldFile, candidateFile>>
records == <<archive, provenance>>
gitea == <<live, late, scopeOf, calls>>
control == <<lock, pc, run, granted>>
vars == <<journal, files, records, gitea, control, receipt, faults>>

Phases == {"ready", "isolated", "issuing", "candidate", "revoking", "revoked",
           "published", "complete", "aborted"}
Labels == {"idle", "load", "sweep", "open", "ready", "isolate", "isolated",
           "generate", "save", "issuing", "candidate", "revoking", "confirm",
           "revoked", "publish", "record", "published", "withdrawn", "finish",
           "complete", "compensate", "restore", "abort", "discard"}
Journal == [phase : Phases \cup {"absent"}, auth : Auth \cup {None},
            old : Token \cup {None}, candidate : Token \cup {None},
            name : Token \cup {None}]

NoJournal == [phase |-> "absent", auth |-> None, old |-> None,
              candidate |-> None, name |-> None]

TypeOK ==
  /\ journal \in Journal
  /\ canonical \in Token \cup {None}
  /\ oldFile \in Token \cup {None}
  /\ candidateFile \in Token \cup {None}
  /\ archive \subseteq Auth
  /\ provenance \in Auth \cup {None}
  /\ live \subseteq Token
  /\ late \subseteq Token
  /\ scopeOf \in [Token -> Scope]
  /\ calls \in [Token -> Nat]
  /\ lock \in Proc \cup {None}
  /\ pc \in [Proc -> Labels]
  /\ run \in [Proc -> Auth \cup {None}]
  /\ granted \in [Proc -> BOOLEAN]
  /\ receipt \in {"none", "rotated", "no-op"}
  /\ faults \in 0 .. MaxFaults

\* An account bootstrap provisioned one PAT; it is installed and nothing else is.
\* scopeOf already holds the scopes Gitea will record for a PAT minted later.
Init ==
  /\ journal = NoJournal
  /\ canonical \in Token
  /\ oldFile = None
  /\ candidateFile = None
  /\ archive = {}
  /\ provenance = None
  /\ live = {canonical}
  /\ late = {}
  /\ scopeOf \in [Token -> Scope]
  /\ calls = [t \in Token |-> IF t = canonical THEN 1 ELSE 0]
  /\ lock = None
  /\ pc = [p \in Proc |-> "idle"]
  /\ run = [p \in Proc |-> None]
  /\ granted = [p \in Proc |-> FALSE]
  /\ receipt = "none"
  /\ faults = 0

(***************************************************************************)
(* Control: taking and dropping the flock, moving inside a run, faults.    *)
(***************************************************************************)
Goto(p, label) ==
  /\ pc' = [pc EXCEPT ![p] = label]
  /\ UNCHANGED <<lock, run, granted>>

\* Leaving run() by any road: close(lock) in the finally block, or the kernel
\* dropping the flock of a dead process.
Release(p) ==
  /\ lock' = None
  /\ pc' = [pc EXCEPT ![p] = "idle"]
  /\ run' = [run EXCEPT ![p] = None]
  /\ granted' = [granted EXCEPT ![p] = FALSE]

Blame ==
  /\ faults < MaxFaults
  /\ faults' = faults + 1

WritePhase(phase) == journal' = [journal EXCEPT !.phase = phase]

\* At program point "at" the run makes a phase durable and goes on.
Record(p, at, phase) ==
  /\ pc[p] = at
  /\ WritePhase(phase)
  /\ Goto(p, phase)
  /\ UNCHANGED <<files, records, gitea, receipt, faults>>

(***************************************************************************)
(* What a run reads.                                                       *)
(***************************************************************************)
\* metadata(token) == journal entry: the helper knows a PAT only while it lives.
Matches(file, entry) == file # None /\ file = entry /\ file \in live

\* verify(token): identity and the exact scopes of the target.
Verified(t) == t \in live /\ scopeOf[t] = Policy[journal.auth]

OldIntact == Matches(oldFile, journal.old)

Fresh == {t \in Token : calls[t] = 0}

Acquire(p, a) ==
  /\ pc[p] = "idle"
  /\ lock = None
  /\ lock' = p
  /\ pc' = [pc EXCEPT ![p] = "load"]
  /\ run' = [run EXCEPT ![p] = a]
  /\ granted' = [granted EXCEPT ![p] = TRUE]
  /\ receipt' = "none"
  /\ UNCHANGED <<journal, files, records, gitea, faults>>

\* The grant window closes while the run is under way.
Expire(p) ==
  /\ granted[p]
  /\ Blame
  /\ granted' = [granted EXCEPT ![p] = FALSE]
  /\ UNCHANGED <<journal, files, records, gitea, lock, pc, run, receipt>>

\* A crash, an exception or a lost answer that changed nothing outside.
Fault(p) ==
  /\ pc[p] # "idle"
  /\ Blame
  /\ Release(p)
  /\ UNCHANGED <<journal, files, records, gitea, receipt>>

(***************************************************************************)
(* run(): load, validate, archive or create the journal.                   *)
(***************************************************************************)
CanOpen == /\ journal.phase = "absent"
           /\ canonical \in live

\* Mutant: the canonical path is required empty in phase revoked as well.
CanResumeStrict(p) ==
  /\ journal.auth = run[p]
  /\ journal.phase \notin {"absent", "aborted"}
  /\ journal.phase \in {"isolated", "issuing", "candidate", "revoking", "revoked"}
       => canonical = None

\* The same authorization continues; the canonical path must still be empty
\* in every phase in which the transaction owns both tokens.
CanResume(p) ==
  /\ journal.auth = run[p]
  /\ journal.phase \notin {"absent", "aborted"}
  /\ journal.phase \in {"isolated", "issuing", "candidate", "revoking"}
       => canonical = None

\* Mutant: any journal whose candidate is installed may be succeeded.
CanSucceedEarly(p) ==
  /\ journal.phase # "absent"
  /\ journal.auth # run[p]
  /\ Matches(canonical, journal.candidate)

\* Another authorization may start only over a completed journal whose
\* candidate is still the installed token.
CanSucceed(p) ==
  /\ journal.phase = "complete"
  /\ journal.auth # run[p]
  /\ Matches(canonical, journal.candidate)

NewJournal(p) ==
  \E t \in Fresh :
    journal' = [phase |-> "ready", auth |-> run[p], old |-> canonical,
                candidate |-> None, name |-> t]

OpenFirst(p) ==
  /\ pc[p] = "load"
  /\ CanOpen
  /\ NewJournal(p)
  /\ Goto(p, "ready")
  /\ UNCHANGED <<files, records, gitea, receipt, faults>>

Resume(p) ==
  /\ pc[p] = "load"
  /\ CanResume(p)
  /\ Goto(p, journal.phase)
  /\ UNCHANGED <<journal, files, records, gitea, receipt, faults>>

ArchiveCompleted(p) ==
  /\ pc[p] = "load"
  /\ CanSucceed(p)
  /\ archive' = archive \cup {journal.auth}
  /\ Goto(p, "sweep")
  /\ UNCHANGED <<journal, files, provenance, gitea, receipt, faults>>

SweepCompleted(p) ==
  /\ pc[p] = "sweep"
  /\ oldFile' = None
  /\ candidateFile' = None
  /\ Goto(p, "open")
  /\ UNCHANGED <<journal, canonical, records, gitea, receipt, faults>>

OpenNext(p) ==
  /\ pc[p] = "open"
  /\ Matches(canonical, journal.candidate)
  /\ NewJournal(p)
  /\ Goto(p, "ready")
  /\ UNCHANGED <<files, records, gitea, receipt, faults>>

(***************************************************************************)
(* advance(): isolate the old credential and issue one candidate.          *)
(***************************************************************************)
CanIsolate(p) ==
  /\ oldFile = None
  /\ Matches(canonical, journal.old)
  /\ granted[p]

\* A crash between the move and the journal write left the file isolated.
CanResumeIsolated == canonical = None /\ OldIntact

Isolate(p) ==
  /\ pc[p] = "ready"
  /\ CanIsolate(p)
  /\ oldFile' = canonical
  /\ canonical' = None
  /\ Goto(p, "isolate")
  /\ UNCHANGED <<journal, candidateFile, records, gitea, receipt, faults>>

FoundIsolated(p) ==
  /\ pc[p] = "ready"
  /\ CanResumeIsolated
  /\ Goto(p, "isolate")
  /\ UNCHANGED <<journal, files, records, gitea, receipt, faults>>

RecordIsolated(p) == Record(p, "isolate", "isolated")

\* Mutant: the intent to issue is not written to the journal.
RecordIssuingInMemory(p) ==
  /\ pc[p] = "isolated"
  /\ OldIntact
  /\ granted[p]
  /\ Goto(p, "generate")
  /\ UNCHANGED <<journal, files, records, gitea, receipt, faults>>

\* The intent is durable before Gitea is asked, so no later run asks again.
RecordIssuing(p) ==
  /\ pc[p] = "isolated"
  /\ OldIntact
  /\ granted[p]
  /\ WritePhase("issuing")
  /\ Goto(p, "generate")
  /\ UNCHANGED <<files, records, gitea, receipt, faults>>

Called(t) == calls' = [calls EXCEPT ![t] = @ + 1]

Generate(p) ==
  /\ pc[p] = "generate"
  /\ Called(journal.name)
  /\ live' = live \cup {journal.name}
  /\ Goto(p, "save")
  /\ UNCHANGED <<journal, files, records, late, scopeOf, receipt, faults>>

\* The CLI may have committed a PAT whose raw value never came back.
GenerateUnknown(p) ==
  /\ pc[p] = "generate"
  /\ Blame
  /\ Called(journal.name)
  /\ live' \in {live, live \cup {journal.name}}
  /\ Release(p)
  /\ UNCHANGED <<journal, files, records, late, scopeOf, receipt>>

\* Mutant: the raw candidate is written straight to the canonical path.
SaveInstalled(p) ==
  /\ pc[p] = "save"
  /\ canonical' = journal.name
  /\ Goto(p, "issuing")
  /\ UNCHANGED <<journal, candidateFile, oldFile, records, gitea, receipt, faults>>

SaveCandidate(p) ==
  /\ pc[p] = "save"
  /\ candidateFile' = journal.name
  /\ Goto(p, "issuing")
  /\ UNCHANGED <<journal, canonical, oldFile, records, gitea, receipt, faults>>

\* The write raised, before or after its rename; the raw value is still in memory.
SaveFailed(p) ==
  /\ pc[p] = "save"
  /\ Blame
  /\ candidateFile' \in {candidateFile, journal.name}
  /\ Goto(p, "compensate")
  /\ UNCHANGED <<journal, canonical, oldFile, records, gitea, receipt>>

AdoptCandidate(p) ==
  /\ pc[p] = "issuing"
  /\ Matches(candidateFile, journal.name)
  /\ journal' = [journal EXCEPT !.phase = "candidate", !.candidate = candidateFile]
  /\ Goto(p, "candidate")
  /\ UNCHANGED <<files, records, gitea, receipt, faults>>

(***************************************************************************)
(* advance(): verify the candidate, revoke the old PAT.                    *)
(***************************************************************************)
CandidateAccepted == /\ Matches(candidateFile, journal.candidate)
                     /\ Verified(journal.candidate)

Accept(p) == CandidateAccepted /\ Record(p, "candidate", "revoking")

\* Mutant: a rejected candidate is dropped without being revoked.
RejectUnrevoked(p) ==
  /\ pc[p] = "candidate"
  /\ candidateFile # None
  /\ \/ ~CandidateAccepted /\ UNCHANGED faults
     \/ Blame
  /\ Goto(p, "restore")
  /\ UNCHANGED <<journal, files, records, gitea, receipt>>

\* A wrong scope or identity, or any BrokerError of the helper or of HTTP.
Reject(p) ==
  /\ pc[p] = "candidate"
  /\ candidateFile # None
  /\ \/ ~CandidateAccepted /\ UNCHANGED faults
     \/ Blame
  /\ Goto(p, "compensate")
  /\ UNCHANGED <<journal, files, records, gitea, receipt>>

CanRevokeOld(p) == CandidateAccepted /\ OldIntact /\ granted[p]

RevokeOld(p) ==
  /\ pc[p] = "revoking"
  /\ CanRevokeOld(p)
  /\ live' = live \ {journal.old}
  /\ Goto(p, "confirm")
  /\ UNCHANGED <<journal, files, records, late, scopeOf, calls, receipt, faults>>

\* The run ended (timeout, crash, unreadable answer) after Gitea was told to revoke:
\* the deletion is committed, or the VM process commits it later.
Unanswered(t) ==
  \/ live' = live \ {t} /\ UNCHANGED late
  \/ ~Prompt /\ late' = late \cup {t} /\ UNCHANGED live

RevokeOldUnknown(p) ==
  /\ pc[p] = "revoking"
  /\ CanRevokeOld(p)
  /\ Blame
  /\ Unanswered(journal.old)
  /\ Release(p)
  /\ UNCHANGED <<journal, files, records, scopeOf, calls, receipt>>

RecordRevoked(p) == Record(p, "confirm", "revoked")

(***************************************************************************)
(* advance(): publish the candidate and complete.                          *)
(***************************************************************************)
\* rejected(token): a fresh request with it is answered 401.
OldRejected == oldFile # None /\ oldFile \notin live

\* The candidate is in the transaction, or already renamed by a dead run.
Source == IF candidateFile # None THEN candidateFile ELSE canonical

CanPublish == /\ OldRejected
              /\ Matches(Source, journal.candidate)
              /\ Verified(journal.candidate)

WriteProvenance(p) ==
  /\ pc[p] = "revoked"
  /\ CanPublish
  /\ provenance' = journal.auth
  /\ Goto(p, IF candidateFile # None THEN "publish" ELSE "record")
  /\ UNCHANGED <<journal, files, archive, gitea, receipt, faults>>

Publish(p) ==
  /\ pc[p] = "publish"
  /\ granted[p]
  /\ canonical = None
  /\ canonical' = candidateFile
  /\ candidateFile' = None
  /\ Goto(p, "record")
  /\ UNCHANGED <<journal, oldFile, records, gitea, receipt, faults>>

RecordPublished(p) == Record(p, "record", "published")

PublishedAccepted == /\ Matches(canonical, journal.candidate)
                     /\ Verified(journal.candidate)
                     /\ OldRejected

Complete(p) ==
  /\ pc[p] = "published"
  /\ PublishedAccepted
  /\ WritePhase("complete")
  /\ Goto(p, "finish")
  /\ UNCHANGED <<files, records, gitea, receipt, faults>>

\* Mutant: the candidate is removed instead of taken back into the transaction.
WithdrawRemoves(p) ==
  /\ pc[p] = "published"
  /\ canonical # None
  /\ candidateFile = None
  /\ \/ ~PublishedAccepted /\ UNCHANGED faults
     \/ Blame
  /\ canonical' = None
  /\ Goto(p, "withdrawn")
  /\ UNCHANGED <<journal, oldFile, candidateFile, records, gitea, receipt>>

\* The read-back failed: the candidate goes back into the transaction.
Withdraw(p) ==
  /\ pc[p] = "published"
  /\ canonical # None
  /\ candidateFile = None
  /\ \/ ~PublishedAccepted /\ UNCHANGED faults
     \/ Blame
  /\ candidateFile' = canonical
  /\ canonical' = None
  /\ Goto(p, "withdrawn")
  /\ UNCHANGED <<journal, oldFile, records, gitea, receipt>>

RecordWithdrawn(p) ==
  /\ pc[p] = "withdrawn"
  /\ WritePhase("revoked")
  /\ Release(p)
  /\ UNCHANGED <<files, records, gitea, receipt, faults>>

Finish(p) ==
  /\ pc[p] = "finish"
  /\ oldFile' = None
  /\ receipt' = "rotated"
  /\ Release(p)
  /\ UNCHANGED <<journal, canonical, candidateFile, records, gitea, faults>>

CanConfirm == /\ Matches(canonical, journal.candidate)
              /\ Verified(journal.candidate)

\* Mutant: the no-op confirms the candidate and cleans nothing up.
AlreadyCompleteDirty(p) ==
  /\ pc[p] = "complete"
  /\ CanConfirm
  /\ receipt' = "no-op"
  /\ Release(p)
  /\ UNCHANGED <<journal, files, records, gitea, faults>>

AlreadyComplete(p) ==
  /\ pc[p] = "complete"
  /\ CanConfirm
  /\ oldFile' = None
  /\ candidateFile' = None
  /\ receipt' = "no-op"
  /\ Release(p)
  /\ UNCHANGED <<journal, canonical, records, gitea, faults>>

(***************************************************************************)
(* compensate(): revoke exactly the candidate, restore a compliant old PAT *)
(***************************************************************************)
CanCompensate(p) == granted[p] /\ journal.name \in live

\* Mutant: compensation revokes the row of the old PAT.
RevokeCandidateWrongRow(p) ==
  /\ pc[p] = "compensate"
  /\ CanCompensate(p)
  /\ live' = live \ {journal.old}
  /\ Goto(p, "restore")
  /\ UNCHANGED <<journal, files, records, late, scopeOf, calls, receipt, faults>>

RevokeCandidate(p) ==
  /\ pc[p] = "compensate"
  /\ CanCompensate(p)
  /\ live' = live \ {journal.name}
  /\ Goto(p, "restore")
  /\ UNCHANGED <<journal, files, records, late, scopeOf, calls, receipt, faults>>

RevokeCandidateUnknown(p) ==
  /\ pc[p] = "compensate"
  /\ CanCompensate(p)
  /\ Blame
  /\ Unanswered(journal.name)
  /\ Release(p)
  /\ UNCHANGED <<journal, files, records, scopeOf, calls, receipt>>

\* A legacy PAT that lacks today's scopes stays isolated.
OldCompliant == scopeOf[journal.old] = Policy[journal.auth]

CanRestore(p) == /\ OldIntact
                 /\ OldCompliant => granted[p] /\ canonical = None

Restore(p) ==
  /\ pc[p] = "restore"
  /\ CanRestore(p)
  /\ IF OldCompliant
       THEN canonical' = oldFile /\ oldFile' = None
       ELSE UNCHANGED <<canonical, oldFile>>
  /\ Goto(p, "abort")
  /\ UNCHANGED <<journal, candidateFile, records, gitea, receipt, faults>>

\* Mutant: the phase written is none the journal's reader knows.
RecordCompensated(p) ==
  /\ pc[p] = "abort"
  /\ WritePhase("compensated")
  /\ Goto(p, "discard")
  /\ UNCHANGED <<files, records, gitea, receipt, faults>>

RecordAborted(p) ==
  /\ pc[p] = "abort"
  /\ WritePhase("aborted")
  /\ Goto(p, "discard")
  /\ UNCHANGED <<files, records, gitea, receipt, faults>>

Discard(p) ==
  /\ pc[p] = "discard"
  /\ candidateFile' = None
  /\ Release(p)
  /\ UNCHANGED <<journal, canonical, oldFile, records, gitea, receipt, faults>>

(***************************************************************************)
(* blocked(): a run whose next check fails ends and changes nothing.       *)
(***************************************************************************)
Proceeds(p) ==
  \/ pc[p] \in {"sweep", "isolate", "generate", "save", "confirm", "record",
                "withdrawn", "finish", "abort", "discard"}
  \/ pc[p] = "load" /\ CanOpen /\ Fresh # {}
  \/ pc[p] = "load" /\ (CanResume(p) \/ CanSucceed(p))
  \/ pc[p] = "open" /\ Matches(canonical, journal.candidate) /\ Fresh # {}
  \/ pc[p] = "ready" /\ (CanIsolate(p) \/ CanResumeIsolated)
  \/ pc[p] = "isolated" /\ OldIntact /\ granted[p]
  \/ pc[p] = "issuing" /\ Matches(candidateFile, journal.name)
  \/ pc[p] = "candidate" /\ candidateFile # None
  \/ pc[p] = "revoking" /\ CanRevokeOld(p)
  \/ pc[p] = "revoked" /\ CanPublish
  \/ pc[p] = "publish" /\ granted[p] /\ canonical = None
  \/ pc[p] = "published" /\ canonical # None
       /\ (PublishedAccepted \/ candidateFile = None)
  \/ pc[p] = "complete" /\ CanConfirm
  \/ pc[p] = "compensate" /\ CanCompensate(p)
  \/ pc[p] = "restore" /\ CanRestore(p)

Refuse(p) ==
  /\ pc[p] # "idle"
  /\ ~Proceeds(p)
  /\ Release(p)
  /\ UNCHANGED <<journal, files, records, gitea, receipt, faults>>

LoadJournal(p) ==
  OpenFirst(p) \/ Resume(p) \/ ArchiveCompleted(p) \/ SweepCompleted(p) \/ OpenNext(p)

IssueCandidate(p) ==
  \/ Isolate(p) \/ FoundIsolated(p) \/ RecordIsolated(p)
  \/ RecordIssuing(p) \/ Generate(p) \/ SaveCandidate(p) \/ AdoptCandidate(p)

SwapTokens(p) ==
  \/ Accept(p) \/ Reject(p) \/ RevokeOld(p) \/ RecordRevoked(p)
  \/ WriteProvenance(p) \/ Publish(p) \/ RecordPublished(p)
  \/ Complete(p) \/ Withdraw(p) \/ RecordWithdrawn(p) \/ Finish(p)
  \/ AlreadyComplete(p)

UndoCandidate(p) ==
  RevokeCandidate(p) \/ Restore(p) \/ RecordAborted(p) \/ Discard(p)

\* The VM process a dead run left behind deletes the row at last.
LateRevocation ==
  \E t \in late :
    /\ live' = live \ {t}
    /\ late' = late \ {t}
    /\ UNCHANGED <<journal, files, records, scopeOf, calls, control, receipt, faults>>

\* What a process does by itself once it holds the flock.
Advance(p) ==
  LoadJournal(p) \/ IssueCandidate(p) \/ SwapTokens(p) \/ UndoCandidate(p) \/ Refuse(p)

\* What goes wrong around it; every disjunct costs one of MaxFaults (Reject and
\* Withdraw charge theirs when the check failed for no durable reason).
Disturb(p) ==
  \/ Fault(p) \/ Expire(p) \/ GenerateUnknown(p) \/ SaveFailed(p)
  \/ RevokeOldUnknown(p) \/ RevokeCandidateUnknown(p)

Next ==
  \/ \E p \in Proc : Advance(p) \/ Disturb(p) \/ \E a \in Auth : Acquire(p, a)
  \/ LateRevocation

Spec == Init /\ [][Next]_vars

\* A live process runs on, and the operator keeps retrying every authorization
\* it holds (SF: another run may hold the flock whenever it looks).
Fairness ==
  /\ \A p \in Proc : WF_vars(Advance(p))
  /\ \A a \in Auth : SF_vars(\E p \in Proc : Acquire(p, a))

FairSpec == Spec /\ Fairness

-----------------------------------------------------------------------------
(***************************************************************************)
(* Properties.                                                             *)
(***************************************************************************)
Held == {canonical, oldFile, candidateFile} \ {None}

\* A PAT at the canonical path is accepted by Gitea and is the only one that is:
\* broker runs, which read the path without the flock, never see a dead PAT, and
\* nothing is published before the other PAT is revoked.
SoleLivePat == canonical # None => live = {canonical}

\* However often runs die, the store keeps a PAT Gitea still accepts.
NeverLockedOut == Held \cap live # {}

\* Every PAT Gitea accepts is in the store, or is the one the journal names while
\* it is being issued: no rotation leaves an unknown live credential behind.
NoForgottenPat ==
  live \subseteq Held \cup (IF journal.phase = "issuing" THEN {journal.name} ELSE {})

\* At any time the only PAT accepted while one is installed is that one: what holds
\* of SoleLivePat even when a revocation commits late.
NoOtherPat == canonical # None => live \subseteq {canonical}

\* A PAT name is asked of Gitea at most once, whatever crashed ("no second issue").
IssuedOnce == \A t \in Token : calls[t] <= 1

\* A receipt (rotated or no-op) is returned only when the old PAT is dead, the
\* candidate is installed, alone and described by provenance.json, and no raw token
\* is left in the transaction.
HonestReceipt ==
  receipt # "none" =>
    /\ journal.phase = "complete"
    /\ canonical = journal.candidate
    /\ live = {canonical}
    /\ provenance = journal.auth
    /\ oldFile = None /\ candidateFile = None

\* provenance.json is durable before the candidate it speaks of is installed.
ProvenanceFirst ==
  journal.phase # "absent" /\ canonical = journal.name /\ canonical # None
    => provenance = journal.auth

\* A journal is replaced only when it is complete and archived.
ArchivedBeforeReplaced ==
  [][journal'.name # journal.name =>
       \/ journal.phase = "absent"
       \/ journal.phase = "complete" /\ journal.auth \in archive]_journal

-----------------------------------------------------------------------------
(* The ways a rotation can end.  A dead end is a state in which every further *)
(* run of the authorization is refused and an operator must decide.          *)
CandidateLost == journal.phase = "issuing" /\ candidateFile \notin live
RestoredUnrecorded ==
  journal.phase \in {"issuing", "candidate"} /\ canonical = journal.old
CompensationUnconfirmed ==
  journal.phase = "candidate" /\ journal.candidate \notin live
RevocationUnconfirmed ==
  journal.phase = "revoking" /\ journal.old \notin live
WithdrawnUnrecorded == journal.phase = "published" /\ canonical = None
DeadEnd ==
  \/ CandidateLost \/ RestoredUnrecorded \/ CompensationUnconfirmed
  \/ RevocationUnconfirmed \/ WithdrawnUnrecorded
Settled == journal.phase \in {"complete", "aborted"} \/ DeadEnd

\* The rotation implements the custody contract: the three files are the held
\* PATs, and the installed one is whatever the canonical path holds.
Custody == INSTANCE CredentialCustody WITH
  installed <- canonical,
  held <- Held,
  minted <- {t \in Token : calls[t] > 0},
  accepted <- live
ImplementsCustody == Custody!Spec

\* With an operator that retries and finitely many faults every rotation settles:
\* it completes, aborts, or stops in one of the five states named above; it never
\* stays where a retry could have gone on.
RotationSettles == <>[]Settled

\* rotate-gitea-service-account.md: once the old PAT is confirmed revoked, a failed
\* write is followed by going on with the saved candidate, never by issuing again.
SavedCandidatePublished ==
  \A t \in Token :
    (journal.phase \in {"revoked", "published"} /\ journal.name = t)
      ~> (canonical = t)

=============================================================================
