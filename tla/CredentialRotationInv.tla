------------------------ MODULE CredentialRotationInv ------------------------
(***************************************************************************)
(* The inductive invariants of CredentialRotation.  SafeInv says what each *)
(* journal phase and each program point tells of the files, and which PATs *)
(* Gitea can at most accept; it holds of any VM.  IInv adds the PAT that   *)
(* Gitea does accept, which takes a VM that is prompt.                     *)
(***************************************************************************)
EXTENDS CredentialRotation

\* Only the holder of the flock is inside run().
LockInv ==
  \A p \in Proc :
    /\ pc[p] # "idle" => lock = p /\ run[p] \in Auth
    /\ pc[p] \notin {"idle", "load", "sweep", "open"} => run[p] = journal.auth

\* A journal on disk names two different PATs and its authorization.
NamesInv ==
  journal.phase # "absent" =>
    /\ journal.auth \in Auth
    /\ journal.old \in Token
    /\ journal.name \in Token
    /\ journal.old # journal.name

\* PATs are minted at most once, and Gitea accepts only minted ones.
MintInv ==
  /\ \A t \in Token : calls[t] \in {0, 1}
  /\ \A t \in live : calls[t] = 1

OldIsolated == canonical = None /\ oldFile = journal.old
OldInstalled == canonical = journal.old /\ oldFile = None
CandidateSaved == canonical = None /\ candidateFile = journal.name
CandidateInstalled == canonical = journal.name /\ candidateFile = None

AbsentShape ==
  /\ canonical \in Token /\ live \subseteq {canonical}
  /\ oldFile = None /\ candidateFile = None
  /\ journal.name = None

\* ready and isolated: nothing was asked of Gitea yet.
ReadyShape ==
  /\ live \subseteq {journal.old}
  /\ candidateFile = None
  /\ calls[journal.name] = 0
  /\ OldIsolated \/ OldInstalled

IsolatedShape == ReadyShape /\ OldIsolated

\* issuing and candidate: the old PAT works and the candidate may; once the old
\* one is back in place the candidate does not.
IssuingShape ==
  /\ live \subseteq {journal.old, journal.name}
  /\ candidateFile \in {None, journal.name}
  /\ candidateFile = journal.name => calls[journal.name] = 1
  /\ OldIsolated \/ (OldInstalled /\ live \subseteq {journal.old})

CandidateShape ==
  /\ IssuingShape
  /\ candidateFile = journal.name /\ journal.candidate = journal.name

RevokingShape ==
  /\ OldIsolated /\ CandidateSaved /\ journal.candidate = journal.name
  /\ live \subseteq {journal.old, journal.name}

\* revoked and published: the candidate is alone and in exactly one place.
RevokedShape ==
  /\ live \subseteq {journal.name} /\ journal.candidate = journal.name
  /\ oldFile = journal.old
  /\ CandidateSaved \/ CandidateInstalled

CompleteShape ==
  /\ live \subseteq {journal.name} /\ journal.candidate = journal.name
  /\ oldFile \in {None, journal.old}
  /\ CandidateInstalled

AbortedShape ==
  /\ live \subseteq {journal.old}
  /\ candidateFile \in {None, journal.name}
  /\ OldIsolated \/ OldInstalled

ShapeInv ==
  /\ journal.phase = "absent" => AbsentShape
  /\ journal.phase = "ready" => ReadyShape
  /\ journal.phase = "isolated" => IsolatedShape
  /\ journal.phase = "issuing" => IssuingShape
  /\ journal.phase = "candidate" => CandidateShape
  /\ journal.phase = "revoking" => RevokingShape
  /\ journal.phase \in {"revoked", "published"} => RevokedShape
  /\ journal.phase = "complete" => CompleteShape
  /\ journal.phase = "aborted" => AbortedShape

\* What the program point of the running process adds to the phase on disk.
PointInv ==
  \A p \in Proc :
    /\ pc[p] \in {"ready", "isolated", "issuing", "candidate", "revoking",
                  "revoked", "published", "complete"} => journal.phase = pc[p]
    /\ pc[p] \in {"sweep", "open"} =>
         journal.phase = "complete" /\ journal.auth \in archive
    /\ pc[p] = "open" => oldFile = None
    /\ pc[p] = "isolate" => journal.phase = "ready" /\ OldIsolated
    /\ pc[p] = "generate" =>
         /\ journal.phase = "issuing" /\ live \subseteq {journal.old} /\ OldIsolated
         /\ candidateFile = None /\ calls[journal.name] = 0
    /\ pc[p] = "save" =>
         /\ journal.phase = "issuing" /\ OldIsolated /\ candidateFile = None
         /\ calls[journal.name] = 1
    /\ pc[p] = "compensate" => journal.phase \in {"issuing", "candidate"}
    /\ pc[p] \in {"restore", "abort"} =>
         journal.phase \in {"issuing", "candidate"} /\ live \subseteq {journal.old}
    /\ pc[p] = "discard" => journal.phase = "aborted"
    /\ pc[p] = "confirm" => journal.phase = "revoking" /\ live \subseteq {journal.name}
    /\ pc[p] = "publish" =>
         /\ journal.phase = "revoked" /\ CandidateSaved
         /\ provenance = journal.auth
    /\ pc[p] = "record" =>
         /\ journal.phase = "revoked" /\ CandidateInstalled
         /\ provenance = journal.auth
    /\ pc[p] = "withdrawn" => journal.phase = "published" /\ CandidateSaved
    /\ pc[p] = "finish" => journal.phase = "complete"

ReceiptInv ==
  receipt # "none" =>
    lock = None /\ journal.phase = "complete" /\ oldFile = None

\* What holds whether or not revocations commit late.
SafeInv ==
  /\ TypeOK
  /\ LockInv
  /\ NamesInv
  /\ MintInv
  /\ ShapeInv
  /\ PointInv
  /\ ProvenanceFirst
  /\ ReceiptInv

\* Under Prompt no revocation is ever left behind.
LateInv == late = {}

\* The PAT that works: the candidate once it was accepted, the old one before
\* that and after an abort.
Survivor ==
  IF journal.phase = "absent" THEN canonical
  ELSE IF journal.phase \in {"ready", "isolated", "issuing", "candidate", "aborted"}
  THEN journal.old ELSE journal.name

\* It works, and so does a candidate that is about to be saved.
SurvivorInv ==
  /\ Survivor \in live
  /\ \A p \in Proc : pc[p] = "save" => journal.name \in live

IInv == SafeInv /\ LateInv /\ SurvivorInv

-----------------------------------------------------------------------------
(* Where retries stop.                                                     *)
\* The candidate of a journal past its verification has the scopes of the request.
ScopesInv ==
  journal.phase \in {"revoking", "revoked", "published", "complete"} =>
    scopeOf[journal.name] = Policy[journal.auth]

\* A dead end nobody is on the way out of: a run is before the journal, at the
\* phase it found there, or about to compensate a candidate that is gone.
Stuck ==
  /\ DeadEnd
  /\ \A p \in Proc :
       \/ pc[p] \in {"idle", "load", journal.phase}
       \/ pc[p] = "compensate" /\ journal.phase = "candidate"

\* What a refusal of run p can be due to: the rotation is over or at a dead end,
\* the grant has expired, another authorization has not finished, or no name is left.
NamedCause(p) ==
  \/ Settled
  \/ ~granted[p]
  \/ journal.phase # "absent" /\ journal.auth # run[p]
  \/ Fresh = {}
==============================================================================
