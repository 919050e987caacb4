--------------------------- MODULE GovernanceApply ---------------------------
(***************************************************************************)
(* The governance transactions on one repository: bootstrap-manager,       *)
(* apply, retire-shared-bot and rollback.  Each is a few API calls on      *)
(* settings, collaborators and the protection of main, with snapshots of   *)
(* the repository as evidence on disk.  No lock keeps two transactions, or *)
(* a person in the web interface, apart.                                   *)
(*                                                                         *)
(* Abstractions.  A protection is its status-check fields, its approvals   *)
(* and "rest", all other fields the manifest fixes; fields it leaves alone *)
(* are left out.  The collaborators are read in one step.  Identity and    *)
(* merged-manifest checks, which write nothing, may refuse any start.      *)
(***************************************************************************)
EXTENDS Naturals, Sequences

CONSTANTS
  Proc,         \* processes that run a transaction
  Dirs,         \* evidence directories
  Initial,      \* states of the repository to begin with
  Perms,        \* collaborator permissions of Gitea
  Private,      \* the visibility the manifest declares
  Contexts,     \* the status checks the manifest declares
  Migratable,   \* the manifest carries evidence for a first required context
  Edits,        \* <<part, value>> changes by people
  MaxStarts,    \* bound: transactions begun
  MaxEdits,     \* bound: changes by people
  MaxFaults,    \* bound: failed, unanswered or interrupted calls
  NoSnapshot    \* a snapshot that was not taken

Parts == {"private", "prune", "protection", "manager", "agent", "bot"}
Status == {"declared", "empty", "other"}
Protection == [status : Status, approvals : {"declared", "other"},
               rest : {"declared", "other"}]
Unprotected == [status |-> "none", approvals |-> "none", rest |-> "none"]

Snapshot == [private : BOOLEAN, prune : BOOLEAN,
             protection : Protection \cup {Unprotected},
             manager : Perms, agent : Perms, bot : Perms]

ASSUME ManifestAssumption ==
  /\ Private \in BOOLEAN /\ Migratable \in BOOLEAN
  /\ Contexts \in {"declared", "empty"}
  /\ Migratable => Contexts = "declared"
  /\ {"missing", "write", "admin"} \subseteq Perms
ASSUME InitialAssumption ==
  /\ Initial \subseteq Snapshot
  /\ \A s \in Snapshot : \A e \in Edits : [s EXCEPT ![e[1]] = e[2]] \in Snapshot
ASSUME BoundAssumption == MaxStarts \in Nat /\ MaxEdits \in Nat /\ MaxFaults \in Nat
ASSUME NoSnapshotAssumption == NoSnapshot \notin Snapshot \cup Dirs

-----------------------------------------------------------------------------
(* Planning: pure functions of a snapshot.                                 *)

DesiredProtection ==
  [status |-> Contexts, approvals |-> "declared", rest |-> "declared"]

\* What the manifest wants of each part; nobody but retirement touches "bot".
Wanted == [private |-> Private, prune |-> TRUE, protection |-> DesiredProtection,
           manager |-> "admin", agent |-> "write", bot |-> "missing"]
Governed == Parts \ {"bot"}

Drift(s) == {x \in Governed : s[x] # Wanted[x]}

MigrationReady(protection) ==
  /\ Migratable
  /\ protection = [DesiredProtection EXCEPT !.status = "empty"]

\* Mutant: required status checks nobody reviewed do not block.
BlockedByApprovals(s, migrate) ==
  \/ s.protection # Unprotected /\ s.protection.approvals # "declared"
  \/ migrate /\ (~Migratable \/ Drift(s) # {"protection"})

Blocked(s, migrate) ==
  \/ /\ s.protection # Unprotected
     /\ \/ s.protection.approvals # "declared"
        \/ /\ s.protection.status # Contexts
           /\ ~(migrate /\ MigrationReady(s.protection))
  \/ migrate /\ ~Migratable
  \/ migrate /\ MigrationReady(s.protection) /\ Drift(s) # {"protection"}

\* A snapshot rollback_repository accepts.
Restorable(s) ==
  /\ s.manager = "admin"
  /\ \A who \in {"agent", "bot"} : s[who] \in {"missing", "read", "write", "admin"}

-----------------------------------------------------------------------------
VARIABLES
  repo,       \* the repository in Gitea
  evidence,   \* snapshot files: <<directory, command>> -> pre and post
  run,        \* the transaction each process is in
  starts,     \* transactions begun so far
  edits,      \* changes made by people so far
  faults      \* failed, unanswered or interrupted calls so far

vars == <<repo, evidence, run, starts, edits, faults>>

Commands == {"bootstrap", "apply", "retire", "rollback"}
Recorded == {"bootstrap", "apply"}

\* The calls of a command in order, by the parts they write.
PartsOf == [policy |-> {"private", "prune"}, protection |-> {"protection"},
            manager |-> {"manager"}, agent |-> {"agent"}, bot |-> {"bot"}]
Calls == DOMAIN PartsOf
\* Mutant: apply forgets the project agent.
ScriptNoAgent == [bootstrap |-> <<"manager">>, apply |-> <<"policy", "protection">>,
                  retire |-> <<"bot">>,
                  rollback |-> <<"protection", "agent", "bot", "manager">>]
Script == [bootstrap |-> <<"manager">>,
           apply |-> <<"agent", "policy", "protection">>,
           retire |-> <<"bot">>,
           rollback |-> <<"protection", "agent", "bot", "manager">>]

\* capture_snapshot asks for settings, then the protection, then collaborators.
Reads == <<{"private", "prune"}, {"protection"}, {"manager", "agent", "bot"}>>

Active(r) == r.at \in {"capture", "pre", "write", "readback", "post"}

\* calm: since this run began no call of its own failed, nobody else changed
\* the repository, and the manager has the right to make its calls.
Idle == [cmd |-> "apply", at |-> "idle", dir |-> NoSnapshot, migrate |-> FALSE,
         target |-> NoSnapshot, before |-> NoSnapshot, seen |-> NoSnapshot,
         got |-> 0, todo |-> <<>>, calm |-> FALSE, wrote |-> FALSE]

Init ==
  /\ repo \in Initial
  /\ evidence = [f \in Dirs \X Recorded |-> [pre |-> NoSnapshot, post |-> NoSnapshot]]
  /\ run = [p \in Proc |-> Idle]
  /\ starts = 0 /\ edits = 0 /\ faults = 0

\* Process p goes on as r; a change of the repository disturbs the others.
Become(p, r) ==
  run' = [q \in Proc |->
            IF q = p THEN r ELSE [run[q] EXCEPT !.calm = @ /\ repo' = repo]]

\* Of a transaction that is over only its outcome is left.
End(p, outcome) ==
  LET r == run[p]
  IN Become(p, [Idle EXCEPT !.cmd = r.cmd, !.at = outcome, !.target = r.target,
                  !.calm = r.calm, !.wrote = r.wrote])
\* Mutant: a refusal is not told from a run under way.
RefuseSilently(p) == End(p, "unknown")
Refuse(p) == End(p, "refused")
Done(p) == End(p, "done")

\* The snapshots on disk.
Kept == UNION {{evidence[f].pre, evidence[f].post} : f \in DOMAIN evidence}

Start(p) ==
  /\ UNCHANGED <<repo, evidence, edits, faults>>
  /\ ~Active(run[p]) /\ starts < MaxStarts
  /\ starts' = starts + 1
  /\ \E cmd \in Commands, dir \in Dirs \cup {NoSnapshot}, migrate \in BOOLEAN :
       /\ migrate => cmd = "apply"
       /\ dir = NoSnapshot <=> cmd \notin Recorded
       /\ \E target \in IF cmd = "rollback"
                        THEN Kept \ {NoSnapshot} ELSE {NoSnapshot} :
            /\ cmd = "rollback" => Restorable(target)
            /\ Become(p, [Idle EXCEPT !.cmd = cmd, !.dir = dir, !.migrate = migrate,
                            !.target = target,
                            !.at = IF cmd = "rollback" THEN "write" ELSE "capture",
                            !.todo = IF cmd = "rollback" THEN <<"policy">> ELSE <<>>,
                            !.calm = cmd = "bootstrap" \/ repo.manager = "admin"])

-----------------------------------------------------------------------------
(* Reading and deciding.                                                   *)

\* One GET of capture_snapshot.
Read(p) ==
  LET r == run[p]
      fresh == IF r.seen = NoSnapshot THEN repo ELSE r.seen
  IN /\ UNCHANGED <<repo, evidence, starts, edits, faults>>
     /\ r.at \in {"capture", "readback"} /\ r.got < Len(Reads)
     /\ Become(p, [r EXCEPT !.got = @ + 1,
          !.seen = [x \in Parts |-> IF x \in Reads[r.got + 1] THEN repo[x] ELSE fresh[x]]])

\* Mutant: retirement does not ask whether governance has converged.
AcceptsDrift(r) ==
  CASE r.cmd \in {"bootstrap", "rollback"} -> TRUE
    [] r.cmd = "apply" -> r.seen.manager = "admin" /\ ~Blocked(r.seen, r.migrate)
    [] r.cmd = "retire" -> r.seen.agent = "write"

\* What the command asks of its first snapshot.
Accepts(r) ==
  CASE r.cmd = "bootstrap" -> TRUE
    [] r.cmd = "apply" -> r.seen.manager = "admin" /\ ~Blocked(r.seen, r.migrate)
    [] r.cmd = "retire" -> Drift(r.seen) = {}
    [] r.cmd = "rollback" -> ~(r.target.protection = Unprotected
                               /\ r.seen.protection = Unprotected)

Decide(p) ==
  LET r == run[p]
  IN /\ UNCHANGED <<repo, evidence, starts, edits, faults>>
     /\ r.at = "capture" /\ r.got = Len(Reads)
     /\ IF ~Accepts(r) THEN Refuse(p)
        ELSE IF r.cmd = "retire" /\ r.seen.bot = "missing"
        THEN Done(p)
        ELSE Become(p, [r EXCEPT !.at = IF r.cmd \in Recorded THEN "pre" ELSE "write",
                          !.before = r.seen, !.todo = Script[r.cmd]])

\* Mutant: the file is renamed into place and replaces what is there.
SavePreReplaces(p) ==
  LET r == run[p]
  IN /\ UNCHANGED <<repo, starts, edits, faults>>
     /\ r.at = "pre"
     /\ evidence' = [evidence EXCEPT ![<<r.dir, r.cmd>>].pre = r.before]
     /\ Become(p, [r EXCEPT !.at = "write"])

\* write_snapshot links the file, which fails when the name is taken.
SavePre(p) ==
  LET r == run[p]  f == <<r.dir, r.cmd>>
  IN /\ UNCHANGED <<repo, starts, edits, faults>>
     /\ r.at = "pre"
     /\ IF evidence[f] # [pre |-> NoSnapshot, post |-> NoSnapshot]
        THEN Refuse(p) /\ UNCHANGED evidence
        ELSE /\ evidence' = [evidence EXCEPT ![f].pre = r.before]
             /\ Become(p, [r EXCEPT !.at = "write"])

-----------------------------------------------------------------------------
(* Writing.                                                                *)

\* The parts the next call writes; only apply and bootstrap skip what is right.
Written(r) ==
  IF r.cmd \in Recorded
  THEN {x \in PartsOf[Head(r.todo)] : r.before[x] # Wanted[x]}
  ELSE PartsOf[Head(r.todo)]

Goal(r, x) == IF r.cmd = "rollback" THEN r.target[x] ELSE Wanted[x]

\* Gitea refuses a call without authority, a POST of a protection that is
\* there, and a PATCH or DELETE of one that is not.
Accepted(r) ==
  /\ r.cmd = "bootstrap" \/ repo.manager = "admin"
  /\ "protection" \in Written(r) =>
       ((repo.protection = Unprotected) <=> (r.before.protection = Unprotected))

Effect(r) == repo' = [x \in Parts |-> IF x \in Written(r) THEN Goal(r, x) ELSE repo[x]]

Write(p) ==
  LET r == run[p]
      next == [r EXCEPT !.todo = Tail(@), !.wrote = @ \/ Written(r) # {}]
  IN /\ r.at = "write" /\ r.todo # <<>>
     /\ IF Written(r) = {} THEN UNCHANGED repo /\ Become(p, next)
        ELSE IF Accepted(r) THEN Effect(r) /\ Become(p, next)
        ELSE UNCHANGED repo /\ Refuse(p)
     /\ UNCHANGED <<evidence, starts, edits, faults>>

\* After its last call a run reads again; a rollback reads after its first too.
Reread(p) ==
  /\ UNCHANGED <<repo, evidence, starts, edits, faults>>
  /\ run[p].at = "write" /\ run[p].todo = <<>>
  /\ Become(p, [run[p] EXCEPT !.seen = NoSnapshot, !.got = 0,
                  !.at = IF run[p].before = NoSnapshot THEN "capture" ELSE "readback"])

ReadBackOk(r) ==
  CASE r.cmd = "bootstrap" -> r.seen.manager = "admin"
    [] r.cmd = "apply" ->
         /\ ~Blocked(r.seen, r.migrate) /\ Drift(r.seen) = {}
         /\ r.migrate /\ MigrationReady(r.before.protection) =>
              \A x \in Parts \ {"protection"} : r.seen[x] = r.before[x]
    [] r.cmd = "retire" -> r.seen.bot = "missing"
    [] r.cmd = "rollback" -> r.seen = r.target

Judge(p) ==
  LET r == run[p]
  IN /\ UNCHANGED <<repo, evidence, starts, edits, faults>>
     /\ r.at = "readback" /\ r.got = Len(Reads)
     /\ IF ReadBackOk(r)
        THEN IF r.cmd \in Recorded THEN Become(p, [r EXCEPT !.at = "post"]) ELSE Done(p)
        ELSE Refuse(p)

SavePost(p) ==
  LET r == run[p]  f == <<r.dir, r.cmd>>
  IN /\ UNCHANGED <<repo, starts, edits, faults>>
     /\ r.at = "post"
     /\ IF evidence[f].post # NoSnapshot
        THEN Refuse(p) /\ UNCHANGED evidence
        ELSE /\ evidence' = [evidence EXCEPT ![f].post = r.seen]
             /\ Done(p)

-----------------------------------------------------------------------------
(* Everybody else.                                                         *)

\* A call fails or its process dies; the call may have been executed.
Fault(p) ==
  LET r == run[p]
  IN /\ Active(r) /\ faults < MaxFaults
     /\ faults' = faults + 1
     /\ \/ UNCHANGED repo
        \/ r.at = "write" /\ r.todo # <<>> /\ Accepted(r) /\ Effect(r)
     /\ Become(p, [Idle EXCEPT !.cmd = r.cmd, !.at = "refused"])
     /\ UNCHANGED <<evidence, starts, edits>>

\* A person changes the repository in the web interface.
Edit ==
  /\ edits < MaxEdits
  /\ edits' = edits + 1
  /\ \E e \in Edits :
       /\ repo' = [repo EXCEPT ![e[1]] = e[2]]
       /\ run' = [q \in Proc |-> [run[q] EXCEPT !.calm = @ /\ repo' = repo]]
  /\ UNCHANGED <<evidence, starts, faults>>

Step(p) ==
  Start(p) \/ Read(p) \/ Decide(p) \/ SavePre(p) \/ Write(p) \/ Reread(p)
    \/ Judge(p) \/ SavePost(p)

Next == Edit \/ \E p \in Proc : Step(p) \/ Fault(p)

Spec == Init /\ [][Next]_vars

-----------------------------------------------------------------------------
(* Properties.                                                             *)

Run ==
  [cmd : Commands, dir : Dirs \cup {NoSnapshot}, migrate : BOOLEAN,
   at : {"idle", "capture", "pre", "write", "readback", "post", "done", "refused"},
   target : Snapshot \cup {NoSnapshot}, before : Snapshot \cup {NoSnapshot},
   seen : Snapshot \cup {NoSnapshot}, got : 0 .. 3, todo : Seq(Calls),
   calm : BOOLEAN, wrote : BOOLEAN]

TypeOK ==
  /\ repo \in Snapshot
  /\ evidence \in [Dirs \X Recorded ->
       [pre : Snapshot \cup {NoSnapshot}, post : Snapshot \cup {NoSnapshot}]]
  /\ run \in [Proc -> Run]
  /\ starts \in 0 .. MaxStarts /\ edits \in 0 .. MaxEdits /\ faults \in 0 .. MaxFaults

\* What the receipt of r says of the repository.
Claim(r, s) ==
  CASE r.cmd = "bootstrap" -> s.manager = "admin"
    [] r.cmd = "apply" -> Drift(s) = {}
    [] r.cmd = "retire" -> Drift(s) = {} /\ s.bot = "missing"
    [] r.cmd = "rollback" -> s = r.target

\* A transaction that reports success, and that nobody disturbed since it
\* began, left the repository as it says: governed as the manifest declares
\* (apply), with its manager (bootstrap), without the shared bot (retire), or
\* exactly as in the snapshot (rollback).
ReceiptTrue ==
  \A p \in Proc : run[p].at = "done" /\ run[p].calm => Claim(run[p], repo)

\* An undisturbed transaction that has written something does not refuse its
\* own read-back: apply converges in one run, whatever it started from.  A
\* rollback to a snapshot without protection is the exception (RollbackRestores).
CalmRunEnds == \A p \in Proc :
  LET r == run[p] IN
    r.at = "refused" /\ r.calm /\ r.wrote =>
      r.cmd = "rollback" /\ r.target.protection = Unprotected

\* Rollback restores the snapshot after an apply that failed, whichever call
\* it failed at: it does not give up on its own.
RollbackRestores == \A p \in Proc :
  ~(run[p].at = "refused" /\ run[p].calm /\ run[p].cmd = "rollback")

\* Before a recorded transaction writes, its evidence directory holds the
\* state it started from, and it stays there: no other run writes on the
\* evidence of this one, so it can be rolled back to that state.
EvidenceFirst == \A p \in Proc :
  LET r == run[p] IN
    r.cmd \in Recorded /\ r.at \in {"write", "readback", "post"} =>
      /\ evidence[<<r.dir, r.cmd>>] = [pre |-> r.before, post |-> NoSnapshot]
      /\ \A q \in Proc \ {p} :
           ~ /\ run[q].cmd = r.cmd /\ run[q].dir = r.dir
             /\ run[q].at \in {"write", "readback", "post"}

Moves(p) == <<run'[p].at, run'[p].todo>> # <<run[p].at, run[p].todo>>

\* apply replaces approvals or status checks that nobody reviewed only when
\* they appeared after it read the protection; those it has read are left for
\* a person, except a first required context with evidence in the manifest.
ReviewedOnly ==
  [][\A p \in Proc :
       LET r == run[p]  old == repo.protection IN
         /\ r.cmd = "apply" /\ r.at = "write" /\ Moves(p)
         /\ old # Unprotected /\ repo'.protection # old
         => \/ old.approvals = "declared" /\ old.status = Contexts
            \/ r.migrate /\ MigrationReady(old) /\ Drift(r.before) = {"protection"}
            \/ old # r.before.protection]_<<repo, run>>

\* No transaction takes Admin from the manager, which is what every later
\* transaction needs; only a person can.
ManagerKept ==
  [][repo.manager = "admin" /\ edits' = edits => repo'.manager = "admin"]_<<repo, edits>>
=============================================================================
