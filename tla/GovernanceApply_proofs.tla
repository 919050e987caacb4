------------------------ MODULE GovernanceApply_proofs ------------------------
(***************************************************************************)
(* The safety of the governance transactions for any number of processes,  *)
(* evidence directories, people's changes and faults.  The invariants say  *)
(* what a process knows at each place of its transaction: Shape about what *)
(* it decided, Sees about what an undisturbed one has read (IInv); Plan of *)
(* the calls that are left, Progress of those that are over (PInv).        *)
(***************************************************************************)
EXTENDS GovernanceApply, TLAPS

Writing == {"write", "readback", "post"}

\* What a run has decided, and from what.
Shape(r) ==
  /\ r.cmd \in Recorded /\ Active(r) => r.dir \in Dirs
  /\ r.cmd \in Recorded /\ r.at \in {"pre"} \cup Writing => r.before \in Snapshot
  /\ r.cmd = "rollback" /\ Active(r) =>
       r.target \in Snapshot /\ r.target.manager = "admin"
  /\ r.cmd = "apply" /\ r.at \in {"pre", "write"} => ~Blocked(r.before, r.migrate)
  /\ r.at \in {"capture", "readback"} /\ r.got > 0 => r.seen \in Snapshot
  /\ r.at = "post" => r.seen \in Snapshot /\ ReadBackOk(r)
  /\ r.at \in {"pre", "post"} => r.cmd \in Recorded
  /\ r.cmd = "retire" => r.todo \in {<<>>, <<"bot">>}

\* What an undisturbed run r knows of the repository s.
Sees(r, s) ==
  r.calm =>
    /\ r.at \in {"capture", "readback"} =>
         \A i \in 1 .. r.got : \A x \in Reads[i] : r.seen[x] = s[x]
    /\ r.at = "post" => r.seen = s
    /\ r.cmd = "retire" /\ r.at \in {"write", "readback"} => Drift(s) = {}
    /\ r.at = "done" => Claim(r, s)

IInv ==
  /\ TypeOK /\ EvidenceFirst
  /\ \A p \in Proc : Shape(run[p]) /\ Sees(run[p], repo)

-----------------------------------------------------------------------------
(* Snapshots and runs.                                                     *)

\* Snapshots with the same parts are equal.
LEMMA SameParts ==
  ASSUME NEW s \in Snapshot, NEW t \in Snapshot, \A x \in Parts : s[x] = t[x]
  PROVE  s = t
BY DEF Snapshot, Parts

\* A mixture of two snapshots is one.
LEMMA Mixture ==
  ASSUME NEW s \in Snapshot, NEW t \in Snapshot, NEW f, f = [x \in Parts |-> f[x]],
         \A x \in Parts : f[x] = s[x] \/ f[x] = t[x]
  PROVE  f \in Snapshot
<1>1. /\ f["private"] \in BOOLEAN /\ f["prune"] \in BOOLEAN
      /\ f["protection"] \in Protection \cup {Unprotected}
      /\ f["manager"] \in Perms /\ f["agent"] \in Perms /\ f["bot"] \in Perms
  BY DEF Parts, Snapshot
<1>2. f = [private |-> f["private"], prune |-> f["prune"],
           protection |-> f["protection"], manager |-> f["manager"],
           agent |-> f["agent"], bot |-> f["bot"]]
  BY DEF Parts
<1> QED BY <1>1, <1>2 DEF Snapshot

\* What the manifest wants is a snapshot.
LEMMA WantedType == Wanted \in Snapshot
BY ManifestAssumption DEF Wanted, Snapshot, DesiredProtection, Protection, Status

\* The calls of a command, one after the other.
LEMMA Todo ==
  ASSUME NEW r \in Run, r.todo # <<>>
  PROVE  /\ Head(r.todo) \in Calls /\ Tail(r.todo) \in Seq(Calls)
         /\ PartsOf[Head(r.todo)] \subseteq Parts
         /\ r.todo = <<"bot">> => Head(r.todo) = "bot" /\ Tail(r.todo) = <<>>
<1>1. r.todo \in Seq(Calls) BY DEF Run
<1>2. Head(r.todo) \in Calls /\ Tail(r.todo) \in Seq(Calls) BY <1>1
<1>3. \A c \in Calls : PartsOf[c] \subseteq Parts BY DEF Calls, PartsOf, Parts
<1>4. r.todo = <<"bot">> => Head(r.todo) = "bot" /\ Tail(r.todo) = <<>> OBVIOUS
<1> QED BY <1>2, <1>3, <1>4

\* What a call leaves.
LEMMA EffectType ==
  ASSUME TypeOK, NEW r \in Run, Shape(r), r.at = "write", r.todo # <<>>, Effect(r)
  PROVE  /\ repo' \in Snapshot
         /\ \A x \in Parts \ Written(r) : repo'[x] = repo[x]
         /\ \A x \in Parts \cap Written(r) : repo'[x] = Goal(r, x)
         /\ Written(r) \subseteq PartsOf[Head(r.todo)]
         /\ repo.manager = "admin" => repo'.manager = "admin"
<1> DEFINE t == IF r.cmd = "rollback" THEN r.target ELSE Wanted
<1>1. t \in Snapshot /\ t.manager = "admin"
  <2>1. r.cmd = "rollback" => r.target \in Snapshot /\ r.target.manager = "admin"
    BY DEF Shape, Active
  <2>2. Wanted.manager = "admin" BY DEF Wanted
  <2> QED BY <2>1, <2>2, WantedType
<1>2. \A x : Goal(r, x) = t[x] BY DEF Goal
<1> HIDE DEF t
<1>3. repo' = [x \in Parts |-> IF x \in Written(r) THEN t[x] ELSE repo[x]]
  BY <1>2 DEF Effect
<1>4. repo \in Snapshot BY DEF TypeOK
<1>5. repo' = [x \in Parts |-> repo'[x]] /\ \A x \in Parts : repo'[x] = t[x] \/ repo'[x] = repo[x]
  BY <1>3
<1>6. repo' \in Snapshot BY <1>1, <1>4, <1>5, Mixture
<1>7. Written(r) \subseteq PartsOf[Head(r.todo)] BY DEF Written
<1>8. repo.manager = "admin" => repo'.manager = "admin"
  <2>1. "manager" \in Parts BY DEF Parts
  <2>2. repo'["manager"] = t["manager"] \/ repo'["manager"] = repo["manager"] BY <1>5, <2>1
  <2> QED BY <1>1, <1>4, <1>6, <2>2 DEF Snapshot
<1> QED BY <1>2, <1>3, <1>6, <1>7, <1>8

-----------------------------------------------------------------------------
(* One process moves.                                                      *)

\* A run that only learns whether it was disturbed.
LEMMA Bystander ==
  ASSUME NEW r \in Run, NEW s, NEW t, Shape(r), Sees(r, s),
         NEW q, q = [r EXCEPT !.calm = @ /\ t = s]
  PROVE  /\ q \in Run /\ Shape(q) /\ Sees(q, t)
         /\ q.at = r.at /\ q.cmd = r.cmd /\ q.dir = r.dir /\ q.before = r.before
         /\ q.todo = r.todo
<1> DEFINE calm == r.calm /\ t = s
<1>1. calm \in BOOLEAN /\ (calm => r.calm /\ t = s) OBVIOUS
<1>2. q = [r EXCEPT !.calm = calm] BY DEF Run
<1> HIDE DEF calm
<1>3. /\ q \in Run /\ q.calm = calm /\ q.at = r.at /\ q.cmd = r.cmd /\ q.dir = r.dir
      /\ q.migrate = r.migrate /\ q.target = r.target /\ q.before = r.before
      /\ q.seen = r.seen /\ q.got = r.got /\ q.todo = r.todo
  BY <1>1, <1>2 DEF Run
<1>4. ReadBackOk(q) <=> ReadBackOk(r) BY <1>3 DEF ReadBackOk
<1>5. Shape(q) BY <1>3, <1>4 DEF Shape, Active
<1>6. ASSUME calm PROVE Sees(q, t)
  <2>1. r.calm /\ t = s BY <1>1, <1>6
  <2>2. Claim(q, s) <=> Claim(r, s) BY <1>3 DEF Claim
  <2> QED BY <1>3, <2>1, <2>2 DEF Sees
<1>7. Sees(q, t) BY <1>3, <1>6 DEF Sees
<1> QED BY <1>3, <1>5, <1>7

\* Process p becomes r, which is as it should be.
LEMMA BecomeStep ==
  ASSUME IInv, NEW p \in Proc, NEW r \in Run, Become(p, r), Shape(r), Sees(r, repo')
  PROVE  /\ run' \in [Proc -> Run] /\ run'[p] = r
         /\ \A q \in Proc : Shape(run'[q]) /\ Sees(run'[q], repo')
         /\ \A q \in Proc \ {p} :
              /\ run'[q].at = run[q].at /\ run'[q].cmd = run[q].cmd
              /\ run'[q].dir = run[q].dir /\ run'[q].before = run[q].before
              /\ run'[q].todo = run[q].todo
<1>1. run \in [Proc -> Run] BY DEF IInv, TypeOK
<1>2. run' = [q \in Proc |-> IF q = p THEN r ELSE [run[q] EXCEPT !.calm = @ /\ repo' = repo]]
  BY DEF Become
<1>3. run'[p] = r BY <1>2
<1>4. ASSUME NEW q \in Proc \ {p}
      PROVE  /\ run'[q] \in Run /\ Shape(run'[q]) /\ Sees(run'[q], repo')
             /\ run'[q].at = run[q].at /\ run'[q].cmd = run[q].cmd
             /\ run'[q].dir = run[q].dir /\ run'[q].before = run[q].before
             /\ run'[q].todo = run[q].todo
  <2>1. run[q] \in Run /\ Shape(run[q]) /\ Sees(run[q], repo) BY <1>1 DEF IInv
  <2>2. run'[q] = [run[q] EXCEPT !.calm = @ /\ repo' = repo] BY <1>2
  <2> QED BY <2>1, <2>2, Bystander
<1>5. \A q \in Proc : run'[q] \in Run BY <1>3, <1>4
<1>6. run' \in [Proc -> Run] BY <1>2, <1>5
<1> QED BY <1>3, <1>4, <1>6

\* It leaves the evidence alone, and writes only if it did before.
LEMMA EvidenceKept ==
  ASSUME IInv, NEW p \in Proc, NEW r \in Run, Become(p, r), Shape(r), Sees(r, repo'),
         evidence' = evidence,
         r.cmd \in Recorded /\ r.at \in Writing =>
           /\ run[p].at \in Writing /\ run[p].cmd = r.cmd /\ run[p].dir = r.dir
           /\ run[p].before = r.before
  PROVE  EvidenceFirst'
<1>1. /\ run'[p] = r
      /\ \A q \in Proc \ {p} :
           /\ run'[q].at = run[q].at /\ run'[q].cmd = run[q].cmd
           /\ run'[q].dir = run[q].dir /\ run'[q].before = run[q].before
  BY BecomeStep
<1>2. EvidenceFirst BY DEF IInv
<1> QED BY <1>1, <1>2 DEF EvidenceFirst, Writing

\* A step that changes nothing but the run of p, and perhaps the repository.
LEMMA OneMoves ==
  ASSUME IInv, NEW p \in Proc, NEW r \in Run, Become(p, r), Shape(r), Sees(r, repo'),
         repo' \in Snapshot, evidence' = evidence,
         starts' \in 0 .. MaxStarts, edits' \in 0 .. MaxEdits, faults' \in 0 .. MaxFaults,
         r.cmd \in Recorded /\ r.at \in Writing =>
           /\ run[p].at \in Writing /\ run[p].cmd = r.cmd /\ run[p].dir = r.dir
           /\ run[p].before = r.before
  PROVE  IInv'
<1>1. run' \in [Proc -> Run] /\ \A q \in Proc : Shape(run'[q]) /\ Sees(run'[q], repo')
  BY BecomeStep
<1>2. EvidenceFirst' BY EvidenceKept
<1>3. TypeOK' BY <1>1 DEF IInv, TypeOK
<1>4. (\A q \in Proc : Shape(run[q]) /\ Sees(run[q], repo))'
  BY <1>1 DEF Shape, Sees, Active, ReadBackOk, Claim, Drift, Blocked
<1> QED BY <1>2, <1>3, <1>4 DEF IInv

-----------------------------------------------------------------------------
(* The actions.                                                            *)

LEMMA RunType ==
  ASSUME IInv, NEW p \in Proc
  PROVE  run[p] \in Run /\ Shape(run[p]) /\ Sees(run[p], repo)
         /\ repo \in Snapshot /\ starts \in 0 .. MaxStarts
         /\ edits \in 0 .. MaxEdits /\ faults \in 0 .. MaxFaults
BY DEF IInv, TypeOK

\* The calls by name.
LEMMA CallNames ==
  /\ "policy" \in Calls /\ "protection" \in Calls /\ "manager" \in Calls
  /\ "agent" \in Calls /\ "bot" \in Calls
BY DEF Calls, PartsOf

LEMMA IdleType == Idle \in Run /\ Idle.todo = <<>> /\ Idle.got = 0
BY DEF Idle, Run, Commands

LEMMA InitIInv == Init => IInv
<1> SUFFICES ASSUME Init PROVE IInv OBVIOUS
<1>1. repo \in Snapshot BY InitialAssumption DEF Init
<1>2. \A p \in Proc : run[p] = Idle BY DEF Init
<1>3. evidence \in [Dirs \X Recorded ->
        [pre : Snapshot \cup {NoSnapshot}, post : Snapshot \cup {NoSnapshot}]]
  BY DEF Init
<1>4. run \in [Proc -> Run] BY IdleType DEF Init
<1>5. TypeOK BY <1>1, <1>3, <1>4, BoundAssumption DEF Init, TypeOK
<1>6. Idle.at = "idle" /\ Idle.calm = FALSE /\ Idle.cmd = "apply" BY DEF Idle
<1>7. EvidenceFirst BY <1>2, <1>6 DEF EvidenceFirst
<1>8. Shape(Idle) /\ Sees(Idle, repo) BY <1>6 DEF Shape, Sees, Active, Writing
<1> QED BY <1>2, <1>5, <1>7, <1>8 DEF IInv

\* The end of a run, whatever it has to say.
LEMMA EndStep ==
  ASSUME IInv, NEW p \in Proc, NEW outcome \in {"done", "refused"}, End(p, outcome),
         outcome = "done" /\ run[p].calm => Claim(run[p], repo'),
         repo' \in Snapshot, evidence' = evidence,
         starts' \in 0 .. MaxStarts, edits' \in 0 .. MaxEdits, faults' \in 0 .. MaxFaults
  PROVE  IInv'
<1> DEFINE o == run[p]
           r == [Idle EXCEPT !.cmd = o.cmd, !.at = outcome, !.target = o.target,
                   !.calm = o.calm, !.wrote = o.wrote]
<1>1. o \in Run BY RunType
<1>2. /\ r \in Run /\ r.cmd = o.cmd /\ r.at = outcome /\ r.target = o.target
      /\ r.calm = o.calm /\ r.todo = <<>>
  BY <1>1, IdleType DEF Run, Idle
<1>3. Become(p, r) BY DEF End
<1>4. Claim(r, repo') <=> Claim(o, repo') BY <1>2 DEF Claim
<1>5. outcome = "done" /\ o.calm => Claim(o, repo') OBVIOUS
<1> HIDE DEF r, o
<1>6. Shape(r) BY <1>2 DEF Shape, Active, Writing
<1>7. Sees(r, repo') BY <1>2, <1>4, <1>5 DEF Sees
<1> QED BY <1>2, <1>3, <1>6, <1>7, OneMoves DEF Writing

LEMMA StartStep == ASSUME IInv, NEW p \in Proc, Start(p) PROVE IInv'
<1>1. PICK cmd \in Commands, dir \in Dirs \cup {NoSnapshot}, migrate \in BOOLEAN :
        /\ migrate => cmd = "apply"
        /\ dir = NoSnapshot <=> cmd \notin Recorded
        /\ \E target \in IF cmd = "rollback"
                         THEN Kept \ {NoSnapshot} ELSE {NoSnapshot} :
             /\ cmd = "rollback" => Restorable(target)
             /\ Become(p, [Idle EXCEPT !.cmd = cmd, !.dir = dir, !.migrate = migrate,
                            !.target = target,
                            !.at = IF cmd = "rollback" THEN "write" ELSE "capture",
                            !.todo = IF cmd = "rollback" THEN <<"policy">> ELSE <<>>,
                            !.calm = cmd = "bootstrap" \/ repo.manager = "admin"])
  BY DEF Start
<1>2. PICK target \in IF cmd = "rollback" THEN Kept \ {NoSnapshot} ELSE {NoSnapshot} :
        /\ cmd = "rollback" => Restorable(target)
        /\ Become(p, [Idle EXCEPT !.cmd = cmd, !.dir = dir, !.migrate = migrate,
                       !.target = target,
                       !.at = IF cmd = "rollback" THEN "write" ELSE "capture",
                       !.todo = IF cmd = "rollback" THEN <<"policy">> ELSE <<>>,
                       !.calm = cmd = "bootstrap" \/ repo.manager = "admin"])
  BY <1>1
<1>15. PICK at \in {"write", "capture"} :
         at = IF cmd = "rollback" THEN "write" ELSE "capture"
  OBVIOUS
<1>16. PICK todo \in Seq(Calls) :
         todo = IF cmd = "rollback" THEN <<"policy">> ELSE <<>>
  <2>1. <<"policy">> \in Seq(Calls) /\ <<>> \in Seq(Calls) BY CallNames
  <2> QED BY <2>1
<1>17. PICK calm \in BOOLEAN : calm = (cmd = "bootstrap" \/ repo.manager = "admin")
  OBVIOUS
<1> DEFINE r == [Idle EXCEPT !.cmd = cmd, !.dir = dir, !.migrate = migrate,
                   !.target = target, !.at = at, !.todo = todo, !.calm = calm]
<1>3. Become(p, r) BY <1>2, <1>15, <1>16, <1>17
<1>4. cmd = "rollback" => target \in Snapshot /\ target.manager = "admin"
  <2>1. \A f \in DOMAIN evidence :
          evidence[f].pre \in Snapshot \cup {NoSnapshot}
          /\ evidence[f].post \in Snapshot \cup {NoSnapshot}
    BY DEF IInv, TypeOK
  <2> SUFFICES ASSUME cmd = "rollback"
               PROVE  target \in Snapshot /\ target.manager = "admin"
    OBVIOUS
  <2>2. target \in Kept /\ target # NoSnapshot /\ Restorable(target)
    <3> HIDE DEF r
    <3> QED BY <1>2
  <2>3. PICK f \in DOMAIN evidence : target \in {evidence[f].pre, evidence[f].post}
    BY <2>2 DEF Kept
  <2> QED BY <2>1, <2>2, <2>3 DEF Restorable
<1>5. target \in Snapshot \cup {NoSnapshot} BY <1>2, <1>4
<1>6. cmd = "retire" => todo = <<>> BY <1>16
<1>7. at \in {"write", "capture"} OBVIOUS
<1>8. cmd = "rollback" <=> at = "write" BY <1>15
<1>9. dir # NoSnapshot \/ cmd \notin Recorded BY <1>1
<1>10. /\ r \in Run /\ r.cmd = cmd /\ r.dir = dir /\ r.target = target /\ r.at = at
       /\ r.todo = todo /\ r.got = 0
  BY <1>5, IdleType DEF Run, Idle
<1> HIDE DEF r
<1>11. Shape(r)
  BY <1>4, <1>6, <1>7, <1>8, <1>9, <1>10 DEF Shape, Active, Recorded, Writing
<1>12. Sees(r, repo') BY <1>7, <1>8, <1>10 DEF Sees
<1>13. /\ repo' = repo /\ evidence' = evidence /\ edits' = edits /\ faults' = faults
       /\ starts < MaxStarts /\ starts' = starts + 1
  BY DEF Start
<1>14. starts' \in 0 .. MaxStarts /\ repo' \in Snapshot
       /\ edits' \in 0 .. MaxEdits /\ faults' \in 0 .. MaxFaults
  BY <1>13, RunType, BoundAssumption
<1> QED BY <1>3, <1>7, <1>8, <1>10, <1>11, <1>12, <1>13, <1>14, OneMoves
        DEF Recorded, Writing

LEMMA ReadStep == ASSUME IInv, NEW p \in Proc, Read(p) PROVE IInv'
<1> DEFINE o == run[p]
           fresh == IF o.seen = NoSnapshot THEN repo ELSE o.seen
           seen == [x \in Parts |-> IF x \in Reads[o.got + 1] THEN repo[x] ELSE fresh[x]]
           r == [o EXCEPT !.got = @ + 1, !.seen = seen]
<1>1. o \in Run /\ Shape(o) /\ Sees(o, repo) /\ repo \in Snapshot
      /\ starts \in 0 .. MaxStarts /\ edits \in 0 .. MaxEdits /\ faults \in 0 .. MaxFaults
  BY RunType
<1>2. /\ repo' = repo /\ evidence' = evidence /\ edits' = edits /\ faults' = faults
      /\ starts' = starts
      /\ o.at \in {"capture", "readback"} /\ o.got < 3 /\ Become(p, r)
  BY DEF Read, Reads
<1>3. fresh \in Snapshot BY <1>1 DEF Run
<1>4. seen \in Snapshot
  <2>1. seen = [x \in Parts |-> seen[x]] /\ \A x \in Parts : seen[x] = repo[x] \/ seen[x] = fresh[x]
    OBVIOUS
  <2> HIDE DEF seen, fresh
  <2> QED BY <1>1, <1>3, <2>1, Mixture
<1>5. /\ \A x \in Reads[o.got + 1] : x \in Parts => seen[x] = repo[x]
      /\ \A x \in Parts : o.got > 0 /\ o.seen[x] = repo[x] => seen[x] = repo[x]
  <2>1. o.got > 0 => fresh = o.seen
    BY <1>1, <1>2, NoSnapshotAssumption DEF Shape
  <2> QED BY <2>1
<1>6. \A i \in 1 .. 3 : Reads[i] \subseteq Parts BY DEF Reads, Parts
<1> HIDE DEF seen, fresh
<1>7. /\ r \in Run /\ r.got = o.got + 1 /\ r.seen = seen /\ r.cmd = o.cmd
      /\ r.at = o.at /\ r.dir = o.dir /\ r.before = o.before /\ r.target = o.target
      /\ r.todo = o.todo /\ r.calm = o.calm /\ r.migrate = o.migrate /\ o.got \in 0 .. 3
  <2>1. o.got \in 0 .. 3 /\ o.got + 1 \in 0 .. 3 BY <1>1, <1>2 DEF Run
  <2> QED BY <1>1, <1>4, <2>1 DEF Run
<1> HIDE DEF r, o
<1>8. Shape(r) BY <1>1, <1>2, <1>4, <1>7 DEF Shape, Active
<1>9. Sees(r, repo')
  <2>1. ASSUME o.calm, NEW i \in 1 .. r.got, NEW x \in Reads[i]
        PROVE  r.seen[x] = repo[x]
    <3>1. i \in 1 .. 3 /\ x \in Parts BY <1>2, <1>6, <1>7, <2>1
    <3>2. CASE i = o.got + 1 BY <1>5, <1>7, <2>1, <3>1, <3>2
    <3>3. CASE i \in 1 .. o.got
      BY <1>1, <1>2, <1>5, <1>7, <2>1, <3>1, <3>3 DEF Sees
    <3> QED BY <1>7, <2>1, <3>2, <3>3
  <2> QED BY <1>1, <1>2, <1>7, <2>1 DEF Sees
<1> QED BY <1>1, <1>2, <1>7, <1>8, <1>9, OneMoves DEF o

\* Three undisturbed reads show the repository.
LEMMA AllRead ==
  ASSUME NEW r \in Run, NEW s \in Snapshot, Shape(r), Sees(r, s),
         r.at \in {"capture", "readback"}, r.got = 3
  PROVE  r.seen \in Snapshot /\ (r.calm => r.seen = s)
<1>1. r.seen \in Snapshot BY DEF Shape
<1>2. ASSUME r.calm PROVE \A x \in Parts : r.seen[x] = s[x]
  <2>1. \A i \in 1 .. 3 : \A x \in Reads[i] : r.seen[x] = s[x] BY <1>2 DEF Sees
  <2>2. \A x \in Parts : x \in Reads[1] \/ x \in Reads[2] \/ x \in Reads[3]
    BY DEF Reads, Parts
  <2> QED BY <2>1, <2>2
<1> QED BY <1>1, <1>2, SameParts

LEMMA DecideStep == ASSUME IInv, NEW p \in Proc, Decide(p) PROVE IInv'
<1> DEFINE o == run[p]
           at == IF o.cmd \in Recorded THEN "pre" ELSE "write"
           r == [o EXCEPT !.at = at, !.before = o.seen, !.todo = Script[o.cmd]]
<1>1. o \in Run /\ Shape(o) /\ Sees(o, repo) /\ repo \in Snapshot
      /\ starts \in 0 .. MaxStarts /\ edits \in 0 .. MaxEdits /\ faults \in 0 .. MaxFaults
  BY RunType
<1>2. /\ repo' = repo /\ evidence' = evidence /\ edits' = edits /\ faults' = faults
      /\ starts' = starts /\ o.at = "capture" /\ o.got = 3
      /\ IF ~Accepts(o) THEN Refuse(p)
         ELSE IF o.cmd = "retire" /\ o.seen.bot = "missing" THEN Done(p)
         ELSE Become(p, r)
  BY DEF Decide, Reads
<1>3. o.seen \in Snapshot /\ (o.calm => o.seen = repo) BY <1>1, <1>2, AllRead
<1>4. CASE ~Accepts(o)
  BY <1>1, <1>2, <1>4, EndStep DEF Refuse
<1>5. CASE Accepts(o) /\ o.cmd = "retire" /\ o.seen.bot = "missing"
  <2>1. o.calm => Claim(o, repo')
    BY <1>2, <1>3, <1>5 DEF Accepts, Claim
  <2> QED BY <1>1, <1>2, <1>5, <2>1, EndStep DEF Done
<1>6. CASE Accepts(o) /\ ~(o.cmd = "retire" /\ o.seen.bot = "missing")
  <2>1. Script[o.cmd] \in Seq(Calls) /\ (o.cmd = "retire" => Script[o.cmd] = <<"bot">>)
    <3>1. Script["bootstrap"] \in Seq(Calls) BY CallNames DEF Script
    <3>2. Script["apply"] \in Seq(Calls) BY CallNames DEF Script
    <3>3. Script["retire"] \in Seq(Calls) /\ Script["retire"] = <<"bot">>
      BY CallNames DEF Script
    <3>4. Script["rollback"] \in Seq(Calls) BY CallNames DEF Script
    <3> QED BY <1>1, <3>1, <3>2, <3>3, <3>4 DEF Run, Commands
  <2>2. at \in {"pre", "write"} /\ (at = "pre" <=> o.cmd \in Recorded) OBVIOUS
  <2> HIDE DEF at
  <2>3. /\ r \in Run /\ r.at = at /\ r.before = o.seen /\ r.todo = Script[o.cmd]
        /\ r.cmd = o.cmd /\ r.dir = o.dir /\ r.target = o.target /\ r.calm = o.calm
        /\ r.migrate = o.migrate
    BY <1>1, <1>3, <2>1, <2>2 DEF Run
  <2>4. Become(p, r) BY <1>2, <1>6
  <2>5. o.cmd = "apply" => ~Blocked(o.seen, o.migrate) BY <1>6 DEF Accepts
  <2>6. o.cmd = "retire" => Drift(o.seen) = {} BY <1>6 DEF Accepts
  <2> HIDE DEF r, o
  <2>7. Shape(r)
    BY <1>1, <1>2, <1>3, <2>1, <2>2, <2>3, <2>5 DEF Shape, Active, Writing
  <2>8. Sees(r, repo')
    BY <1>2, <1>3, <2>2, <2>3, <2>6 DEF Sees
  <2>9. ~(r.cmd \in Recorded /\ r.at \in Writing) BY <2>2, <2>3 DEF Writing
  <2> QED BY <1>1, <1>2, <2>3, <2>4, <2>7, <2>8, <2>9, OneMoves
<1> QED BY <1>4, <1>5, <1>6

LEMMA SavePreStep == ASSUME IInv, NEW p \in Proc, SavePre(p) PROVE IInv'
<1> DEFINE o == run[p]
           f == <<o.dir, o.cmd>>
           none == [pre |-> NoSnapshot, post |-> NoSnapshot]
           r == [o EXCEPT !.at = "write"]
<1>1. o \in Run /\ Shape(o) /\ Sees(o, repo) /\ repo \in Snapshot
      /\ starts \in 0 .. MaxStarts /\ edits \in 0 .. MaxEdits /\ faults \in 0 .. MaxFaults
  BY RunType
<1>2. /\ repo' = repo /\ edits' = edits /\ faults' = faults /\ starts' = starts
      /\ o.at = "pre"
      /\ IF evidence[f] # none THEN Refuse(p) /\ evidence' = evidence
         ELSE evidence' = [evidence EXCEPT ![f].pre = o.before] /\ Become(p, r)
  BY DEF SavePre
<1>3. CASE evidence[f] # none
  BY <1>1, <1>2, <1>3, EndStep DEF Refuse
<1>4. CASE evidence[f] = none
  <2>1. evidence' = [evidence EXCEPT ![f].pre = o.before] /\ Become(p, r)
    BY <1>2, <1>4
  <2>2. /\ o.cmd \in Recorded /\ o.dir \in Dirs /\ o.before \in Snapshot
    BY <1>1, <1>2 DEF Shape, Active
  <2>3. /\ r \in Run /\ r.at = "write" /\ r.cmd = o.cmd /\ r.dir = o.dir
        /\ r.before = o.before /\ r.target = o.target /\ r.migrate = o.migrate
        /\ r.todo = o.todo /\ r.calm = o.calm
    BY <1>1 DEF Run
  <2> HIDE DEF r
  <2>4. Shape(r) BY <1>1, <1>2, <2>2, <2>3 DEF Shape, Active, Writing
  <2>5. Sees(r, repo') BY <2>2, <2>3 DEF Sees, Recorded
  <2>6. /\ run' \in [Proc -> Run] /\ run'[p] = r
        /\ \A q \in Proc : Shape(run'[q]) /\ Sees(run'[q], repo')
        /\ \A q \in Proc \ {p} :
             /\ run'[q].at = run[q].at /\ run'[q].cmd = run[q].cmd
             /\ run'[q].dir = run[q].dir /\ run'[q].before = run[q].before
    BY <2>1, <2>3, <2>4, <2>5, BecomeStep
  <2>7. evidence \in [Dirs \X Recorded ->
          [pre : Snapshot \cup {NoSnapshot}, post : Snapshot \cup {NoSnapshot}]]
        /\ f \in Dirs \X Recorded
    BY <2>2 DEF IInv, TypeOK
  <2>8. evidence' \in [Dirs \X Recorded ->
          [pre : Snapshot \cup {NoSnapshot}, post : Snapshot \cup {NoSnapshot}]]
    BY <2>1, <2>2, <2>7
  <2>9. /\ evidence'[f] = [pre |-> o.before, post |-> NoSnapshot]
        /\ \A g \in Dirs \X Recorded : g # f => evidence'[g] = evidence[g]
    BY <1>4, <2>1, <2>7
  <2>10. TypeOK' BY <1>1, <1>2, <2>6, <2>8 DEF TypeOK
  <2>11. ASSUME NEW q \in Proc \ {p}, run[q].cmd = o.cmd, run[q].dir = o.dir,
                run[q].at \in Writing
         PROVE  FALSE
    <3>1. evidence[f] = [pre |-> run[q].before, post |-> NoSnapshot]
      BY <2>2, <2>11 DEF IInv, EvidenceFirst, Writing
    <3>2. run[q].before \in Snapshot
      BY <2>2, <2>11, RunType DEF Shape
    <3> QED BY <1>4, <3>1, <3>2, NoSnapshotAssumption
  <2>12. EvidenceFirst'
    <3> SUFFICES ASSUME NEW q \in Proc, run'[q].cmd \in Recorded,
                        run'[q].at \in Writing
                 PROVE  /\ evidence'[<<run'[q].dir, run'[q].cmd>>]
                             = [pre |-> run'[q].before, post |-> NoSnapshot]
                        /\ \A u \in Proc \ {q} :
                             ~ /\ run'[u].cmd = run'[q].cmd /\ run'[u].dir = run'[q].dir
                               /\ run'[u].at \in Writing
      BY DEF EvidenceFirst, Writing
    <3>1. CASE q = p
      BY <2>3, <2>6, <2>9, <2>11, <3>1
    <3>2. CASE q # p
      <4>1. /\ run[q].cmd \in Recorded /\ run[q].at \in Writing
            /\ run[q].dir \in Dirs
        BY <2>6, <3>2, RunType DEF Shape, Active, Writing
      <4>2. /\ evidence[<<run[q].dir, run[q].cmd>>]
                 = [pre |-> run[q].before, post |-> NoSnapshot]
            /\ \A u \in Proc \ {q} :
                 ~ /\ run[u].cmd = run[q].cmd /\ run[u].dir = run[q].dir
                   /\ run[u].at \in Writing
        BY <4>1 DEF IInv, EvidenceFirst, Writing
      <4>3. ~(run[q].cmd = o.cmd /\ run[q].dir = o.dir)
        BY <2>11, <3>2, <4>1
      <4>4. <<run[q].dir, run[q].cmd>> # f BY <4>3
      <4>5. evidence'[<<run[q].dir, run[q].cmd>>] = evidence[<<run[q].dir, run[q].cmd>>]
        BY <2>9, <4>1, <4>4
      <4> QED BY <2>3, <2>6, <3>2, <4>2, <4>3, <4>5
    <3> QED BY <3>1, <3>2
  <2>13. \A q \in Proc : Shape(run[q])'
    BY <2>6 DEF Shape, Active, ReadBackOk, Drift, Blocked
  <2>14. \A q \in Proc : Sees(run[q], repo)' BY <2>6 DEF Sees, Claim, Drift
  <2> QED BY <2>10, <2>12, <2>13, <2>14 DEF IInv
<1> QED BY <1>3, <1>4

LEMMA WriteStep == ASSUME IInv, NEW p \in Proc, Write(p) PROVE IInv'
<1> DEFINE o == run[p]
<1>1. o \in Run /\ Shape(o) /\ Sees(o, repo) /\ repo \in Snapshot
      /\ starts \in 0 .. MaxStarts /\ edits \in 0 .. MaxEdits /\ faults \in 0 .. MaxFaults
  BY RunType
<1>2. /\ evidence' = evidence /\ edits' = edits /\ faults' = faults /\ starts' = starts
      /\ o.at = "write" /\ o.todo # <<>>
      /\ \/ /\ repo' = repo \/ Effect(o)
            /\ Become(p, [o EXCEPT !.todo = Tail(@), !.wrote = @ \/ Written(o) # {}])
         \/ repo' = repo /\ Refuse(p)
  BY DEF Write
<1>3. CASE repo' = repo /\ Refuse(p)
  BY <1>1, <1>2, <1>3, EndStep DEF Refuse
<1>4. CASE /\ repo' = repo \/ Effect(o)
           /\ Become(p, [o EXCEPT !.todo = Tail(@), !.wrote = @ \/ Written(o) # {}])
  <2>1. PICK wrote \in BOOLEAN : wrote = (o.wrote \/ Written(o) # {}) OBVIOUS
  <2> DEFINE r == [o EXCEPT !.todo = Tail(o.todo), !.wrote = wrote]
  <2>2. Become(p, r) BY <1>4, <2>1
  <2>3. Tail(o.todo) \in Seq(Calls) BY <1>1, <1>2, Todo
  <2>4. /\ r \in Run /\ r.at = "write" /\ r.cmd = o.cmd /\ r.dir = o.dir
        /\ r.before = o.before /\ r.target = o.target /\ r.migrate = o.migrate
        /\ r.todo = Tail(o.todo) /\ r.calm = o.calm
    BY <1>1, <1>2, <2>3 DEF Run
  <2>5. repo' \in Snapshot BY <1>1, <1>2, <1>4, EffectType DEF IInv
  <2>6. o.cmd = "retire" => \A x \in Governed : repo'[x] = repo[x]
    <3> SUFFICES ASSUME o.cmd = "retire", NEW x \in Governed PROVE repo'[x] = repo[x]
      OBVIOUS
    <3>1. o.todo = <<"bot">> BY <1>1, <1>2 DEF Shape
    <3>2. PartsOf[Head(o.todo)] = {"bot"} BY <1>1, <1>2, <3>1, Todo DEF PartsOf
    <3>3. x \in Parts /\ x # "bot" BY DEF Governed
    <3>4. CASE Effect(o)
      <4>1. x \notin Written(o) BY <1>1, <1>2, <3>2, <3>3, <3>4, EffectType DEF IInv
      <4> QED BY <1>1, <1>2, <3>3, <3>4, <4>1, EffectType DEF IInv
    <3> QED BY <1>4, <3>4
  <2>7. o.cmd = "retire" => Drift(repo') = Drift(repo) BY <2>6 DEF Drift
  <2>8. o.cmd = "retire" => Tail(o.todo) \in {<<>>, <<"bot">>}
    BY <1>1, <1>2, Todo DEF Shape
  <2> HIDE DEF r, o
  <2>9. Shape(r) BY <1>1, <1>2, <2>4, <2>8 DEF Shape, Active, Writing
  <2>10. Sees(r, repo') BY <1>1, <1>2, <2>4, <2>7 DEF Sees
  <2> QED BY <1>1, <1>2, <2>2, <2>4, <2>5, <2>9, <2>10, OneMoves DEF o, Writing
<1> QED BY <1>2, <1>3, <1>4

LEMMA RereadStep == ASSUME IInv, NEW p \in Proc, Reread(p) PROVE IInv'
<1> DEFINE o == run[p]
           at == IF o.before = NoSnapshot THEN "capture" ELSE "readback"
           r == [o EXCEPT !.seen = NoSnapshot, !.got = 0, !.at = at]
<1>1. o \in Run /\ Shape(o) /\ Sees(o, repo) /\ repo \in Snapshot
      /\ starts \in 0 .. MaxStarts /\ edits \in 0 .. MaxEdits /\ faults \in 0 .. MaxFaults
  BY RunType
<1>2. /\ repo' = repo /\ evidence' = evidence /\ edits' = edits /\ faults' = faults
      /\ starts' = starts /\ o.at = "write" /\ Become(p, r)
  BY DEF Reread
<1>3. at \in {"capture", "readback"} OBVIOUS
<1> HIDE DEF at
<1>4. /\ r \in Run /\ r.at = at /\ r.cmd = o.cmd /\ r.dir = o.dir /\ r.got = 0
      /\ r.before = o.before /\ r.target = o.target /\ r.migrate = o.migrate
      /\ r.todo = o.todo /\ r.calm = o.calm
  <2>1. at \in {"idle", "capture", "pre", "write", "readback", "post", "done", "refused"}
        /\ 0 \in 0 .. 3
    BY <1>3
  <2> QED BY <1>1, <2>1 DEF Run
<1> HIDE DEF r, o
<1>5. Shape(r) BY <1>1, <1>2, <1>3, <1>4 DEF Shape, Active, Writing
<1>6. Sees(r, repo') BY <1>1, <1>2, <1>3, <1>4 DEF Sees
<1> QED BY <1>1, <1>2, <1>4, <1>5, <1>6, OneMoves DEF o, Writing

LEMMA JudgeStep == ASSUME IInv, NEW p \in Proc, Judge(p) PROVE IInv'
<1> DEFINE o == run[p]
           r == [o EXCEPT !.at = "post"]
<1>1. o \in Run /\ Shape(o) /\ Sees(o, repo) /\ repo \in Snapshot
      /\ starts \in 0 .. MaxStarts /\ edits \in 0 .. MaxEdits /\ faults \in 0 .. MaxFaults
  BY RunType
<1>2. /\ repo' = repo /\ evidence' = evidence /\ edits' = edits /\ faults' = faults
      /\ starts' = starts /\ o.at = "readback" /\ o.got = 3
      /\ IF ReadBackOk(o)
         THEN IF o.cmd \in Recorded THEN Become(p, r) ELSE Done(p)
         ELSE Refuse(p)
  BY DEF Judge, Reads
<1>3. o.seen \in Snapshot /\ (o.calm => o.seen = repo) BY <1>1, <1>2, AllRead
<1>4. CASE ~ReadBackOk(o)
  BY <1>1, <1>2, <1>4, EndStep DEF Refuse
<1>5. CASE ReadBackOk(o) /\ o.cmd \notin Recorded
  <2>1. o.cmd \in {"retire", "rollback"} BY <1>1, <1>5 DEF Run, Commands, Recorded
  <2>2. o.calm => Claim(o, repo')
    BY <1>1, <1>2, <1>3, <1>5, <2>1 DEF ReadBackOk, Claim, Sees
  <2> QED BY <1>1, <1>2, <1>5, <2>2, EndStep DEF Done
<1>6. CASE ReadBackOk(o) /\ o.cmd \in Recorded
  <2>1. Become(p, r) BY <1>2, <1>6
  <2>2. /\ r \in Run /\ r.at = "post" /\ r.cmd = o.cmd /\ r.dir = o.dir
        /\ r.before = o.before /\ r.target = o.target /\ r.migrate = o.migrate
        /\ r.seen = o.seen /\ r.todo = o.todo /\ r.calm = o.calm
    BY <1>1 DEF Run
  <2> HIDE DEF r, o
  <2>3. ReadBackOk(r) BY <1>6, <2>2 DEF ReadBackOk
  <2>4. Shape(r) BY <1>1, <1>2, <1>3, <1>6, <2>2, <2>3 DEF Shape, Active, Writing, Recorded
  <2>5. Sees(r, repo') BY <1>2, <1>3, <2>2 DEF Sees
  <2> QED BY <1>1, <1>2, <2>1, <2>2, <2>4, <2>5, OneMoves DEF o, Writing
<1> QED BY <1>4, <1>5, <1>6

LEMMA SavePostStep == ASSUME IInv, NEW p \in Proc, SavePost(p) PROVE IInv'
<1> DEFINE o == run[p]
           f == <<o.dir, o.cmd>>
           r == [Idle EXCEPT !.cmd = o.cmd, !.at = "done", !.target = o.target,
                   !.calm = o.calm, !.wrote = o.wrote]
<1>1. o \in Run /\ Shape(o) /\ Sees(o, repo) /\ repo \in Snapshot
      /\ starts \in 0 .. MaxStarts /\ edits \in 0 .. MaxEdits /\ faults \in 0 .. MaxFaults
  BY RunType
<1>2. /\ repo' = repo /\ edits' = edits /\ faults' = faults /\ starts' = starts
      /\ o.at = "post"
      /\ IF evidence[f].post # NoSnapshot THEN Refuse(p) /\ evidence' = evidence
         ELSE evidence' = [evidence EXCEPT ![f].post = o.seen] /\ Done(p)
  BY DEF SavePost
<1>3. CASE evidence[f].post # NoSnapshot
  BY <1>1, <1>2, <1>3, EndStep DEF Refuse
<1>4. CASE evidence[f].post = NoSnapshot
  <2>1. evidence' = [evidence EXCEPT ![f].post = o.seen] /\ Become(p, r)
    BY <1>2, <1>4 DEF Done, End
  <2>2. /\ o.cmd \in Recorded /\ o.dir \in Dirs /\ o.seen \in Snapshot /\ ReadBackOk(o)
    BY <1>1, <1>2 DEF Shape, Active
  <2>3. /\ r \in Run /\ r.at = "done" /\ r.cmd = o.cmd /\ r.calm = o.calm /\ r.todo = <<>>
        /\ r.target = o.target
    BY <1>1, IdleType DEF Run, Idle
  <2>4. o.calm => Claim(r, repo')
    BY <1>1, <1>2, <2>2, <2>3 DEF Sees, Claim, ReadBackOk, Recorded
  <2> HIDE DEF r
  <2>5. Shape(r) BY <2>2, <2>3 DEF Shape, Active, Writing, Recorded
  <2>6. Sees(r, repo') BY <2>3, <2>4 DEF Sees
  <2>7. /\ run' \in [Proc -> Run] /\ run'[p] = r
        /\ \A q \in Proc : Shape(run'[q]) /\ Sees(run'[q], repo')
        /\ \A q \in Proc \ {p} :
             /\ run'[q].at = run[q].at /\ run'[q].cmd = run[q].cmd
             /\ run'[q].dir = run[q].dir /\ run'[q].before = run[q].before
    BY <2>1, <2>3, <2>5, <2>6, BecomeStep
  <2>8. evidence \in [Dirs \X Recorded ->
          [pre : Snapshot \cup {NoSnapshot}, post : Snapshot \cup {NoSnapshot}]]
        /\ f \in Dirs \X Recorded
    BY <2>2 DEF IInv, TypeOK
  <2>9. /\ evidence' \in [Dirs \X Recorded ->
             [pre : Snapshot \cup {NoSnapshot}, post : Snapshot \cup {NoSnapshot}]]
        /\ \A g \in Dirs \X Recorded : g # f => evidence'[g] = evidence[g]
    BY <2>1, <2>2, <2>8
  <2>10. TypeOK' BY <1>1, <1>2, <2>7, <2>9 DEF TypeOK
  <2>11. EvidenceFirst'
    <3> SUFFICES ASSUME NEW q \in Proc, run'[q].cmd \in Recorded,
                        run'[q].at \in Writing
                 PROVE  /\ evidence'[<<run'[q].dir, run'[q].cmd>>]
                             = [pre |-> run'[q].before, post |-> NoSnapshot]
                        /\ \A u \in Proc \ {q} :
                             ~ /\ run'[u].cmd = run'[q].cmd /\ run'[u].dir = run'[q].dir
                               /\ run'[u].at \in Writing
      BY DEF EvidenceFirst, Writing
    <3>1. q # p BY <2>3, <2>7 DEF Writing
    <3>2. /\ run[q].cmd \in Recorded /\ run[q].at \in Writing
          /\ run[q].dir \in Dirs
      BY <2>7, <3>1, RunType DEF Shape, Active, Writing
    <3>3. /\ evidence[<<run[q].dir, run[q].cmd>>]
               = [pre |-> run[q].before, post |-> NoSnapshot]
          /\ \A u \in Proc \ {q} :
               ~ /\ run[u].cmd = run[q].cmd /\ run[u].dir = run[q].dir
                 /\ run[u].at \in Writing
      BY <3>2 DEF IInv, EvidenceFirst, Writing
    <3>4. <<run[q].dir, run[q].cmd>> # f
      BY <1>2, <3>1, <3>3 DEF Writing
    <3>5. evidence'[<<run[q].dir, run[q].cmd>>] = evidence[<<run[q].dir, run[q].cmd>>]
      BY <2>9, <3>2, <3>4
    <3> QED BY <2>3, <2>7, <3>1, <3>3, <3>5 DEF Writing
  <2>12. \A q \in Proc : Shape(run[q])'
    BY <2>7 DEF Shape, Active, ReadBackOk, Drift, Blocked
  <2>13. \A q \in Proc : Sees(run[q], repo)' BY <2>7 DEF Sees, Claim, Drift
  <2> QED BY <2>10, <2>11, <2>12, <2>13 DEF IInv
<1> QED BY <1>3, <1>4

LEMMA FaultStep == ASSUME IInv, NEW p \in Proc, Fault(p) PROVE IInv'
<1> DEFINE o == run[p]
           r == [Idle EXCEPT !.cmd = o.cmd, !.at = "refused"]
<1>1. o \in Run /\ Shape(o) /\ repo \in Snapshot
      /\ starts \in 0 .. MaxStarts /\ edits \in 0 .. MaxEdits /\ faults \in 0 .. MaxFaults
  BY RunType
<1>2. /\ evidence' = evidence /\ starts' = starts /\ edits' = edits
      /\ faults < MaxFaults /\ faults' = faults + 1 /\ Become(p, r)
      /\ repo' = repo \/ (o.at = "write" /\ o.todo # <<>> /\ Effect(o))
  BY DEF Fault
<1>3. repo' \in Snapshot BY <1>1, <1>2, EffectType DEF IInv
<1>4. r \in Run /\ r.at = "refused" /\ r.calm = FALSE /\ r.todo = <<>>
  BY <1>1, IdleType DEF Run, Idle
<1> HIDE DEF r
<1>5. Shape(r) /\ Sees(r, repo') BY <1>4 DEF Shape, Sees, Active, Writing
<1>6. faults' \in 0 .. MaxFaults BY <1>1, <1>2, BoundAssumption
<1> QED BY <1>1, <1>2, <1>3, <1>4, <1>5, <1>6, OneMoves DEF Writing

LEMMA EditStep == IInv /\ Edit => IInv'
<1> SUFFICES ASSUME IInv, Edit PROVE IInv' OBVIOUS
<1>1. PICK e \in Edits : /\ repo' = [repo EXCEPT ![e[1]] = e[2]]
                         /\ run' = [q \in Proc |-> [run[q] EXCEPT !.calm = @ /\ repo' = repo]]
  BY DEF Edit
<1>2. /\ evidence' = evidence /\ starts' = starts /\ faults' = faults
      /\ edits < MaxEdits /\ edits' = edits + 1
  BY DEF Edit
<1>3. repo' \in Snapshot BY <1>1, InitialAssumption DEF IInv, TypeOK
<1>4. ASSUME NEW q \in Proc
      PROVE  /\ run'[q] \in Run /\ Shape(run'[q]) /\ Sees(run'[q], repo')
             /\ run'[q].at = run[q].at /\ run'[q].cmd = run[q].cmd
             /\ run'[q].dir = run[q].dir /\ run'[q].before = run[q].before
  <2>1. run[q] \in Run /\ Shape(run[q]) /\ Sees(run[q], repo) BY RunType
  <2>2. run'[q] = [run[q] EXCEPT !.calm = @ /\ repo' = repo] BY <1>1
  <2> QED BY <2>1, <2>2, Bystander
<1>5. run' \in [Proc -> Run] BY <1>1, <1>4
<1>6. edits' \in 0 .. MaxEdits BY <1>2, BoundAssumption DEF IInv, TypeOK
<1>7. TypeOK' BY <1>2, <1>3, <1>5, <1>6 DEF IInv, TypeOK
<1>8. EvidenceFirst BY DEF IInv
<1>9. EvidenceFirst' BY <1>2, <1>4, <1>8 DEF EvidenceFirst
<1>10. \A q \in Proc : Shape(run[q])'
  BY <1>4 DEF Shape, Active, ReadBackOk, Drift, Blocked
<1>11. \A q \in Proc : Sees(run[q], repo)' BY <1>4 DEF Sees, Claim, Drift
<1> QED BY <1>7, <1>9, <1>10, <1>11 DEF IInv

LEMMA NextIInv == IInv /\ [Next]_vars => IInv'
<1> SUFFICES ASSUME IInv, [Next]_vars PROVE IInv' OBVIOUS
<1>1. CASE UNCHANGED vars
  <2>1. repo' = repo /\ evidence' = evidence /\ run' = run /\ starts' = starts
        /\ edits' = edits /\ faults' = faults
    BY <1>1 DEF vars
  <2>2. TypeOK' BY <2>1 DEF IInv, TypeOK
  <2>3. EvidenceFirst' BY <2>1 DEF IInv, EvidenceFirst
  <2>4. \A q \in Proc : Shape(run'[q]) /\ Sees(run'[q], repo') BY <2>1 DEF IInv
  <2>5. \A q \in Proc : Shape(run[q])'
    BY <2>4 DEF Shape, Active, ReadBackOk, Drift, Blocked
  <2>6. \A q \in Proc : Sees(run[q], repo)' BY <2>4 DEF Sees, Claim, Drift
  <2> QED BY <2>2, <2>3, <2>5, <2>6 DEF IInv
<1> QED BY <1>1, StartStep, ReadStep, DecideStep, SavePreStep, WriteStep, RereadStep,
           JudgeStep, SavePostStep, FaultStep, EditStep DEF Next, Step

-----------------------------------------------------------------------------
(* What follows from it.                                                   *)

LEMMA NextManagerKept ==
  ASSUME IInv, [Next]_vars, repo.manager = "admin", edits' = edits
  PROVE  repo'.manager = "admin"
<1>1. ASSUME NEW p \in Proc, Effect(run[p]), run[p].at = "write", run[p].todo # <<>>
      PROVE  repo'.manager = "admin"
  BY <1>1, RunType, EffectType DEF IInv
<1>2. CASE repo' = repo BY <1>2
<1>3. ASSUME NEW p \in Proc, Write(p) PROVE repo'.manager = "admin"
  BY <1>1, <1>2, <1>3 DEF Write
<1>4. ASSUME NEW p \in Proc, Fault(p) PROVE repo'.manager = "admin"
  BY <1>1, <1>2, <1>4 DEF Fault
<1>5. ~Edit
  <2>1. edits \in Nat BY DEF IInv, TypeOK
  <2> QED BY <2>1 DEF Edit
<1>6. ASSUME NEW p \in Proc, Step(p), ~Write(p) PROVE repo' = repo
  BY <1>6 DEF Step, Start, Read, Decide, SavePre, Reread, Judge, SavePost
<1> QED BY <1>2, <1>3, <1>4, <1>5, <1>6 DEF Next, vars

LEMMA NextReviewedOnly ==
  ASSUME IInv, [Next]_vars, NEW p \in Proc,
         run[p].cmd = "apply", run[p].at = "write", Moves(p),
         repo.protection # Unprotected, repo'.protection # repo.protection
  PROVE  \/ repo.protection.approvals = "declared" /\ repo.protection.status = Contexts
         \/ /\ run[p].migrate /\ MigrationReady(repo.protection)
            /\ Drift(run[p].before) = {"protection"}
         \/ repo.protection # run[p].before.protection
<1> DEFINE o == run[p]
<1>1. o \in Run /\ Shape(o) /\ repo \in Snapshot /\ run \in [Proc -> Run]
  BY RunType DEF IInv, TypeOK
<1>2. ~Blocked(o.before, o.migrate) BY <1>1 DEF Shape
<1>3. o.before.protection # Unprotected =>
        /\ o.before.protection.approvals = "declared"
        /\ \/ o.before.protection.status = Contexts
           \/ /\ o.migrate /\ MigrationReady(o.before.protection)
              /\ Drift(o.before) = {"protection"}
  BY <1>2 DEF Blocked
<1> QED BY <1>3

-----------------------------------------------------------------------------
(* The plan of a run: what is left of it, and how far it has come.         *)

\* The parts the calls of todo will write.
Pending(todo) == UNION {PartsOf[todo[i]] : i \in 1 .. Len(todo)}

\* What is left of the calls of a command, from any of them on.
Rest == [bootstrap |-> {<<"manager">>, <<>>},
         apply |-> {<<"agent", "policy", "protection">>, <<"policy", "protection">>,
                    <<"protection">>, <<>>},
         retire |-> {<<"bot">>, <<>>},
         rollback |-> {<<"protection", "agent", "bot", "manager">>,
                       <<"agent", "bot", "manager">>, <<"bot", "manager">>,
                       <<"manager">>, <<>>}]

\* A rollback that has not read the repository yet: it writes the policy first.
Opening(r) == r.cmd = "rollback" /\ r.before = NoSnapshot

\* Which calls are left, and that a run writes nothing before its first.
Plan(r) ==
  /\ r.at \in {"capture", "pre"} /\ r.cmd # "rollback" => ~r.wrote
  /\ Active(r) /\ r.cmd = "rollback" /\ ~Opening(r) => r.at \in {"write", "readback"}
  /\ r.at \in {"pre", "write", "readback"} /\ ~Opening(r) =>
       r.before \in Snapshot /\ r.todo \in Rest[r.cmd]
  /\ r.at = "write" /\ Opening(r) => r.todo \in {<<"policy">>, <<>>}
  /\ r.at = "readback" => r.todo = <<>> /\ ~Opening(r)
  /\ r.at = "pre" => r.todo = Script[r.cmd]
  /\ r.cmd = "apply" /\ r.at \in {"pre", "write", "readback"} => ~Blocked(r.before, r.migrate)

\* Why an undisturbed run was refused: it had written nothing and was no rollback,
\* or its snapshot and the repository have no protection.
Excused(r) ==
  r.wrote \/ r.cmd = "rollback" => r.cmd = "rollback" /\ r.target.protection = Unprotected

\* How far an undisturbed run has come: the calls that are over have had their
\* effect, and the other parts are as the run has read them.
Progress(r, s) ==
  r.calm =>
    /\ r.cmd # "bootstrap" /\ Active(r) => s.manager = "admin"
    /\ r.at = "pre" => s = r.before
    /\ Opening(r) /\ ((r.at = "write" /\ r.todo = <<>>) \/ r.at = "capture") =>
         \A x \in PartsOf["policy"] : s[x] = r.target[x]
    /\ r.at \in {"write", "readback"} /\ ~Opening(r) =>
         /\ \A x \in Parts : s[x] = IF x \in Pending(Script[r.cmd]) \ Pending(r.todo)
                                    THEN Goal(r, x) ELSE r.before[x]
         /\ r.cmd = "rollback" => \A x \in PartsOf["policy"] : r.before[x] = r.target[x]
    /\ r.at = "refused" => Excused(r)

PInv == \A p \in Proc : Plan(run[p]) /\ Progress(run[p], repo)

LEMMA PendingOf ==
  /\ Pending(<<>>) = {} /\ Pending(<<"manager">>) = {"manager"}
  /\ Pending(<<"bot">>) = {"bot"} /\ Pending(<<"protection">>) = {"protection"}
  /\ Pending(<<"policy", "protection">>) = {"private", "prune", "protection"}
  /\ Pending(<<"bot", "manager">>) = {"bot", "manager"}
  /\ Pending(<<"agent", "policy", "protection">>)
       = {"agent", "private", "prune", "protection"}
  /\ Pending(<<"agent", "bot", "manager">>) = {"agent", "bot", "manager"}
  /\ Pending(<<"protection", "agent", "bot", "manager">>)
       = {"protection", "agent", "bot", "manager"}
<1> DEFINE P == PartsOf
<1>1. /\ P["policy"] = {"private", "prune"} /\ P["protection"] = {"protection"}
      /\ P["manager"] = {"manager"} /\ P["agent"] = {"agent"} /\ P["bot"] = {"bot"}
  BY DEF PartsOf
<1> HIDE DEF P
<1>2. ASSUME NEW a PROVE Pending(<<a>>) = P[a]
  <2>1. 1 .. Len(<<a>>) = {1} OBVIOUS
  <2> QED BY <2>1 DEF Pending, P
<1>3. ASSUME NEW a, NEW b PROVE Pending(<<a, b>>) = P[a] \cup P[b]
  <2>1. 1 .. Len(<<a, b>>) = {1, 2} OBVIOUS
  <2> QED BY <2>1 DEF Pending, P
<1>4. ASSUME NEW a, NEW b, NEW c PROVE Pending(<<a, b, c>>) = P[a] \cup P[b] \cup P[c]
  <2>1. 1 .. Len(<<a, b, c>>) = {1, 2, 3} OBVIOUS
  <2> QED BY <2>1 DEF Pending, P
<1>5. ASSUME NEW a, NEW b, NEW c, NEW d
      PROVE  Pending(<<a, b, c, d>>) = P[a] \cup P[b] \cup P[c] \cup P[d]
  <2>1. 1 .. Len(<<a, b, c, d>>) = {1, 2, 3, 4} OBVIOUS
  <2> QED BY <2>1 DEF Pending, P
<1>6. Pending(<<>>) = {}
  <2>1. 1 .. Len(<<>>) = {} OBVIOUS
  <2> QED BY <2>1 DEF Pending
<1> QED BY <1>1, <1>2, <1>3, <1>4, <1>5, <1>6

\* The next call writes parts that are still to be written, and no others are
\* settled by it.
LEMMA Advance ==
  ASSUME NEW cmd \in Commands, NEW t \in Rest[cmd], t # <<>>
  PROVE  /\ Tail(t) \in Rest[cmd]
         /\ PartsOf[Head(t)] \subseteq Pending(t)
         /\ Pending(Tail(t)) = Pending(t) \ PartsOf[Head(t)]
         /\ Pending(t) \subseteq Pending(Script[cmd])
<1>1. /\ PartsOf["policy"] = {"private", "prune"} /\ PartsOf["protection"] = {"protection"}
      /\ PartsOf["manager"] = {"manager"} /\ PartsOf["agent"] = {"agent"}
      /\ PartsOf["bot"] = {"bot"}
  BY DEF PartsOf
<1>2. CASE cmd = "bootstrap"
  <2>1. t = <<"manager">> BY <1>2 DEF Rest
  <2>2. Head(t) = "manager" /\ Tail(t) = <<>> BY <2>1
  <2> QED BY <1>1, <1>2, <2>1, <2>2, PendingOf DEF Rest, Script
<1>3. CASE cmd = "retire"
  <2>1. t = <<"bot">> BY <1>3 DEF Rest
  <2>2. Head(t) = "bot" /\ Tail(t) = <<>> BY <2>1
  <2> QED BY <1>1, <1>3, <2>1, <2>2, PendingOf DEF Rest, Script
<1>4. CASE cmd = "apply"
  <2>1. t \in {<<"agent", "policy", "protection">>, <<"policy", "protection">>,
               <<"protection">>}
    BY <1>4 DEF Rest
  <2>2. CASE t = <<"agent", "policy", "protection">>
    <3>1. Head(t) = "agent" /\ Tail(t) = <<"policy", "protection">> BY <2>2
    <3> QED BY <1>1, <1>4, <2>2, <3>1, PendingOf DEF Rest, Script
  <2>3. CASE t = <<"policy", "protection">>
    <3>1. Head(t) = "policy" /\ Tail(t) = <<"protection">> BY <2>3
    <3> QED BY <1>1, <1>4, <2>3, <3>1, PendingOf DEF Rest, Script
  <2>4. CASE t = <<"protection">>
    <3>1. Head(t) = "protection" /\ Tail(t) = <<>> BY <2>4
    <3> QED BY <1>1, <1>4, <2>4, <3>1, PendingOf DEF Rest, Script
  <2> QED BY <2>1, <2>2, <2>3, <2>4
<1>5. CASE cmd = "rollback"
  <2>1. t \in {<<"protection", "agent", "bot", "manager">>, <<"agent", "bot", "manager">>,
               <<"bot", "manager">>, <<"manager">>}
    BY <1>5 DEF Rest
  <2>2. CASE t = <<"protection", "agent", "bot", "manager">>
    <3>1. Head(t) = "protection" /\ Tail(t) = <<"agent", "bot", "manager">> BY <2>2
    <3> QED BY <1>1, <1>5, <2>2, <3>1, PendingOf DEF Rest, Script
  <2>3. CASE t = <<"agent", "bot", "manager">>
    <3>1. Head(t) = "agent" /\ Tail(t) = <<"bot", "manager">> BY <2>3
    <3> QED BY <1>1, <1>5, <2>3, <3>1, PendingOf DEF Rest, Script
  <2>4. CASE t = <<"bot", "manager">>
    <3>1. Head(t) = "bot" /\ Tail(t) = <<"manager">> BY <2>4
    <3> QED BY <1>1, <1>5, <2>4, <3>1, PendingOf DEF Rest, Script
  <2>5. CASE t = <<"manager">>
    <3>1. Head(t) = "manager" /\ Tail(t) = <<>> BY <2>5
    <3> QED BY <1>1, <1>5, <2>5, <3>1, PendingOf DEF Rest, Script
  <2> QED BY <2>1, <2>2, <2>3, <2>4, <2>5
<1> QED BY <1>2, <1>3, <1>4, <1>5 DEF Commands

\* Where a script ends and where it begins.
LEMMA Scripts ==
  /\ \A cmd \in Commands : Script[cmd] \in Rest[cmd] /\ <<>> \in Rest[cmd]
  /\ Pending(Script["bootstrap"]) = {"manager"} /\ Pending(Script["retire"]) = {"bot"}
  /\ Pending(Script["apply"]) = {"agent", "private", "prune", "protection"}
  /\ Pending(Script["rollback"]) = {"protection", "agent", "bot", "manager"}
BY PendingOf DEF Script, Rest, Commands

LEMMA PBystander ==
  ASSUME NEW r \in Run, NEW s, NEW t, Plan(r), Progress(r, s),
         NEW q, q = [r EXCEPT !.calm = @ /\ t = s]
  PROVE  Plan(q) /\ Progress(q, t)
<1> DEFINE calm == r.calm /\ t = s
<1>1. calm \in BOOLEAN /\ (calm => r.calm /\ t = s) OBVIOUS
<1>2. q = [r EXCEPT !.calm = calm] BY DEF Run
<1> HIDE DEF calm
<1>3. /\ q.calm = calm /\ q.at = r.at /\ q.cmd = r.cmd /\ q.migrate = r.migrate
      /\ q.target = r.target /\ q.before = r.before /\ q.todo = r.todo
      /\ q.wrote = r.wrote
  BY <1>1, <1>2 DEF Run
<1>4. (Active(q) <=> Active(r)) /\ (Opening(q) <=> Opening(r))
  BY <1>3 DEF Active, Opening
<1>5. (\A x : Goal(q, x) = Goal(r, x)) /\ (Excused(q) <=> Excused(r))
  BY <1>3 DEF Goal, Excused
<1>6. Plan(q) BY <1>3, <1>4 DEF Plan
<1>7. ASSUME calm PROVE Progress(q, t)
  <2>1. r.calm /\ t = s BY <1>1, <1>7
  <2> QED BY <1>3, <1>4, <1>5, <2>1 DEF Progress
<1>8. Progress(q, t) BY <1>3, <1>7 DEF Progress
<1> QED BY <1>6, <1>8

LEMMA PPrimed ==
  (\A q \in Proc : Plan(run'[q]) /\ Progress(run'[q], repo')) => PInv'
BY DEF PInv, Plan, Progress, Excused, Opening, Active, Pending, Goal, Blocked, MigrationReady, Drift

\* Process p becomes r, which goes to plan.
LEMMA POneMoves ==
  ASSUME IInv, PInv, NEW p \in Proc, NEW r, Become(p, r), Plan(r), Progress(r, repo')
  PROVE  PInv'
<1>1. run' = [q \in Proc |-> IF q = p THEN r ELSE [run[q] EXCEPT !.calm = @ /\ repo' = repo]]
  BY DEF Become
<1>2. run'[p] = r BY <1>1
<1>3. ASSUME NEW q \in Proc \ {p} PROVE Plan(run'[q]) /\ Progress(run'[q], repo')
  <2>1. run[q] \in Run /\ Plan(run[q]) /\ Progress(run[q], repo) BY RunType DEF PInv
  <2>2. run'[q] = [run[q] EXCEPT !.calm = @ /\ repo' = repo] BY <1>1
  <2> QED BY <2>1, <2>2, PBystander
<1> QED BY <1>2, <1>3, PPrimed

\* The end of a run, unless it goes back on what it wrote.
LEMMA PEnd ==
  ASSUME IInv, PInv, NEW p \in Proc, NEW outcome \in {"done", "refused"}, End(p, outcome),
         outcome = "refused" /\ run[p].calm => Excused(run[p])
  PROVE  PInv'
<1> DEFINE o == run[p]
           r == [Idle EXCEPT !.cmd = o.cmd, !.at = outcome, !.target = o.target,
                   !.calm = o.calm, !.wrote = o.wrote]
<1>1. o \in Run BY RunType
<1>2. /\ r.cmd = o.cmd /\ r.at = outcome /\ r.target = o.target
      /\ r.calm = o.calm /\ r.wrote = o.wrote
  BY <1>1 DEF Run, Idle
<1>3. Become(p, r) BY DEF End
<1>4. r.at = "refused" /\ r.calm => Excused(r)
  BY <1>2 DEF Excused
<1>5. r.at \in {"done", "refused"} BY <1>2
<1> HIDE DEF r, o
<1>6. Plan(r) BY <1>5 DEF Plan, Active
<1>7. Progress(r, repo') BY <1>4, <1>5 DEF Progress, Active
<1> QED BY <1>3, <1>6, <1>7, POneMoves

LEMMA InitPInv == Init => PInv
<1>1. Idle.at = "idle" /\ Idle.calm = FALSE BY DEF Idle
<1>2. Plan(Idle) /\ Progress(Idle, repo) BY <1>1 DEF Plan, Progress, Active
<1> QED BY <1>2 DEF Init, PInv

LEMMA PlanType ==
  ASSUME IInv, PInv, NEW p \in Proc
  PROVE  /\ run[p] \in Run /\ Shape(run[p]) /\ Sees(run[p], repo) /\ repo \in Snapshot
         /\ Plan(run[p]) /\ Progress(run[p], repo) /\ run[p].cmd \in Commands
BY RunType DEF PInv, Run

LEMMA PStart == ASSUME IInv, PInv, NEW p \in Proc, Start(p) PROVE PInv'
<1>1. PICK cmd \in Commands, dir \in Dirs \cup {NoSnapshot}, migrate \in BOOLEAN :
        \E target \in IF cmd = "rollback" THEN Kept \ {NoSnapshot} ELSE {NoSnapshot} :
          Become(p, [Idle EXCEPT !.cmd = cmd, !.dir = dir, !.migrate = migrate,
                       !.target = target,
                       !.at = IF cmd = "rollback" THEN "write" ELSE "capture",
                       !.todo = IF cmd = "rollback" THEN <<"policy">> ELSE <<>>,
                       !.calm = cmd = "bootstrap" \/ repo.manager = "admin"])
  BY DEF Start
<1>2. PICK target :
        Become(p, [Idle EXCEPT !.cmd = cmd, !.dir = dir, !.migrate = migrate,
                     !.target = target,
                     !.at = IF cmd = "rollback" THEN "write" ELSE "capture",
                     !.todo = IF cmd = "rollback" THEN <<"policy">> ELSE <<>>,
                     !.calm = cmd = "bootstrap" \/ repo.manager = "admin"])
  BY <1>1
<1>3. PICK at : at = IF cmd = "rollback" THEN "write" ELSE "capture" OBVIOUS
<1>4. PICK todo : todo = IF cmd = "rollback" THEN <<"policy">> ELSE <<>> OBVIOUS
<1>5. PICK calm \in BOOLEAN : calm = (cmd = "bootstrap" \/ repo.manager = "admin")
  OBVIOUS
<1> DEFINE r == [Idle EXCEPT !.cmd = cmd, !.dir = dir, !.migrate = migrate,
                   !.target = target, !.at = at, !.todo = todo, !.calm = calm]
<1>6. Become(p, r) BY <1>2, <1>3, <1>4, <1>5
<1>7. /\ r.cmd = cmd /\ r.at = at /\ r.todo = todo /\ r.calm = calm
      /\ r.before = NoSnapshot /\ r.wrote = FALSE
  BY DEF Idle
<1>8. <<"policy">> # <<>> OBVIOUS
<1>9. repo' = repo BY DEF Start
<1> HIDE DEF r
<1>10. Plan(r) BY <1>3, <1>4, <1>7 DEF Plan, Opening
<1>11. Progress(r, repo') BY <1>3, <1>4, <1>5, <1>7, <1>8, <1>9 DEF Progress, Opening
<1> QED BY <1>6, <1>10, <1>11, POneMoves

LEMMA PRead == ASSUME IInv, PInv, NEW p \in Proc, Read(p) PROVE PInv'
<1> DEFINE o == run[p]
           fresh == IF o.seen = NoSnapshot THEN repo ELSE o.seen
           seen == [x \in Parts |-> IF x \in Reads[o.got + 1] THEN repo[x] ELSE fresh[x]]
           r == [o EXCEPT !.got = @ + 1, !.seen = seen]
<1>1. o \in Run /\ Plan(o) /\ Progress(o, repo) BY PlanType
<1>2. repo' = repo /\ Become(p, r) BY DEF Read
<1> HIDE DEF seen
<1>3. /\ r.cmd = o.cmd /\ r.at = o.at /\ r.todo = o.todo /\ r.calm = o.calm
      /\ r.before = o.before /\ r.wrote = o.wrote /\ r.target = o.target
      /\ r.migrate = o.migrate
  BY <1>1 DEF Run
<1> HIDE DEF r, o
<1>4. Plan(r) BY <1>1, <1>3 DEF Plan, Opening, Active
<1>5. Progress(r, repo') BY <1>1, <1>2, <1>3 DEF Progress, Opening, Active, Goal, Excused
<1> QED BY <1>2, <1>4, <1>5, POneMoves

LEMMA PDecide == ASSUME IInv, PInv, NEW p \in Proc, Decide(p) PROVE PInv'
<1> DEFINE o == run[p]
           at == IF o.cmd \in Recorded THEN "pre" ELSE "write"
           r == [o EXCEPT !.at = at, !.before = o.seen, !.todo = Script[o.cmd]]
<1>1. /\ o \in Run /\ Shape(o) /\ Sees(o, repo) /\ repo \in Snapshot
      /\ Plan(o) /\ Progress(o, repo) /\ o.cmd \in Commands
  BY PlanType
<1>2. /\ repo' = repo /\ o.at = "capture" /\ o.got = 3
      /\ IF ~Accepts(o) THEN Refuse(p)
         ELSE IF o.cmd = "retire" /\ o.seen.bot = "missing" THEN Done(p)
         ELSE Become(p, r)
  BY DEF Decide, Reads
<1>3. o.seen \in Snapshot /\ (o.calm => o.seen = repo) BY <1>1, <1>2, AllRead
<1>4. CASE ~Accepts(o)
  <2>1. o.wrote => o.cmd = "rollback" BY <1>1, <1>2 DEF Plan
  <2>2. o.cmd = "rollback" => o.target.protection = Unprotected BY <1>4 DEF Accepts
  <2> QED BY <1>2, <1>4, <2>1, <2>2, PEnd DEF Refuse, Excused
<1>5. CASE Accepts(o) /\ o.cmd = "retire" /\ o.seen.bot = "missing"
  BY <1>2, <1>5, PEnd DEF Done
<1>6. CASE Accepts(o) /\ ~(o.cmd = "retire" /\ o.seen.bot = "missing")
  <2>1. at \in {"pre", "write"} /\ (at = "pre" <=> o.cmd \in Recorded) OBVIOUS
  <2> HIDE DEF at
  <2>2. /\ r.cmd = o.cmd /\ r.at = at /\ r.todo = Script[o.cmd] /\ r.calm = o.calm
        /\ r.before = o.seen /\ r.wrote = o.wrote /\ r.target = o.target
        /\ r.migrate = o.migrate
    BY <1>1 DEF Run
  <2>3. Become(p, r) BY <1>2, <1>6
  <2>4. o.cmd = "apply" => ~Blocked(o.seen, o.migrate) BY <1>6 DEF Accepts
  <2>5. Script[o.cmd] \in Rest[o.cmd] BY <1>1, Scripts
  <2>6. o.seen # NoSnapshot BY <1>3, NoSnapshotAssumption
  <2>7. o.cmd = "rollback" => Opening(o) BY <1>1, <1>2 DEF Plan, Active
  <2>8. "rollback" \notin Recorded BY DEF Recorded
  <2> HIDE DEF r, o
  <2>9. Plan(r)
    <3>1. ~Opening(r) BY <2>2, <2>6 DEF Opening
    <3>2. r.at \in {"capture", "pre"} /\ r.cmd # "rollback" => ~r.wrote
      BY <1>1, <1>2, <2>2 DEF Plan
    <3>3. r.cmd = "rollback" => r.at = "write" BY <2>1, <2>2, <2>8
    <3> QED BY <1>3, <2>1, <2>2, <2>4, <2>5, <3>1, <3>2, <3>3 DEF Plan
  <2>10. Progress(r, repo')
    <3> SUFFICES ASSUME o.calm PROVE Progress(r, repo') BY <2>2 DEF Progress
    <3>1. ~Opening(r) BY <2>2, <2>6 DEF Opening
    <3>2. r.cmd # "bootstrap" => repo.manager = "admin"
      BY <1>1, <1>2, <2>2 DEF Progress, Active
    <3>3. r.cmd = "rollback" => \A x \in PartsOf["policy"] : repo[x] = r.target[x]
      BY <1>1, <1>2, <2>2, <2>7 DEF Progress
    <3>4. r.before = repo /\ r.todo = Script[r.cmd] BY <1>3, <2>2
    <3> QED BY <1>2, <2>1, <2>2, <3>1, <3>2, <3>3, <3>4 DEF Progress
  <2> QED BY <2>3, <2>9, <2>10, POneMoves
<1> QED BY <1>4, <1>5, <1>6

LEMMA PSavePre == ASSUME IInv, PInv, NEW p \in Proc, SavePre(p) PROVE PInv'
<1> DEFINE o == run[p]
           r == [o EXCEPT !.at = "write"]
<1>1. /\ o \in Run /\ Shape(o) /\ repo \in Snapshot
      /\ Plan(o) /\ Progress(o, repo) /\ o.cmd \in Commands
  BY PlanType
<1>2. repo' = repo /\ o.at = "pre" /\ (Refuse(p) \/ Become(p, r)) BY DEF SavePre
<1>3. o.cmd # "rollback" /\ ~o.wrote BY <1>1, <1>2 DEF Shape, Recorded, Plan
<1>4. CASE Refuse(p) BY <1>3, <1>4, PEnd DEF Refuse, Excused
<1>5. CASE Become(p, r)
  <2>1. /\ r.cmd = o.cmd /\ r.at = "write" /\ r.todo = o.todo /\ r.calm = o.calm
        /\ r.before = o.before /\ r.wrote = o.wrote /\ r.target = o.target
        /\ r.migrate = o.migrate
    BY <1>1 DEF Run
  <2> HIDE DEF r, o
  <2>2. ~Opening(o) /\ ~Opening(r) BY <1>3, <2>1 DEF Opening
  <2>3. r.before \in Snapshot /\ r.todo \in Rest[r.cmd] /\ r.todo = Script[r.cmd]
    BY <1>1, <1>2, <2>1, <2>2 DEF Plan
  <2>4. Plan(r) BY <1>1, <1>2, <1>3, <2>1, <2>2, <2>3 DEF Plan
  <2>5. Progress(r, repo')
    <3>1. r.calm => repo = r.before /\ (r.cmd # "bootstrap" => repo.manager = "admin")
      BY <1>1, <1>2, <2>1 DEF Progress, Active
    <3> QED BY <1>2, <1>3, <2>1, <2>2, <2>3, <3>1 DEF Progress
  <2> QED BY <1>5, <2>4, <2>5, POneMoves
<1> QED BY <1>2, <1>4, <1>5

\* A call of an undisturbed run is not refused: the manager may make it, and a
\* protection it writes is as the run has read it.
LEMMA CallAccepted ==
  ASSUME IInv, PInv, NEW p \in Proc, run[p].at = "write", run[p].todo # <<>>,
         run[p].calm
  PROVE  Accepted(run[p])
<1> DEFINE o == run[p]
<1>1. /\ o \in Run /\ Plan(o) /\ Progress(o, repo) /\ o.cmd \in Commands
  BY PlanType
<1>2. Written(o) \subseteq PartsOf[Head(o.todo)] BY DEF Written
<1>3. o.cmd # "bootstrap" => repo.manager = "admin" BY <1>1 DEF Progress, Active
<1>4. CASE Opening(o)
  <2>1. o.todo = <<"policy">> BY <1>1, <1>4 DEF Plan
  <2>2. Head(o.todo) = "policy" BY <2>1
  <2>3. "protection" \notin Written(o) BY <1>2, <2>2 DEF PartsOf
  <2> QED BY <1>3, <2>3 DEF Accepted
<1>5. CASE ~Opening(o)
  <2>1. o.todo \in Rest[o.cmd] BY <1>1, <1>5 DEF Plan
  <2>2. PartsOf[Head(o.todo)] \subseteq Pending(o.todo) BY <1>1, <2>1, Advance
  <2>3. ASSUME "protection" \in Written(o) PROVE repo.protection = o.before.protection
    <3>1. "protection" \in Pending(o.todo) BY <1>2, <2>2, <2>3
    <3>2. "protection" \in Parts BY DEF Parts
    <3>3. repo["protection"] = o.before["protection"]
      BY <1>1, <1>5, <3>1, <3>2 DEF Progress
    <3> QED BY <3>3
  <2> QED BY <1>3, <2>3 DEF Accepted
<1> QED BY <1>4, <1>5

LEMMA PWrite == ASSUME IInv, PInv, NEW p \in Proc, Write(p) PROVE PInv'
<1> DEFINE o == run[p]
<1>1. /\ o \in Run /\ Shape(o) /\ repo \in Snapshot
      /\ Plan(o) /\ Progress(o, repo) /\ o.cmd \in Commands
  BY PlanType
<1>2. /\ o.at = "write" /\ o.todo # <<>>
      /\ \/ /\ (Written(o) = {} /\ repo' = repo) \/ Effect(o)
            /\ Become(p, [o EXCEPT !.todo = Tail(@), !.wrote = @ \/ Written(o) # {}])
         \/ ~Accepted(o) /\ Refuse(p)
  BY DEF Write
<1>3. CASE ~Accepted(o) /\ Refuse(p)
  <2>1. ~o.calm BY <1>2, <1>3, CallAccepted
  <2> QED BY <1>3, <2>1, PEnd DEF Refuse
<1>4. CASE /\ (Written(o) = {} /\ repo' = repo) \/ Effect(o)
           /\ Become(p, [o EXCEPT !.todo = Tail(@), !.wrote = @ \/ Written(o) # {}])
  <2>1. PICK wrote \in BOOLEAN : wrote = (o.wrote \/ Written(o) # {}) OBVIOUS
  <2> DEFINE r == [o EXCEPT !.todo = Tail(o.todo), !.wrote = wrote]
  <2>2. Become(p, r) BY <1>4, <2>1
  <2>3. /\ r.at = "write" /\ r.cmd = o.cmd /\ r.todo = Tail(o.todo) /\ r.calm = o.calm
        /\ r.before = o.before /\ r.target = o.target /\ r.migrate = o.migrate
    BY <1>1, <1>2 DEF Run
  <2>4. repo.manager = "admin" => repo'.manager = "admin"
    BY <1>1, <1>2, <1>4, EffectType DEF IInv
  <2>5. Written(o) \subseteq PartsOf[Head(o.todo)] BY DEF Written
  <2>6. \A x \in Parts : repo'[x] = IF x \in Written(o) THEN Goal(o, x) ELSE repo[x]
    <3>1. Effect(o) => \A x \in Parts :
            repo'[x] = IF x \in Written(o) THEN Goal(o, x) ELSE repo[x]
      BY DEF Effect
    <3> QED BY <1>4, <3>1
  <2>7. o.cmd # "bootstrap" /\ o.calm => repo'.manager = "admin"
    BY <1>1, <1>2, <2>4 DEF Progress, Active
  <2>8. \A x : Goal(r, x) = Goal(o, x) BY <2>3 DEF Goal
  <2>9. (Opening(r) <=> Opening(o)) BY <2>3 DEF Opening
  <2> HIDE DEF r
  <2>10. CASE Opening(o)
    <3>1. o.todo = <<"policy">> BY <1>1, <1>2, <2>10 DEF Plan
    <3>2. Head(o.todo) = "policy" /\ Tail(o.todo) = <<>> BY <3>1
    <3>3. o.cmd = "rollback" BY <2>10 DEF Opening
    <3>4. Written(o) = PartsOf["policy"] BY <3>2, <3>3 DEF Written, Recorded
    <3>5. PartsOf["policy"] \subseteq Parts BY DEF PartsOf, Parts
    <3>6. \A x \in PartsOf["policy"] : repo'[x] = r.target[x]
      BY <2>3, <2>6, <3>3, <3>4, <3>5 DEF Goal
    <3>7. <<>> # <<"policy">> OBVIOUS
    <3>8. Plan(r) BY <2>3, <2>9, <2>10, <3>2, <3>3, <3>7 DEF Plan
    <3>9. Progress(r, repo') BY <2>3, <2>7, <2>9, <2>10, <3>6 DEF Progress
    <3> QED BY <2>2, <3>8, <3>9, POneMoves
  <2>11. CASE ~Opening(o)
    <3>1. o.before \in Snapshot /\ o.todo \in Rest[o.cmd] BY <1>1, <1>2, <2>11 DEF Plan
    <3>2. /\ Tail(o.todo) \in Rest[o.cmd]
          /\ PartsOf[Head(o.todo)] \subseteq Pending(o.todo)
          /\ Pending(Tail(o.todo)) = Pending(o.todo) \ PartsOf[Head(o.todo)]
          /\ Pending(o.todo) \subseteq Pending(Script[o.cmd])
      BY <1>1, <1>2, <3>1, Advance
    <3>4. o.cmd = "apply" => ~Blocked(o.before, o.migrate) BY <1>1, <1>2 DEF Plan
    <3>5. Plan(r) BY <2>3, <2>9, <2>11, <3>1, <3>2, <3>4 DEF Plan
    <3>6. ASSUME o.calm, NEW x \in Parts
          PROVE  repo'[x] = IF x \in Pending(Script[o.cmd]) \ Pending(Tail(o.todo))
                            THEN Goal(o, x) ELSE o.before[x]
      <4>1. repo[x] = IF x \in Pending(Script[o.cmd]) \ Pending(o.todo)
                      THEN Goal(o, x) ELSE o.before[x]
        BY <1>1, <1>2, <2>11, <3>6 DEF Progress
      <4>2. CASE x \in Written(o) BY <2>5, <2>6, <3>2, <4>2
      <4>3. CASE x \notin PartsOf[Head(o.todo)] BY <2>5, <2>6, <3>2, <4>1, <4>3
      <4>4. CASE x \in PartsOf[Head(o.todo)] /\ x \notin Written(o)
        <5>1. o.cmd \in Recorded /\ o.before[x] = Wanted[x] BY <4>4 DEF Written
        <5>2. Goal(o, x) = o.before[x] BY <5>1 DEF Goal, Recorded
        <5> QED BY <2>6, <4>1, <4>4, <5>2
      <4> QED BY <4>2, <4>3, <4>4
    <3>7. o.calm /\ o.cmd = "rollback" =>
            \A x \in PartsOf["policy"] : o.before[x] = o.target[x]
      BY <1>1, <1>2, <2>11 DEF Progress
    <3>8. Progress(r, repo')
      BY <2>3, <2>7, <2>8, <2>9, <2>11, <3>6, <3>7 DEF Progress
    <3> QED BY <2>2, <3>5, <3>8, POneMoves
  <2> QED BY <2>10, <2>11
<1> QED BY <1>2, <1>3, <1>4

LEMMA PReread == ASSUME IInv, PInv, NEW p \in Proc, Reread(p) PROVE PInv'
<1> DEFINE o == run[p]
           at == IF o.before = NoSnapshot THEN "capture" ELSE "readback"
           r == [o EXCEPT !.seen = NoSnapshot, !.got = 0, !.at = at]
<1>1. o \in Run /\ Plan(o) /\ Progress(o, repo) /\ o.cmd \in Commands BY PlanType
<1>2. /\ repo' = repo /\ o.at = "write" /\ o.todo = <<>> /\ Become(p, r)
  BY DEF Reread
<1>3. /\ at \in {"capture", "readback"} /\ (at = "capture" <=> o.before = NoSnapshot)
  OBVIOUS
<1> HIDE DEF at
<1>4. /\ r.at = at /\ r.cmd = o.cmd /\ r.before = o.before /\ r.target = o.target
      /\ r.migrate = o.migrate /\ r.todo = o.todo /\ r.calm = o.calm /\ r.wrote = o.wrote
  BY <1>1 DEF Run
<1> HIDE DEF r, o
<1>5. \A x : Goal(r, x) = Goal(o, x) BY <1>4 DEF Goal
<1>6. Opening(r) <=> Opening(o) BY <1>4 DEF Opening
<1>7. CASE Opening(o)
  <2>1. o.cmd = "rollback" /\ at = "capture" BY <1>3, <1>7 DEF Opening
  <2>2. Plan(r) BY <1>2, <1>4, <1>6, <1>7, <2>1 DEF Plan
  <2>3. Progress(r, repo')
    BY <1>1, <1>2, <1>4, <1>6, <1>7, <2>1 DEF Progress, Active
  <2> QED BY <1>2, <2>2, <2>3, POneMoves
<1>8. CASE ~Opening(o)
  <2>1. o.before \in Snapshot /\ o.todo \in Rest[o.cmd] BY <1>1, <1>2, <1>8 DEF Plan
  <2>2. at = "readback" BY <1>3, <2>1, NoSnapshotAssumption
  <2>3. o.cmd = "apply" => ~Blocked(o.before, o.migrate) BY <1>1, <1>2 DEF Plan
  <2>4. Plan(r) BY <1>2, <1>4, <1>6, <1>8, <2>1, <2>2, <2>3 DEF Plan
  <2>5. Progress(r, repo')
    BY <1>1, <1>2, <1>4, <1>5, <1>6, <1>8, <2>2 DEF Progress, Active
  <2> QED BY <1>2, <2>4, <2>5, POneMoves
<1> QED BY <1>7, <1>8

\* What an undisturbed run reads back is what it wanted.
LEMMA Converged ==
  ASSUME NEW o \in Run, NEW s \in Snapshot, o.cmd \in Commands, Plan(o), Progress(o, s),
         o.calm, o.at = "readback", o.seen = s, Shape(o)
  PROVE  ReadBackOk(o)
<1>1. /\ ~Opening(o) /\ o.todo = <<>> /\ o.before \in Snapshot BY DEF Plan
<1>2. \A x \in Parts : s[x] = IF x \in Pending(Script[o.cmd])
                              THEN Goal(o, x) ELSE o.before[x]
  BY <1>1, PendingOf DEF Progress
<1>3. CASE o.cmd = "bootstrap"
  <2>1. s["manager"] = Wanted["manager"] BY <1>2, <1>3, Scripts DEF Parts, Goal
  <2> QED BY <1>3, <2>1 DEF ReadBackOk, Wanted
<1>4. CASE o.cmd = "retire"
  <2>1. s["bot"] = Wanted["bot"] BY <1>2, <1>4, Scripts DEF Parts, Goal
  <2> QED BY <1>4, <2>1 DEF ReadBackOk, Wanted
<1>5. CASE o.cmd = "rollback"
  <2>1. o.target \in Snapshot BY <1>5 DEF Shape, Active
  <2>2. \A x \in PartsOf["policy"] : o.before[x] = o.target[x]
    BY <1>1, <1>5 DEF Progress
  <2>3. Parts = PartsOf["policy"] \cup Pending(Script["rollback"])
    BY Scripts DEF Parts, PartsOf
  <2>4. \A x \in Parts : s[x] = o.target[x] BY <1>2, <1>5, <2>2, <2>3 DEF Goal
  <2>5. s = o.target BY <2>1, <2>4, SameParts
  <2> QED BY <1>5, <2>5 DEF ReadBackOk
<1>6. CASE o.cmd = "apply"
  <2>1. ~Blocked(o.before, o.migrate) BY <1>6 DEF Plan
  <2>2. \A x \in {"agent", "private", "prune", "protection"} : s[x] = Wanted[x]
    BY <1>2, <1>6, Scripts DEF Parts, Goal
  <2>3. s["bot"] = o.before["bot"] /\ s["manager"] = o.before["manager"]
    BY <1>2, <1>6, Scripts DEF Parts
  <2>4. s["manager"] = Wanted["manager"]
    BY <1>6 DEF Progress, Active, Wanted
  <2>5. Drift(s) = {} BY <2>2, <2>4 DEF Drift, Governed, Parts
  <2>6. s.protection = DesiredProtection BY <2>2 DEF Wanted
  <2>7. /\ s.protection.approvals = "declared" /\ s.protection.status = Contexts
    BY <2>6 DEF DesiredProtection
  <2>8. o.migrate => Migratable BY <2>1 DEF Blocked
  <2>9. ~(o.migrate /\ MigrationReady(s.protection))
    <3>1. Migratable => Contexts = "declared" BY ManifestAssumption
    <3>2. MigrationReady(s.protection) => s.protection.status = "empty"
      BY DEF MigrationReady, DesiredProtection
    <3> QED BY <2>7, <3>1, <3>2 DEF MigrationReady
  <2>10. ~Blocked(s, o.migrate) BY <2>7, <2>8, <2>9 DEF Blocked
  <2>11. ASSUME o.migrate /\ MigrationReady(o.before.protection), NEW x \in Parts \ {"protection"}
         PROVE  s[x] = o.before[x]
    <3>1. Drift(o.before) = {"protection"} BY <2>1, <2>11 DEF Blocked
    <3>2. CASE x = "bot" BY <2>3, <3>2
    <3>3. CASE x # "bot"
      <4>1. x \in Governed BY <2>11, <3>3 DEF Governed
      <4>2. o.before[x] = Wanted[x] BY <2>11, <3>1, <4>1 DEF Drift
      <4>3. s[x] = Wanted[x] BY <2>5, <4>1 DEF Drift
      <4> QED BY <4>2, <4>3
    <3> QED BY <3>2, <3>3
  <2> QED BY <1>6, <2>5, <2>10, <2>11 DEF ReadBackOk
<1> QED BY <1>3, <1>4, <1>5, <1>6 DEF Commands

LEMMA PJudge == ASSUME IInv, PInv, NEW p \in Proc, Judge(p) PROVE PInv'
<1> DEFINE o == run[p]
           r == [o EXCEPT !.at = "post"]
<1>1. /\ o \in Run /\ Shape(o) /\ Sees(o, repo) /\ repo \in Snapshot
      /\ Plan(o) /\ Progress(o, repo) /\ o.cmd \in Commands
  BY PlanType
<1>2. /\ repo' = repo /\ o.at = "readback" /\ o.got = 3
      /\ IF ReadBackOk(o)
         THEN IF o.cmd \in Recorded THEN Become(p, r) ELSE Done(p)
         ELSE Refuse(p)
  BY DEF Judge, Reads
<1>3. CASE ~ReadBackOk(o)
  <2>1. o.calm => o.seen = repo BY <1>1, <1>2, AllRead
  <2>2. ~o.calm BY <1>1, <1>2, <1>3, <2>1, Converged
  <2> QED BY <1>2, <1>3, <2>2, PEnd DEF Refuse
<1>4. CASE ReadBackOk(o) /\ o.cmd \notin Recorded BY <1>2, <1>4, PEnd DEF Done
<1>5. CASE ReadBackOk(o) /\ o.cmd \in Recorded
  <2>1. Become(p, r) BY <1>2, <1>5
  <2>2. r.at = "post" /\ r.cmd = o.cmd /\ r.calm = o.calm /\ r.todo = o.todo
    BY <1>1 DEF Run
  <2>3. r.cmd # "rollback" BY <1>5, <2>2 DEF Recorded
  <2> HIDE DEF r, o
  <2>4. Plan(r) BY <2>2, <2>3 DEF Plan
  <2>5. Progress(r, repo') BY <1>1, <1>2, <2>2, <2>3 DEF Progress, Active, Opening
  <2> QED BY <2>1, <2>4, <2>5, POneMoves
<1> QED BY <1>3, <1>4, <1>5

LEMMA PSavePost == ASSUME IInv, PInv, NEW p \in Proc, SavePost(p) PROVE PInv'
<1> DEFINE o == run[p]
           f == <<o.dir, o.cmd>>
<1>1. o \in Run /\ Shape(o) BY PlanType
<1>2. /\ o.at = "post"
      /\ IF evidence[f].post # NoSnapshot THEN Refuse(p) ELSE Done(p)
  BY DEF SavePost
<1>3. o.cmd \in Recorded BY <1>1, <1>2 DEF Shape
<1>4. evidence[f] = [pre |-> o.before, post |-> NoSnapshot]
  BY <1>2, <1>3 DEF IInv, EvidenceFirst
<1>5. Done(p) BY <1>2, <1>4
<1> QED BY <1>5, PEnd DEF Done

LEMMA PFault == ASSUME IInv, PInv, NEW p \in Proc, Fault(p) PROVE PInv'
<1> DEFINE r == [Idle EXCEPT !.cmd = run[p].cmd, !.at = "refused"]
<1>1. Become(p, r) BY DEF Fault
<1>2. r.at = "refused" /\ r.calm = FALSE BY DEF Idle
<1> HIDE DEF r
<1>3. Plan(r) /\ Progress(r, repo') BY <1>2 DEF Plan, Progress, Active
<1> QED BY <1>1, <1>3, POneMoves

LEMMA PEdit == ASSUME IInv, PInv, Edit PROVE PInv'
<1>1. ASSUME NEW q \in Proc PROVE Plan(run'[q]) /\ Progress(run'[q], repo')
  <2>1. run[q] \in Run /\ Plan(run[q]) /\ Progress(run[q], repo) BY PlanType
  <2>2. run'[q] = [run[q] EXCEPT !.calm = @ /\ repo' = repo] BY DEF Edit
  <2> QED BY <2>1, <2>2, PBystander
<1> QED BY <1>1, PPrimed

LEMMA NextPInv == IInv /\ PInv /\ [Next]_vars => PInv'
<1> SUFFICES ASSUME IInv, PInv, [Next]_vars PROVE PInv' OBVIOUS
<1>1. CASE UNCHANGED vars
  <2>1. repo' = repo /\ run' = run BY <1>1 DEF vars
  <2>2. \A q \in Proc : Plan(run'[q]) /\ Progress(run'[q], repo') BY <2>1 DEF PInv
  <2> QED BY <2>2, PPrimed
<1> QED BY <1>1, PStart, PRead, PDecide, PSavePre, PWrite, PReread, PJudge, PSavePost,
           PFault, PEdit DEF Next, Step

-----------------------------------------------------------------------------

\* The variables keep their types.
THEOREM Typing == Spec => []TypeOK
<1>1. IInv => TypeOK BY DEF IInv
<1> QED BY <1>1, InitIInv, NextIInv, PTL DEF Spec

\* What a transaction writes can be undone: its evidence exists first and no
\* other transaction takes its place.
THEOREM Evidence == Spec => []EvidenceFirst
<1>1. IInv => EvidenceFirst BY DEF IInv
<1> QED BY <1>1, InitIInv, NextIInv, PTL DEF Spec

\* The receipt of an undisturbed transaction is true.
THEOREM Receipts == Spec => []ReceiptTrue
<1>1. IInv => ReceiptTrue BY DEF IInv, Sees, ReceiptTrue
<1> QED BY <1>1, InitIInv, NextIInv, PTL DEF Spec

\* A transaction that nobody disturbs does not go back on what it has written:
\* every call is accepted and the read-back shows what was wanted.
THEOREM CalmEnds == Spec => []CalmRunEnds
<1>1. PInv => CalmRunEnds BY DEF PInv, Progress, Excused, CalmRunEnds
<1> QED BY <1>1, InitIInv, NextIInv, InitPInv, NextPInv, PTL DEF Spec

\* A rollback that nobody disturbs gives up on its own only when its snapshot has
\* no protection: every other snapshot is restored, from wherever apply failed.
THEOREM RollbackGivesUp ==
  Spec => [](\A p \in Proc :
               run[p].at = "refused" /\ run[p].calm /\ run[p].cmd = "rollback" =>
                 run[p].target.protection = Unprotected)
<1> DEFINE GivesUp == \A p \in Proc :
      run[p].at = "refused" /\ run[p].calm /\ run[p].cmd = "rollback" =>
        run[p].target.protection = Unprotected
<1>1. PInv => GivesUp BY DEF PInv, Progress, Excused
<1>2. Spec => []GivesUp
  <2> HIDE DEF GivesUp
  <2> QED BY <1>1, InitIInv, NextIInv, InitPInv, NextPInv, PTL DEF Spec
<1> QED BY <1>2

\* No transaction takes the manager's right away.
THEOREM Manager == Spec => ManagerKept
<1>1. IInv /\ [Next]_vars =>
        [repo.manager = "admin" /\ edits' = edits => repo'.manager = "admin"]_<<repo, edits>>
  BY NextManagerKept
<1> QED BY <1>1, InitIInv, NextIInv, PTL DEF Spec, ManagerKept

\* apply only replaces a protection that it has judged, or that is new.
THEOREM Reviewed == Spec => ReviewedOnly
<1>1. IInv /\ [Next]_vars =>
        [\A p \in Proc :
           LET r == run[p]  old == repo.protection IN
             /\ r.cmd = "apply" /\ r.at = "write" /\ Moves(p)
             /\ old # Unprotected /\ repo'.protection # old
             => \/ old.approvals = "declared" /\ old.status = Contexts
                \/ r.migrate /\ MigrationReady(old) /\ Drift(r.before) = {"protection"}
                \/ old # r.before.protection]_<<repo, run>>
  BY NextReviewedOnly
<1> QED BY <1>1, InitIInv, NextIInv, PTL DEF Spec, ReviewedOnly
================================================================================
