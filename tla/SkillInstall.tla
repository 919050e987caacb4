----------------------------- MODULE SkillInstall -----------------------------
(***************************************************************************)
(* Installing a pinned release of the vendored skills under ~/.agents, and *)
(* rolling it back: releases/<tag> directories, one entry link per skill   *)
(* that leads through "current", and the two pointers current and          *)
(* previous.  Each link is replaced atomically, all of them are not; an    *)
(* ordinary failure is undone, an interruption is not, and neither is a    *)
(* failure that meets another one while it is undone.                      *)
(*                                                                         *)
(* Abstractions.  Hashing and front matter are left out: a release that is *)
(* there is intact, and every release is pinned in the repository.  A path *)
(* stands for the link that leads to it through current.  Of the user's    *)
(* entries the replacement tells three kinds apart: it replaces files and  *)
(* symbolic links, reads the target of the latter, and raises on a         *)
(* directory.                                                              *)
(***************************************************************************)
EXTENDS Naturals

CONSTANTS
  Names,        \* skills, numbered in the order of their names
  Release,      \* pinned releases
  Path,         \* directories of skills inside a release
  Contents,     \* of each release, the path of each skill or Absent
  Absent,       \* no such entry, skill or pointer
  File,         \* entries of the user: a file,
  Directory,    \* a directory,
  Other,        \* a symbolic link that is not ours
  MaxRuns,      \* bound: commands begun
  MaxFaults,    \* bound: failed steps and interruptions
  MaxEdits      \* bound: entries created or removed by the user

Foreign == {File, Directory, Other}

ASSUME NamesAssumption == Names \in Nat \ {0}
ASSUME ContentsAssumption ==
  /\ Contents \in [Release -> [1 .. Names -> Path \cup {Absent}]]
  /\ Absent \notin Path \cup Release \cup Foreign
  /\ Foreign \cap (Path \cup Release) = {}
  /\ Other \notin {File, Directory}
ASSUME BoundAssumption ==
  /\ MaxRuns \in Nat /\ MaxFaults \in Nat /\ MaxEdits \in Nat

Skill == 1 .. Names
Previous == Names + 1      \* the pointers come last in the order of replacement
Current == Names + 2
Slot == 1 .. Current
Entry == Path \cup {Absent} \cup Foreign
Pointer == Release \cup {Absent}

VARIABLES
  link,       \* entries and pointers: what each slot holds
  releases,   \* complete release directories
  at,         \* where the command is
  plan,       \* what prepare_install returned
  next,       \* the slot to be replaced next, or undone next
  undo,       \* slots replaced so far and what was in them
  start,      \* what the slots held when the command last checked them
  edited,     \* the user changed an entry since the command began
  stray,      \* entries a command replaced and, cut short, did not put back
  runs, faults, edits

vars == <<link, releases, at, plan, next, undo, start, edited, stray, runs, faults, edits>>
counters == <<runs, faults, edits>>

NoPlan == [tag |-> Absent, current |-> Absent, previous |-> Absent,
           changes |-> <<>>, kept |-> {}, rollback |-> FALSE]

Init ==
  /\ link \in [Slot -> {Absent} \cup Foreign]
  /\ link[Previous] = Absent /\ link[Current] = Absent
  /\ releases = {}
  /\ at = "idle" /\ plan = NoPlan /\ next = 0 /\ undo = <<>> /\ start = link
  /\ edited = FALSE /\ stray = {}
  /\ runs = 0 /\ faults = 0 /\ edits = 0

-----------------------------------------------------------------------------
(* prepare_install: what a release would change, or a refusal.             *)

\* Skills of a release; no release has none.
Has(r) == IF r = Absent THEN {} ELSE {n \in Skill : Contents[r][n] # Absent}

Owned(n) ==
  /\ n \in Has(link[Current])
  /\ link[n] = Contents[link[Current]][n]

\* Mutant: an entry that has to change is taken for the user's.
RefusedMoved(tag) ==
  \/ link[Previous] # Absent /\ link[Current] = Absent
  \/ \E n \in Has(tag) : link[n] \notin {Absent, Contents[tag][n]}

Refused(tag) ==
  \/ link[Previous] # Absent /\ link[Current] = Absent
  \/ \E n \in Has(tag) : link[n] # Absent /\ ~Owned(n)

\* Mutant: every owned entry of the old release is retired first.
ChangesRetire(tag) ==
  LET retired == {n \in Has(link[Current]) : link[Current] # tag /\ Owned(n)}
      moved == IF link[Current] \in {Absent, tag} THEN {} ELSE {Previous}
  IN [s \in Has(tag) \cup retired \cup moved \cup {Current} |->
        CASE s \in retired -> Absent
          [] s \in Has(tag) \ retired -> Contents[tag][s]
          [] s = Previous -> link[Current]
          [] s = Current -> tag]

\* Slots to write and what: entries of the new release, entries of the old one
\* that are retired, previous when the release changes, current.
Changes(tag) ==
  LET retired == {n \in Has(link[Current]) \ Has(tag) : Owned(n)}
      moved == IF link[Current] \in {Absent, tag} THEN {} ELSE {Previous}
  IN [s \in Has(tag) \cup retired \cup moved \cup {Current} |->
        CASE s \in Has(tag) -> Contents[tag][s]
          [] s \in retired -> Absent
          [] s = Previous -> link[Current]
          [] s = Current -> tag]

Plan(tag, rollback) ==
  [tag |-> tag, current |-> link[Current], previous |-> link[Previous],
   changes |-> Changes(tag), rollback |-> rollback,
   kept |-> {n \in Has(link[Current]) \ Has(tag) : link[n] # Absent /\ ~Owned(n)}]

\* No command is under way.
AtRest == {"idle", "done", "failed", "cut"}

Prepare(rollback, tag) ==
  /\ at \in AtRest /\ runs < MaxRuns
  /\ runs' = runs + 1
  /\ rollback => tag = link[Previous]
  /\ tag # Absent /\ ~Refused(tag)
  /\ plan' = Plan(tag, rollback)
  /\ edited' = FALSE
  /\ at' = "stage" /\ start' = link /\ undo' = <<>> /\ next' = 0
  /\ UNCHANGED <<link, releases, stray, faults, edits>>

\* Mutant: the staged copy takes the name of the current release.
StageCurrent ==
  /\ at = "stage"
  /\ releases' = releases \cup {plan.current}
  /\ at' = "check"
  /\ UNCHANGED <<link, plan, next, undo, start, edited, stray, counters>>

\* The staged copy is verified and renamed into place; then the plan is made
\* again and has to be the same.
Stage ==
  /\ at = "stage"
  /\ releases' = releases \cup {plan.tag}
  /\ at' = "check"
  /\ UNCHANGED <<link, plan, next, undo, start, edited, stray, counters>>

\* Mutant: the plan made before staging is carried out.
RecheckBlind ==
  /\ at = "check"
  /\ at' = "replace" /\ next' = 1
  /\ start' = link
  /\ UNCHANGED <<link, releases, plan, undo, edited, stray, counters>>

Recheck ==
  /\ at = "check"
  /\ IF Refused(plan.tag) \/ (plan.rollback /\ link[Previous] # plan.tag)
          \/ Plan(plan.tag, plan.rollback) # plan
     THEN at' = "failed" /\ UNCHANGED next
     ELSE at' = "replace" /\ next' = 1
  /\ start' = link
  /\ UNCHANGED <<link, releases, plan, undo, edited, stray, counters>>

\* The target of a symbolic link; files and directories read as nothing.
Before(s) == IF link[s] \in {File, Directory} THEN Absent ELSE link[s]

\* The slot has to be written; before it is, its old target is noted.
Due == next \in DOMAIN plan.changes /\ Before(next) # plan.changes[next]
Noted ==
  IF Due
  THEN [s \in DOMAIN undo \cup {next} |-> IF s = next THEN Before(next) ELSE undo[s]]
  ELSE undo

\* Replacing current ends the command.
Replace ==
  /\ at = "replace" /\ ~(Due /\ link[next] = Directory)
  /\ undo' = Noted
  /\ link' = IF Due THEN [link EXCEPT ![next] = plan.changes[next]] ELSE link
  /\ next' = next + 1
  /\ IF next = Current
     THEN at' = "done" /\ stray' = stray \ DOMAIN plan.changes
     ELSE UNCHANGED <<at, stray>>
  /\ UNCHANGED <<releases, plan, start, edited, counters>>

\* os.replace raises on a directory; its slot is one of those to be undone.
ReplaceRaises ==
  /\ at = "replace" /\ Due /\ link[next] = Directory
  /\ undo' = Noted /\ at' = "undo"
  /\ UNCHANGED <<link, releases, plan, next, start, edited, stray, counters>>

\* Neither os.replace nor unlink puts anything in the place of a directory.
Blocked == next \in DOMAIN undo /\ link[next] = Directory

\* Links are put back in reverse order.
Undo ==
  /\ at = "undo" /\ ~Blocked
  /\ link' = IF next \in DOMAIN undo THEN [link EXCEPT ![next] = undo[next]] ELSE link
  /\ next' = next - 1
  /\ at' = IF next = 1 THEN "failed" ELSE "undo"
  /\ UNCHANGED <<releases, plan, undo, start, edited, stray, counters>>

\* The command ends where it is.
Cut ==
  /\ at' = "cut"
  /\ stray' = stray \cup {n \in Skill : link[n] \in Path /\ link[n] # start[n]}

\* The exception leaves the loop: what comes before the slot is not put back.
UndoRaises ==
  /\ at = "undo" /\ Blocked
  /\ Cut
  /\ UNCHANGED <<link, releases, plan, next, undo, start, edited, counters>>

-----------------------------------------------------------------------------

\* Mutant: a failed replacement is not undone.
FailKeeps ==
  /\ at \in {"stage", "check", "replace"} /\ faults < MaxFaults
  /\ faults' = faults + 1
  /\ at' = "failed"
  /\ UNCHANGED <<link, releases, plan, next, undo, start, edited, stray, runs, edits>>

\* A step fails: before the first replacement nothing is to be undone; later
\* the slot at hand, not yet written, may already be noted.
Fail ==
  /\ at \in {"stage", "check", "replace"} /\ faults < MaxFaults
  /\ faults' = faults + 1
  /\ IF at = "replace"
     THEN at' = "undo" /\ undo' \in {undo, Noted}
     ELSE at' = "failed" /\ UNCHANGED undo
  /\ UNCHANGED <<link, releases, plan, next, start, edited, stray, runs, edits>>

\* The process is killed, an exception that is no Exception ends it, or a step
\* of the undoing fails.
Interrupt ==
  /\ at \in {"stage", "check", "replace", "undo"} /\ faults < MaxFaults
  /\ faults' = faults + 1
  /\ Cut
  /\ UNCHANGED <<link, releases, plan, next, undo, start, edited, runs, edits>>

\* The user puts something of their own where a skill goes, or takes an entry
\* away.
Edit(n) ==
  /\ edits < MaxEdits /\ edits' = edits + 1
  /\ \E e \in IF link[n] = Absent THEN Foreign ELSE {Absent} :
       link' = [link EXCEPT ![n] = e]
  /\ edited' = TRUE
  /\ UNCHANGED <<releases, at, plan, next, undo, start, stray, runs, faults>>

Next ==
  \/ \E tag \in Release, rollback \in BOOLEAN : Prepare(rollback, tag)
  \/ Stage \/ Recheck \/ Replace \/ ReplaceRaises \/ Undo \/ UndoRaises
  \/ Fail \/ Interrupt
  \/ \E n \in Skill : Edit(n)

Spec == Init /\ [][Next]_vars

-----------------------------------------------------------------------------
(* Properties.                                                             *)

TypeOK ==
  /\ link \in [Slot -> Entry \cup Release]
  /\ \A n \in Skill : link[n] \in Entry
  /\ link[Previous] \in Pointer /\ link[Current] \in Pointer
  /\ start \in [Slot -> Entry \cup Release]
  /\ releases \subseteq Release
  /\ at \in AtRest \cup {"stage", "check", "replace", "undo"}
  /\ DOMAIN plan.changes \subseteq Slot /\ DOMAIN undo \subseteq DOMAIN plan.changes
  /\ next \in 0 .. Current + 1 /\ edited \in BOOLEAN /\ stray \subseteq Skill
  /\ runs \in 0 .. MaxRuns /\ faults \in 0 .. MaxFaults /\ edits \in 0 .. MaxEdits

\* A command that says it is done, and was not disturbed, has done all of it:
\* every skill of the release is linked, no link is left to a retired one but
\* what a command that was cut had left there, the release before it is kept as
\* previous, and a rollback has swapped the pointers.  A command that failed
\* and undid, disturbed or not, has left every slot as it was; only where the
\* user meddled may an entry be the user's or missing.
AllOrNothing ==
  /\ at = "done" /\ ~edited =>
       /\ link[Current] = plan.tag
       /\ \A n \in Has(plan.tag) : Owned(n)
       /\ \A n \in Skill \ Has(plan.tag) : link[n] \in Path => n \in stray
       /\ start[Current] \notin {Absent, plan.tag} => link[Previous] = start[Current]
       /\ plan.rollback =>
            link[Current] = start[Previous] /\ link[Previous] = start[Current]
  /\ at = "failed" =>
       \A s \in Slot : \/ link[s] = start[s]
                       \/ s \in Skill /\ edited /\ link[s] \notin Path

\* At every moment, also after an interruption, the pointers lead to complete
\* releases and the skills that both releases have at the same path resolve.
Usable ==
  /\ link[Current] \in releases \cup {Absent} /\ link[Previous] \in releases \cup {Absent}
  /\ ~edited =>
       \A n \in Has(plan.current) \cap Has(plan.tag) :
         Contents[plan.current][n] = Contents[plan.tag][n] /\ start[n] # Absent => Owned(n)

\* Whatever was done, undone or cut, a release is refused only for an entry of
\* the user's or for a link that a command, cut short, replaced and did not put
\* back, in the place of one of its own skills.
OnlyForeignRefused ==
  at \in AtRest =>
    \A tag \in Release :
      Refused(tag) =>
        \E n \in Has(tag) : link[n] \in Foreign \/ (link[n] \in Path /\ n \in stray)

\* An entry of the user is replaced or removed only if it appeared after the
\* last check.
ForeignKept ==
  [][\A n \in Skill :
       link[n] \in Foreign /\ link'[n] # link[n] /\ edits' = edits =>
         start[n] \notin Foreign]_vars
=============================================================================
