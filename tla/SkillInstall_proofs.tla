-------------------------- MODULE SkillInstall_proofs --------------------------
(***************************************************************************)
(* The properties of SkillInstall for every set of skills, releases and    *)
(* contents and any number of commands, faults and edits.  The invariant   *)
(* says what each slot holds at every place of a command in terms of what  *)
(* it held when the command checked it last.                               *)
(***************************************************************************)
EXTENDS SkillInstall, TLAPS

PlanTyped ==
  /\ plan.tag \in Pointer /\ plan.current \in Pointer
  /\ at # "idle" => plan.tag \in Release
  /\ \A s \in DOMAIN plan.changes :
       /\ s \in Skill => plan.changes[s] \in Path \cup {Absent}
       /\ s = Previous => plan.changes[s] = plan.current
       /\ s = Current => plan.changes[s] = plan.tag
  /\ \A s \in DOMAIN undo :
       /\ s \in Skill => undo[s] \in Path \cup {Absent, Other}
       /\ s \notin Skill => undo[s] \in Pointer /\ undo[s] \in releases \cup {Absent}
  /\ at \in {"replace", "undo"} => next \in 1 .. Current

\* Whatever a pointer may come to hold is a complete release.
Complete ==
  /\ at \in {"check", "replace", "undo", "done"} => plan.tag \in releases
  /\ plan.current \in releases \cup {Absent}
  /\ link[Current] \in releases \cup {Absent}
  /\ link[Previous] \in releases \cup {Absent}

\* The plan is the one for what the command checked, unless the check before
\* the first replacement has just refused it.
PlanOfStart ==
  ~(at = "failed" /\ edited) =>
    /\ plan.current = start[Current]
    /\ \A n \in Has(plan.tag) :
         /\ n \in DOMAIN plan.changes
         /\ plan.changes[n] = Contents[plan.tag][n]
         /\ start[n] = Absent \/ (n \in Has(plan.current)
                                   /\ start[n] = Contents[plan.current][n])
    /\ \A n \in Skill \ Has(plan.tag) :
         IF n \in Has(plan.current) /\ start[n] = Contents[plan.current][n]
         THEN n \in DOMAIN plan.changes /\ plan.changes[n] = Absent
         ELSE n \notin DOMAIN plan.changes
    /\ plan.tag # Absent => Current \in DOMAIN plan.changes
    /\ Previous \in DOMAIN plan.changes <=> plan.current \notin {Absent, plan.tag}
    /\ plan.rollback => plan.tag = start[Previous]

\* Slot s holds x, or what the user has made of it since.
Holds(s, x) ==
  link[s] = x \/ (edited /\ s \in Skill /\ link[s] \in {Absent} \cup Foreign)

\* The slot's value when it has been replaced, where it is to be replaced.
New(s) == IF s \in DOMAIN plan.changes THEN plan.changes[s] ELSE start[s]

\* What undoing slot s restores.
Restores(s) ==
  undo[s] = start[s] \/ (edited /\ s \in Skill /\ undo[s] \in {Absent, Other})

Progress ==
  /\ \A s \in Slot : Holds(s, start[s]) \/ Holds(s, New(s))
  /\ at \in {"stage", "check", "failed"} => \A s \in Slot : Holds(s, start[s])
  /\ at \in {"stage", "check"} => DOMAIN undo = {}
  /\ at \in {"replace", "undo"} => link[Current] = start[Current]
  /\ at = "replace" =>
       \A s \in Slot :
         /\ s < next => Holds(s, New(s))
         /\ s >= next => Holds(s, start[s]) /\ s \notin DOMAIN undo
         /\ s \in DOMAIN undo => Restores(s)
         /\ s \notin DOMAIN undo => Holds(s, start[s])
  /\ at = "undo" =>
       \A s \in Slot :
         /\ s > next \/ s \notin DOMAIN undo => Holds(s, start[s])
         /\ s \in DOMAIN undo => Restores(s)
  /\ at = "done" => \A s \in Slot : Holds(s, New(s))

\* Entries lead to skills of the current release, except those that a command,
\* cut short, left astray; there is no previous release without a current one.
Tidy(l) ==
  /\ \A n \in Skill \ stray : l[n] \in Path =>
       n \in Has(l[Current]) /\ l[n] = Contents[l[Current]][n]
  /\ l[Previous] # Absent => l[Current] # Absent

TidyInv == Tidy(start) /\ (at \notin {"replace", "undo"} => Tidy(link))

IInv ==
  TypeOK /\ PlanTyped /\ Complete /\ PlanOfStart /\ Progress /\ TidyInv

-----------------------------------------------------------------------------
(* Operators.                                                              *)

\* The two pointers come after the entries.
LEMMA Slots ==
  /\ Previous \in Slot /\ Current \in Slot /\ Skill \subseteq Slot
  /\ Previous \notin Skill /\ Current \notin Skill /\ Previous # Current
  /\ \A s \in Slot : s \in Skill \/ s = Previous \/ s = Current
  /\ Slot \subseteq Nat /\ Current \in Nat /\ Current >= 3
  /\ \A s \in Slot : 1 <= s /\ s <= Current
BY NamesAssumption DEF Slot, Skill, Previous, Current

\* The kinds of values that a slot can hold.
LEMMA Kinds ==
  /\ Absent \notin Path /\ Absent \notin Release /\ Absent \notin Foreign
  /\ \A x \in Foreign : x \notin Path /\ x \notin Release
  /\ File \in Foreign /\ Directory \in Foreign /\ Other \in Foreign
  /\ Other # File /\ Other # Directory
BY ContentsAssumption DEF Foreign

\* The skills of a release have a path in it.
LEMMA HasPath ==
  ASSUME NEW r \in Pointer, NEW n \in Has(r)
  PROVE  n \in Skill /\ r \in Release /\ Contents[r][n] \in Path
BY ContentsAssumption DEF Has, Pointer, Skill

\* What prepare_install plans for a release that it does not refuse.
LEMMA PlanMade ==
  ASSUME TypeOK, NEW tag \in Release, NEW rollback, ~Refused(tag),
         NEW p, p = Plan(tag, rollback)
  PROVE  /\ p.tag = tag /\ p.current = link[Current] /\ p.rollback = rollback
         /\ DOMAIN p.changes \subseteq Slot
         /\ \A n \in Has(tag) :
              /\ n \in DOMAIN p.changes /\ p.changes[n] = Contents[tag][n]
              /\ link[n] = Absent \/ (n \in Has(link[Current])
                                       /\ link[n] = Contents[link[Current]][n])
         /\ \A n \in Skill \ Has(tag) :
              IF n \in Has(link[Current]) /\ link[n] = Contents[link[Current]][n]
              THEN n \in DOMAIN p.changes /\ p.changes[n] = Absent
              ELSE n \notin DOMAIN p.changes
         /\ Current \in DOMAIN p.changes /\ p.changes[Current] = tag
         /\ Previous \in DOMAIN p.changes <=> link[Current] \notin {Absent, tag}
         /\ Previous \in DOMAIN p.changes => p.changes[Previous] = link[Current]
<1>1. /\ p.tag = tag /\ p.current = link[Current] /\ p.rollback = rollback
      /\ p.changes = Changes(tag)
  BY DEF Plan
<1> DEFINE retired == {n \in Has(link[Current]) \ Has(tag) : Owned(n)}
           moved == IF link[Current] \in {Absent, tag} THEN {} ELSE {Previous}
           dom == Has(tag) \cup retired \cup moved \cup {Current}
<1>2. Changes(tag) = [s \in dom |->
                        CASE s \in Has(tag) -> Contents[tag][s]
                          [] s \in retired -> Absent
                          [] s = Previous -> link[Current]
                          [] s = Current -> tag]
  BY DEF Changes
<1>3. Has(tag) \subseteq Skill /\ retired \subseteq Skill /\ Has(tag) \cap retired = {}
  BY DEF Has
<1>4. Previous \notin Skill /\ Current \notin Skill /\ Previous # Current
      /\ Previous \in Slot /\ Current \in Slot /\ Skill \subseteq Slot
  BY Slots
<1>5. /\ DOMAIN p.changes = dom
      /\ \A s \in dom : p.changes[s] =
           CASE s \in Has(tag) -> Contents[tag][s]
             [] s \in retired -> Absent
             [] s = Previous -> link[Current]
             [] s = Current -> tag
  <2> HIDE DEF dom, retired
  <2> QED BY <1>1, <1>2
<1>6. \A n \in Has(tag) : n \in dom /\ p.changes[n] = Contents[tag][n]
  <2> HIDE DEF retired
  <2> QED BY <1>3, <1>4, <1>5
<1>7. \A n \in retired : n \in dom /\ p.changes[n] = Absent
  <2> HIDE DEF retired
  <2> QED BY <1>3, <1>4, <1>5
<1>8. Current \in dom /\ p.changes[Current] = tag
  <2> HIDE DEF retired
  <2> QED BY <1>3, <1>4, <1>5
<1>9. Previous \in moved => Previous \in dom /\ p.changes[Previous] = link[Current]
  <2> HIDE DEF retired
  <2> QED BY <1>3, <1>4, <1>5
<1>10. \A n \in Has(tag) : link[n] = Absent \/ Owned(n)
  BY DEF Refused
<1>11. \A n \in Skill \ Has(tag) : n \in dom <=> n \in retired
  BY <1>4
<1>12. Previous \in dom <=> link[Current] \notin {Absent, tag}
  BY <1>3, <1>4
<1>13. dom \subseteq Slot BY <1>3, <1>4
<1>14. \A n \in Skill \ Has(tag) : n \in retired <=>
         n \in Has(link[Current]) /\ link[n] = Contents[link[Current]][n]
  BY DEF Owned
<1>15. \A n \in Has(tag) :
         link[n] = Absent \/ (n \in Has(link[Current])
                               /\ link[n] = Contents[link[Current]][n])
  BY <1>10 DEF Owned
<1> HIDE DEF dom, retired, moved
<1> QED BY <1>1, <1>5, <1>6, <1>7, <1>8, <1>9, <1>11, <1>12, <1>13, <1>14, <1>15
        DEF moved

-----------------------------------------------------------------------------
(* The invariant.                                                          *)

LEMMA InitIInv == Init => IInv
<1> SUFFICES ASSUME Init PROVE IInv OBVIOUS
<1> USE Slots, ContentsAssumption, BoundAssumption
<1>1. /\ link \in [Slot -> {Absent} \cup Foreign] /\ start = link
      /\ link[Previous] = Absent /\ link[Current] = Absent /\ releases = {}
      /\ at = "idle" /\ plan = NoPlan /\ next = 0 /\ undo = <<>>
      /\ edited = FALSE /\ stray = {} /\ runs = 0 /\ faults = 0 /\ edits = 0
  BY DEF Init
<1>2. /\ plan.tag = Absent /\ plan.current = Absent /\ plan.rollback = FALSE
      /\ plan.changes = <<>>
  BY <1>1 DEF NoPlan
<1>3. DOMAIN plan.changes = {} /\ DOMAIN undo = {} BY <1>1, <1>2
<1>4. Has(Absent) = {} BY DEF Has
<1>5. TypeOK
  <2>1. link \in [Slot -> Entry \cup Release] BY <1>1 DEF Entry
  <2>2. \A n \in Skill : link[n] \in Entry BY <1>1 DEF Entry
  <2>3. next \in 0 .. Current + 1 BY <1>1
  <2>4. runs \in 0 .. MaxRuns /\ faults \in 0 .. MaxFaults /\ edits \in 0 .. MaxEdits
    BY <1>1
  <2>5. edited \in BOOLEAN /\ stray \subseteq Skill BY <1>1
  <2> QED BY <1>1, <1>3, <2>1, <2>2, <2>3, <2>4, <2>5 DEF TypeOK, Pointer, AtRest
<1>6. PlanTyped BY <1>1, <1>2, <1>3 DEF PlanTyped, Pointer
<1>7. Complete BY <1>1, <1>2 DEF Complete
<1>8. PlanOfStart BY <1>1, <1>2, <1>3, <1>4 DEF PlanOfStart
<1>9. Progress BY <1>1, <1>3 DEF Progress, Holds
<1>10. Tidy(link) BY <1>1, Kinds DEF Tidy
<1> QED BY <1>1, <1>5, <1>6, <1>7, <1>8, <1>9, <1>10 DEF IInv, TidyInv

LEMMA PrepareStep ==
  ASSUME IInv, NEW tag \in Release, NEW rollback \in BOOLEAN, Prepare(rollback, tag)
  PROVE  IInv'
<1> USE Slots, BoundAssumption
<1>0. TypeOK /\ PlanTyped /\ Complete /\ TidyInv BY DEF IInv
<1>1. /\ at \in {"idle", "done", "failed", "cut"} /\ runs < MaxRuns /\ runs' = runs + 1
      /\ rollback => tag = link[Previous]
      /\ ~Refused(tag) /\ plan' = Plan(tag, rollback) /\ ~edited'
      /\ edited' \in BOOLEAN
      /\ at' = "stage" /\ start' = link /\ undo' = <<>> /\ next' = 0
      /\ UNCHANGED <<link, releases, stray, faults, edits>>
  BY DEF Prepare, AtRest
<1>2. DOMAIN undo' = {} BY <1>1
<1>3. /\ plan'.tag = tag /\ plan'.current = link[Current]
      /\ plan'.rollback = rollback
      /\ DOMAIN plan'.changes \subseteq Slot
      /\ \A n \in Has(tag) :
           /\ n \in DOMAIN plan'.changes /\ plan'.changes[n] = Contents[tag][n]
           /\ link[n] = Absent \/ (n \in Has(link[Current])
                                    /\ link[n] = Contents[link[Current]][n])
      /\ \A n \in Skill \ Has(tag) :
           IF n \in Has(link[Current]) /\ link[n] = Contents[link[Current]][n]
           THEN n \in DOMAIN plan'.changes /\ plan'.changes[n] = Absent
           ELSE n \notin DOMAIN plan'.changes
      /\ Current \in DOMAIN plan'.changes /\ plan'.changes[Current] = tag
      /\ Previous \in DOMAIN plan'.changes <=> link[Current] \notin {Absent, tag}
      /\ Previous \in DOMAIN plan'.changes => plan'.changes[Previous] = link[Current]
  BY <1>0, <1>1, PlanMade
<1>4. TypeOK' BY <1>0, <1>1, <1>2, <1>3 DEF TypeOK
<1>5. PlanTyped'
  <2>1. tag \in Pointer /\ link[Current] \in Pointer BY <1>0 DEF TypeOK, Pointer
  <2>2. \A n \in Skill \cap DOMAIN plan'.changes : plan'.changes[n] \in Path \cup {Absent}
    BY <1>3, <2>1, HasPath
  <2> QED BY <1>1, <1>2, <1>3, <2>1, <2>2 DEF PlanTyped
<1>6. Complete' BY <1>0, <1>1, <1>3 DEF Complete
<1>7. PlanOfStart' BY <1>1, <1>3 DEF PlanOfStart, Has
<1>8. Progress' BY <1>1, <1>2 DEF Progress, Holds
<1>9. TidyInv' BY <1>0, <1>1 DEF TidyInv, Tidy, Has
<1> QED BY <1>4, <1>5, <1>6, <1>7, <1>8, <1>9 DEF IInv

LEMMA StageStep == IInv /\ Stage => IInv'
<1> SUFFICES ASSUME IInv, Stage PROVE IInv' OBVIOUS
<1>0. TypeOK /\ PlanTyped /\ Complete /\ PlanOfStart /\ Progress /\ TidyInv
  BY DEF IInv
<1>1. /\ at = "stage" /\ releases' = releases \cup {plan.tag} /\ at' = "check"
      /\ UNCHANGED <<link, plan, next, undo, start, edited, stray, runs, faults, edits>>
  BY DEF Stage, counters
<1>2. plan.tag \in Release BY <1>0, <1>1 DEF PlanTyped
<1>3. TypeOK' BY <1>0, <1>1, <1>2 DEF TypeOK
<1>4. PlanTyped' BY <1>0, <1>1 DEF PlanTyped
<1>5. Complete' BY <1>0, <1>1 DEF Complete
<1>6. PlanOfStart' BY <1>0, <1>1 DEF PlanOfStart, Has
<1>7. Progress' BY <1>0, <1>1 DEF Progress, Holds, New, Restores
<1>8. TidyInv' BY <1>0, <1>1 DEF TidyInv, Tidy, Has
<1> QED BY <1>3, <1>4, <1>5, <1>6, <1>7, <1>8 DEF IInv

LEMMA RecheckStep == IInv /\ Recheck => IInv'
<1> SUFFICES ASSUME IInv, Recheck PROVE IInv' OBVIOUS
<1> USE Slots
<1>0. TypeOK /\ PlanTyped /\ Complete /\ PlanOfStart /\ Progress /\ TidyInv
  BY DEF IInv
<1>1. /\ at = "check" /\ start' = link
      /\ UNCHANGED <<link, releases, plan, undo, edited, stray, runs, faults, edits>>
      /\ \/ at' = "failed" /\ next' = next
         \/ /\ at' = "replace" /\ next' = 1
            /\ ~Refused(plan.tag) /\ Plan(plan.tag, plan.rollback) = plan
            /\ plan.rollback => link[Previous] = plan.tag
  BY DEF Recheck, counters
<1>2. DOMAIN undo = {} /\ plan.tag \in Release /\ plan.tag \in Pointer
  BY <1>0, <1>1 DEF Progress, PlanTyped
<1>3. TypeOK' BY <1>0, <1>1 DEF TypeOK, AtRest
<1>4. PlanTyped' BY <1>0, <1>1, <1>2 DEF PlanTyped
<1>5. Complete' BY <1>0, <1>1 DEF Complete
<1>6. PlanOfStart'
  <2>1. CASE at' = "failed" /\ ~edited
    <3>1. \A s \in Slot : link[s] = start[s]
      BY <1>0, <1>1, <2>1 DEF Progress, Holds
    <3>2. PlanOfStart /\ ~(at = "failed" /\ edited) BY <1>0, <1>1
    <3>3. \A n \in Has(plan.tag) : n \in Slot BY DEF Has
    <3> QED BY <1>1, <3>1, <3>2, <3>3 DEF PlanOfStart, Has
  <2>2. CASE at' = "failed" /\ edited
    BY <1>1, <2>2 DEF PlanOfStart
  <2>3. CASE at' = "replace"
    <3>1. ~Refused(plan.tag) /\ plan = Plan(plan.tag, plan.rollback)
          /\ (plan.rollback => link[Previous] = plan.tag)
      BY <1>1, <2>3
    <3>2. /\ plan.current = link[Current]
          /\ \A n \in Has(plan.tag) :
               /\ n \in DOMAIN plan.changes
               /\ plan.changes[n] = Contents[plan.tag][n]
               /\ link[n] = Absent \/ (n \in Has(link[Current])
                                        /\ link[n] = Contents[link[Current]][n])
          /\ \A n \in Skill \ Has(plan.tag) :
               IF n \in Has(link[Current]) /\ link[n] = Contents[link[Current]][n]
               THEN n \in DOMAIN plan.changes /\ plan.changes[n] = Absent
               ELSE n \notin DOMAIN plan.changes
          /\ Current \in DOMAIN plan.changes
          /\ Previous \in DOMAIN plan.changes <=> link[Current] \notin {Absent, plan.tag}
      <4> DEFINE tag == plan.tag  rollback == plan.rollback  p == plan
      <4>1. TypeOK /\ tag \in Release /\ ~Refused(tag) /\ p = Plan(tag, rollback)
        BY <1>0, <1>2, <3>1
      <4> HIDE DEF tag, rollback, p
      <4>2. /\ p.tag = tag /\ p.current = link[Current]
            /\ \A n \in Has(tag) :
                 /\ n \in DOMAIN p.changes /\ p.changes[n] = Contents[tag][n]
                 /\ link[n] = Absent \/ (n \in Has(link[Current])
                                          /\ link[n] = Contents[link[Current]][n])
            /\ \A n \in Skill \ Has(tag) :
                 IF n \in Has(link[Current]) /\ link[n] = Contents[link[Current]][n]
                 THEN n \in DOMAIN p.changes /\ p.changes[n] = Absent
                 ELSE n \notin DOMAIN p.changes
            /\ Current \in DOMAIN p.changes
            /\ Previous \in DOMAIN p.changes <=> link[Current] \notin {Absent, tag}
        BY <4>1, PlanMade
      <4> QED BY <4>2 DEF tag, p
    <3> QED BY <1>1, <3>1, <3>2 DEF PlanOfStart, Has
  <2> QED BY <1>1, <2>1, <2>2, <2>3
<1>7. Progress' BY <1>1, <1>2 DEF Progress, Holds, Slot
<1>8. TidyInv' BY <1>0, <1>1 DEF TidyInv, Tidy, Has
<1> QED BY <1>3, <1>4, <1>5, <1>6, <1>7, <1>8 DEF IInv

\* No entry of the user is in the way of a plan that was just checked.
LEMMA NoForeign ==
  ASSUME TypeOK, PlanTyped, PlanOfStart, at \in {"replace", "undo"},
         NEW n \in Skill, n \in DOMAIN plan.changes
  PROVE  start[n] \in Path \cup {Absent}
<1>1. plan.tag \in Pointer /\ plan.current \in Pointer BY DEF PlanTyped
<1>2. CASE n \in Has(plan.tag) BY <1>1, <1>2, HasPath DEF PlanOfStart
<1>3. CASE n \notin Has(plan.tag) BY <1>1, <1>3, HasPath DEF PlanOfStart
<1> QED BY <1>2, <1>3

\* What is noted of a slot is what undoing it restores.
LEMMA Noting ==
  ASSUME IInv, at = "replace"
  PROVE  /\ next \in Slot /\ next \notin DOMAIN undo
         /\ DOMAIN Noted = IF Due THEN DOMAIN undo \cup {next} ELSE DOMAIN undo
         /\ DOMAIN Noted \subseteq DOMAIN plan.changes
         /\ \A s \in DOMAIN Noted :
              /\ s \in Skill => Noted[s] \in Path \cup {Absent, Other}
              /\ s \notin Skill => Noted[s] \in Pointer /\ Noted[s] \in releases \cup {Absent}
              /\ \/ Noted[s] = start[s]
                 \/ edited /\ s \in Skill /\ Noted[s] \in {Absent, Other}
<1> USE Slots
<1>0. TypeOK /\ PlanTyped /\ Complete /\ PlanOfStart /\ Progress BY DEF IInv
<1>1. next \in Slot /\ next \notin DOMAIN undo /\ Holds(next, start[next])
  BY <1>0 DEF PlanTyped, Slot, Progress
<1>2. /\ DOMAIN Noted = IF Due THEN DOMAIN undo \cup {next} ELSE DOMAIN undo
      /\ Due => Noted[next] = Before(next) /\ next \in DOMAIN plan.changes
      /\ \A s \in DOMAIN undo : Noted[s] = undo[s]
  BY <1>1 DEF Noted, Due
<1>3. \A s \in DOMAIN undo :
        /\ s \in Skill => undo[s] \in Path \cup {Absent, Other}
        /\ s \notin Skill => undo[s] \in Pointer /\ undo[s] \in releases \cup {Absent}
        /\ Restores(s)
  BY <1>0 DEF PlanTyped, Progress, TypeOK
<1>4. CASE next \notin Skill
  <2>1. link[next] \in Pointer /\ link[next] \in releases \cup {Absent}
        /\ link[next] = start[next]
    BY <1>0, <1>1, <1>4 DEF TypeOK, Complete, Holds
  <2>2. Before(next) = link[next] BY <2>1, Kinds DEF Before, Pointer
  <2> QED BY <1>0, <1>1, <1>2, <1>3, <1>4, <2>1, <2>2 DEF TypeOK, Restores
<1>5. CASE next \in Skill
  <2>1. link[next] \in Path \cup {Absent, File, Directory, Other}
    BY <1>0, <1>5 DEF TypeOK, Entry, Foreign
  <2>2. Before(next) \in Path \cup {Absent, Other} BY <2>1 DEF Before
  <2>3. Due => \/ Before(next) = start[next]
               \/ edited /\ Before(next) \in {Absent, Other}
    <3> SUFFICES ASSUME Due PROVE \/ Before(next) = start[next]
                                  \/ edited /\ Before(next) \in {Absent, Other}
      OBVIOUS
    <3>1. start[next] \in Path \cup {Absent} BY <1>0, <1>2, <1>5, NoForeign
    <3>2. CASE link[next] = start[next] BY <3>1, <3>2, Kinds DEF Before
    <3>3. CASE edited /\ link[next] \in {Absent} \cup Foreign
      BY <3>3 DEF Before, Foreign
    <3> QED BY <1>1, <3>2, <3>3 DEF Holds
  <2> QED BY <1>0, <1>1, <1>2, <1>3, <1>5, <2>2, <2>3 DEF TypeOK, Restores
<1> QED BY <1>4, <1>5

LEMMA ReplaceStep == IInv /\ Replace => IInv'
<1> SUFFICES ASSUME IInv, Replace PROVE IInv' OBVIOUS
<1> USE Slots DEF AtRest
<1>0. TypeOK /\ PlanTyped /\ Complete /\ PlanOfStart /\ Progress /\ TidyInv
  BY DEF IInv
<1>1. /\ at = "replace" /\ next' = next + 1 /\ undo' = Noted
      /\ at' = IF next = Current THEN "done" ELSE "replace"
      /\ stray' = IF next = Current THEN stray \ DOMAIN plan.changes ELSE stray
      /\ UNCHANGED <<releases, plan, start, edited, runs, faults, edits>>
  BY DEF Replace, counters
<1>2. PICK k \in Slot : k = next BY <1>0, <1>1 DEF PlanTyped, Slot
<1> USE <1>2
<1>3. /\ k \notin DOMAIN undo
      /\ DOMAIN undo' = IF Due THEN DOMAIN undo \cup {k} ELSE DOMAIN undo
      /\ DOMAIN undo' \subseteq DOMAIN plan.changes
      /\ \A s \in DOMAIN undo' :
           /\ s \in Skill => undo'[s] \in Path \cup {Absent, Other}
           /\ s \notin Skill => undo'[s] \in Pointer /\ undo'[s] \in releases \cup {Absent}
           /\ \/ undo'[s] = start[s]
              \/ edited /\ s \in Skill /\ undo'[s] \in {Absent, Other}
  BY <1>1, Noting
<1>4. /\ \A s \in Slot \ {k} : link'[s] = link[s]
      /\ \/ Due /\ link' = [link EXCEPT ![k] = plan.changes[k]]
         \/ ~Due /\ link' = link
  BY <1>0 DEF TypeOK, Replace
<1>5. /\ Due => k \in DOMAIN plan.changes /\ link'[k] = plan.changes[k]
      /\ ~Due => k \notin DOMAIN plan.changes \/ Before(k) = plan.changes[k]
  BY <1>0, <1>4 DEF TypeOK, Due
<1>6. k \in DOMAIN plan.changes =>
        /\ k \in Skill => plan.changes[k] \in Path \cup {Absent}
        /\ k = Previous => plan.changes[k] = plan.current
        /\ k = Current => plan.changes[k] = plan.tag
  BY <1>0 DEF PlanTyped
<1>7. plan.tag \in Release /\ plan.tag \in releases /\ plan.current \in Pointer
      /\ plan.current \in releases \cup {Absent}
  BY <1>0, <1>1 DEF PlanTyped, Complete
<1>8. TypeOK'
  <2>1. link' \in [Slot -> Entry \cup Release]
    BY <1>0, <1>4, <1>5, <1>6, <1>7 DEF TypeOK, Entry, Pointer
  <2>2. \A n \in Skill : link'[n] \in Entry
    BY <1>0, <1>4, <1>5, <1>6 DEF TypeOK, Entry
  <2>3. link'[Previous] \in Pointer /\ link'[Current] \in Pointer
    BY <1>0, <1>4, <1>5, <1>6, <1>7 DEF TypeOK, Pointer
  <2>4. next' \in 0 .. Current + 1 BY <1>1
  <2>5. stray' \subseteq Skill BY <1>0, <1>1 DEF TypeOK
  <2> QED BY <1>0, <1>1, <1>3, <2>1, <2>2, <2>3, <2>4, <2>5 DEF TypeOK
<1>9. PlanTyped'
  <2>1. at' = "replace" => next' \in 1 .. Current BY <1>1
  <2>2. at' \in {"replace", "done"} BY <1>1
  <2> QED BY <1>0, <1>1, <1>3, <2>1, <2>2 DEF PlanTyped
<1>10. Complete'
  BY <1>0, <1>1, <1>4, <1>5, <1>6, <1>7 DEF Complete
<1>11. PlanOfStart' BY <1>0, <1>1 DEF PlanOfStart, Has
<1>12. \A s \in Slot : New(s)' = New(s) BY <1>1 DEF New
<1>13. \A s \in Slot \ {k} : /\ Holds(s, New(s))' <=> Holds(s, New(s))
                             /\ Holds(s, start[s])' <=> Holds(s, start[s])
  <2>1. \A s \in Slot \ {k} : link'[s] = link[s] /\ New(s)' = New(s) /\ edited' = edited
                              /\ start'[s] = start[s]
    BY <1>1, <1>4, <1>12
  <2> QED BY <2>1 DEF Holds
<1>14. \A s \in DOMAIN undo' : Restores(s)' BY <1>1, <1>3 DEF Restores
<1>15. Holds(k, start[k]) /\ link[Current] = start[Current]
  BY <1>0, <1>1 DEF Progress
<1>16. /\ Holds(k, New(k))'
       /\ k \notin DOMAIN undo' => Holds(k, start[k])'
  <2>1. CASE Due BY <1>1, <1>3, <1>5, <2>1 DEF Holds, New
  <2>2. CASE ~Due
    <3>1. link' = link BY <1>4, <2>2
    <3>2. Holds(k, start[k])' BY <1>1, <1>15, <3>1 DEF Holds
    <3>3. CASE k \notin DOMAIN plan.changes
      BY <1>1, <1>15, <3>1, <3>3 DEF Holds, New
    <3>4. CASE k \in DOMAIN plan.changes
      <4>1. Before(k) = plan.changes[k] BY <1>5, <2>2, <3>4
      <4>2. CASE link[k] \notin {File, Directory}
        <5>1. link[k] = New(k) BY <3>4, <4>1, <4>2 DEF Before, New
        <5> QED BY <1>12, <3>1, <3>2, <5>1 DEF Holds
      <4>3. CASE link[k] \in {File, Directory}
        <5>1. k \in Skill
          BY <1>0, <4>3, Kinds DEF TypeOK, Pointer
        <5>2. start[k] \in Path \cup {Absent}
          BY <1>0, <1>1, <3>4, <5>1, NoForeign
        <5>3. edited /\ link[k] \in {Absent} \cup Foreign
          BY <1>15, <4>3, <5>2, Kinds DEF Holds
        <5> QED BY <1>1, <3>1, <5>1, <5>3 DEF Holds
      <4> QED BY <3>2, <4>2, <4>3
    <3> QED BY <3>2, <3>3, <3>4
  <2> QED BY <2>1, <2>2
<1>17. Progress'
  <2>1. \A s \in Slot : Holds(s, start[s])' \/ Holds(s, New(s))'
    BY <1>0, <1>13, <1>16 DEF Progress
  <2>2. \A s \in Slot : s <= k => Holds(s, New(s))'
    <3>1. \A s \in Slot : s < k => Holds(s, New(s)) BY <1>0, <1>1 DEF Progress
    <3>2. \A s \in Slot : s <= k => s < k \/ s = k OBVIOUS
    <3> QED BY <1>13, <1>16, <3>1, <3>2
  <2>3. \A s \in Slot : s > k => Holds(s, start[s])' /\ s \notin DOMAIN undo'
    <3>1. \A s \in Slot : s > k => s >= k /\ s # k OBVIOUS
    <3>2. \A s \in Slot : s >= k => Holds(s, start[s]) /\ s \notin DOMAIN undo
      BY <1>0, <1>1 DEF Progress
    <3> QED BY <1>3, <1>13, <3>1, <3>2
  <2>4. \A s \in Slot : s \notin DOMAIN undo' => Holds(s, start[s])'
    <3>1. \A s \in Slot : s \notin DOMAIN undo => Holds(s, start[s])
      BY <1>0, <1>1 DEF Progress
    <3> QED BY <1>3, <1>13, <1>16, <3>1
  <2>5. CASE k = Current
    <3>1. \A s \in Slot : s <= k BY <2>5
    <3> QED BY <1>1, <2>1, <2>2, <2>5, <3>1 DEF Progress
  <2>6. CASE k # Current
    <3>1. \A s \in Slot : (s < next' => s <= k) /\ (s >= next' => s > k)
      BY <1>1
    <3>2. link'[Current] = start'[Current] BY <1>1, <1>4, <1>15, <2>6
    <3> QED BY <1>1, <1>14, <2>1, <2>2, <2>3, <2>4, <2>6, <3>1, <3>2 DEF Progress
  <2> QED BY <2>5, <2>6
<1>18. TidyInv'
  <2>0. PlanOfStart /\ at # "failed" /\ Tidy(start) BY <1>0, <1>1 DEF TidyInv
  <2>1. CASE k # Current BY <1>1, <2>0, <2>1 DEF TidyInv, Tidy, Has
  <2>2. CASE k = Current
    <3>1. \A s \in Slot : Holds(s, New(s))' BY <1>1, <1>17, <2>2 DEF Progress
    <3>2. link'[Current] = plan.tag
      <4>1. Current \in DOMAIN plan.changes BY <1>7, <2>0, Kinds DEF PlanOfStart
      <4>2. New(Current)' = plan.tag BY <1>6, <1>12, <2>2, <4>1 DEF New
      <4>3. link'[Current] = New(Current)' BY <3>1 DEF Holds
      <4> QED BY <4>2, <4>3
    <3>3. link'[Current] # Absent BY <1>7, <3>2, Kinds
    <3>4. plan.current = start[Current] BY <2>0 DEF PlanOfStart
    <3>5. ASSUME NEW n \in Skill \ stray', link'[n] \in Path
          PROVE  n \in Has(plan.tag) /\ link'[n] = Contents[plan.tag][n]
      <4>1. link'[n] = New(n)
        BY <1>12, <3>1, <3>5, Kinds DEF Holds
      <4>2. CASE n \in Has(plan.tag) BY <2>0, <4>1, <4>2 DEF PlanOfStart, New
      <4>3. CASE n \notin Has(plan.tag)
        <5>1. n \in DOMAIN plan.changes => plan.changes[n] = Absent
          BY <2>0, <4>3 DEF PlanOfStart
        <5>2. n \notin DOMAIN plan.changes
          BY <3>5, <4>1, <5>1, Kinds DEF New
        <5>3. start[n] \in Path /\ n \notin stray
          BY <1>1, <2>2, <3>5, <4>1, <5>2 DEF New
        <5>4. n \in Has(plan.current) /\ start[n] = Contents[plan.current][n]
          BY <2>0, <3>4, <5>3 DEF Tidy
        <5> QED BY <2>0, <4>3, <5>2, <5>4 DEF PlanOfStart
      <4> QED BY <4>2, <4>3
    <3>6. Tidy(link)' BY <3>2, <3>3, <3>5 DEF Tidy, Has
    <3>7. ASSUME NEW n \in Skill \ stray', start[n] \in Path
          PROVE  n \in Has(plan.current) /\ start[n] = Contents[plan.current][n]
      <4>1. CASE n \notin stray BY <2>0, <3>4, <3>7, <4>1 DEF Tidy
      <4>2. CASE n \in DOMAIN plan.changes
        BY <2>0, <3>7, <4>2, Kinds DEF PlanOfStart
      <4> QED BY <1>1, <2>2, <4>1, <4>2
    <3>8. Tidy(start)' BY <1>1, <2>0, <3>4, <3>7 DEF Tidy, Has
    <3> QED BY <3>6, <3>8 DEF TidyInv
  <2> QED BY <2>1, <2>2
<1> QED BY <1>8, <1>9, <1>10, <1>11, <1>17, <1>18 DEF IInv

\* The replacement turns into its undoing, with the slot at hand noted or not.
LEMMA TurnStep ==
  ASSUME IInv, at = "replace", at' = "undo", undo' \in {undo, Noted},
         UNCHANGED <<link, releases, plan, next, start, edited, stray, runs, edits>>,
         faults' \in 0 .. MaxFaults
  PROVE  IInv'
<1> USE Slots
<1>0. TypeOK /\ PlanTyped /\ Complete /\ PlanOfStart /\ Progress /\ TidyInv
  BY DEF IInv
<1>1. /\ DOMAIN undo \subseteq DOMAIN undo' /\ DOMAIN undo' \subseteq DOMAIN plan.changes
      /\ \A s \in DOMAIN undo' :
           /\ s \in Skill => undo'[s] \in Path \cup {Absent, Other}
           /\ s \notin Skill => undo'[s] \in Pointer /\ undo'[s] \in releases \cup {Absent}
           /\ \/ undo'[s] = start[s]
              \/ edited /\ s \in Skill /\ undo'[s] \in {Absent, Other}
  <2>1. CASE undo' = undo
    BY <1>0, <2>1 DEF TypeOK, PlanTyped, Progress, Restores
  <2>2. CASE undo' = Noted BY <2>2, Noting
  <2> QED BY <2>1, <2>2
<1>2. TypeOK' BY <1>0, <1>1 DEF TypeOK
<1>3. PlanTyped' BY <1>0, <1>1 DEF PlanTyped
<1>4. Complete' BY <1>0 DEF Complete
<1>5. PlanOfStart' BY <1>0 DEF PlanOfStart, Has
<1>6. Progress'
  <2>1. \A s \in Slot : Holds(s, start[s])' \/ Holds(s, New(s))'
    BY <1>0 DEF Progress, Holds, New
  <2>2. \A s \in DOMAIN undo' : Restores(s)' BY <1>1 DEF Restores
  <2>3. \A s \in Slot : s > next' \/ s \notin DOMAIN undo' => Holds(s, start[s])'
    <3> SUFFICES ASSUME NEW s \in Slot, s > next' \/ s \notin DOMAIN undo'
                 PROVE  Holds(s, start[s])'
      OBVIOUS
    <3>1. s >= next \/ s \notin DOMAIN undo BY <1>0, <1>1 DEF TypeOK
    <3>2. Holds(s, start[s]) BY <1>0, <3>1 DEF Progress
    <3> QED BY <3>2 DEF Holds
  <2>4. link'[Current] = start'[Current] BY <1>0 DEF Progress
  <2> QED BY <2>1, <2>2, <2>3, <2>4 DEF Progress
<1>7. TidyInv' BY <1>0 DEF TidyInv, Tidy, Has
<1> QED BY <1>2, <1>3, <1>4, <1>5, <1>6, <1>7 DEF IInv

LEMMA ReplaceRaisesStep == IInv /\ ReplaceRaises => IInv'
<1> SUFFICES ASSUME IInv, ReplaceRaises PROVE IInv' OBVIOUS
<1>1. faults' \in 0 .. MaxFaults BY DEF IInv, TypeOK, ReplaceRaises, counters
<1> QED BY <1>1, TurnStep DEF ReplaceRaises, counters

\* What was put back is as tidy as it was.
LEMMA TidyBack ==
  ASSUME TypeOK, Tidy(start), \A s \in Slot : Holds(s, start[s])
  PROVE  Tidy(link)
<1>1. link[Current] = start[Current] /\ link[Previous] = start[Previous]
  BY Slots DEF Holds
<1>2. \A n \in Skill : link[n] \in Path => link[n] = start[n]
  BY Slots, Kinds DEF Holds
<1> QED BY <1>1, <1>2 DEF Tidy

LEMMA UndoStep == IInv /\ Undo => IInv'
<1> SUFFICES ASSUME IInv, Undo PROVE IInv' OBVIOUS
<1> USE Slots DEF AtRest
<1>0. TypeOK /\ PlanTyped /\ Complete /\ PlanOfStart /\ Progress /\ TidyInv
  BY DEF IInv
<1>1. /\ at = "undo" /\ next' = next - 1
      /\ at' = IF next = 1 THEN "failed" ELSE "undo"
      /\ UNCHANGED <<releases, plan, undo, start, edited, stray, runs, faults, edits>>
  BY DEF Undo, counters
<1>2. PICK k \in Slot : k = next BY <1>0, <1>1 DEF PlanTyped, Slot
<1> USE <1>2
<1>3. /\ \A s \in Slot \ {k} : link'[s] = link[s]
      /\ link'[k] = IF k \in DOMAIN undo THEN undo[k] ELSE link[k]
      /\ link' = link \/ link' = [link EXCEPT ![k] = undo[k]]
  BY <1>0 DEF Undo, TypeOK
<1>4. k \in DOMAIN undo =>
        /\ k \in Skill => undo[k] \in Path \cup {Absent, Other}
        /\ k \notin Skill => undo[k] \in Pointer /\ undo[k] \in releases \cup {Absent}
  BY <1>0 DEF PlanTyped
<1>5. TypeOK'
  <2>1. link' \in [Slot -> Entry \cup Release]
    <3>1. k \in DOMAIN undo => undo[k] \in Entry \cup Release
      BY <1>4, Kinds DEF Entry, Pointer
    <3>2. \A s \in Slot : link[s] \in Entry \cup Release BY <1>0 DEF TypeOK
    <3>3. link'[k] \in Entry \cup Release BY <1>3, <3>1, <3>2
    <3>4. DOMAIN link' = Slot /\ link' = [s \in Slot |-> link'[s]]
      BY <1>0, <1>3 DEF TypeOK
    <3> QED BY <1>3, <3>2, <3>3, <3>4
  <2>2. \A n \in Skill : link'[n] \in Entry
    BY <1>0, <1>3, <1>4, Kinds DEF TypeOK, Entry
  <2>3. link'[Previous] \in Pointer /\ link'[Current] \in Pointer
    BY <1>0, <1>3, <1>4 DEF TypeOK
  <2>4. next' \in 0 .. Current + 1 BY <1>1
  <2> QED BY <1>0, <1>1, <2>1, <2>2, <2>3, <2>4 DEF TypeOK
<1>6. PlanTyped'
  <2>1. at' = "undo" => next' \in 1 .. Current BY <1>1
  <2>2. at' \in {"undo", "failed"} BY <1>1
  <2> QED BY <1>0, <1>1, <2>1, <2>2 DEF PlanTyped
<1>7. Complete' BY <1>0, <1>1, <1>3, <1>4 DEF Complete
<1>8. PlanOfStart' BY <1>0, <1>1 DEF PlanOfStart, Has
<1>9. \A s \in Slot \ {k} : Holds(s, start[s])' <=> Holds(s, start[s])
  BY <1>1, <1>3 DEF Holds
<1>10. \A s \in Slot \ {k} : Holds(s, New(s))' <=> Holds(s, New(s))
  BY <1>1, <1>3 DEF Holds, New
<1>11. \A s \in DOMAIN undo : Restores(s)' <=> Restores(s)
  BY <1>1 DEF Restores
<1>12. Holds(k, start[k])'
  <2>1. CASE k \in DOMAIN undo
    <3>1. Restores(k) /\ link'[k] = undo[k] BY <1>0, <1>1, <1>3, <2>1 DEF Progress
    <3> QED BY <1>1, <3>1, Kinds DEF Restores, Holds
  <2>2. CASE k \notin DOMAIN undo
    <3>1. Holds(k, start[k]) /\ link'[k] = link[k]
      BY <1>0, <1>1, <1>3, <2>2 DEF Progress
    <3> QED BY <1>1, <3>1 DEF Holds
  <2> QED BY <2>1, <2>2
<1>13. Progress'
  <2>1. \A s \in Slot : Holds(s, start[s])' \/ Holds(s, New(s))'
    BY <1>0, <1>9, <1>10, <1>12 DEF Progress
  <2>2. \A s \in Slot : s > k - 1 \/ s \notin DOMAIN undo => Holds(s, start[s])'
    <3>1. \A s \in Slot : s > k - 1 => s = k \/ s > k OBVIOUS
    <3> QED BY <1>0, <1>1, <1>9, <1>12, <3>1 DEF Progress
  <2>3. \A s \in Slot : s \in DOMAIN undo => Restores(s)'
    BY <1>0, <1>1, <1>11 DEF Progress
  <2>4. k = 1 => \A s \in Slot : Holds(s, start[s])' BY <2>2
  <2>5. link'[Current] = start'[Current]
    <3>1. CASE k = Current BY <1>12, <3>1 DEF Holds
    <3>2. CASE k # Current BY <1>0, <1>1, <1>3, <3>2 DEF Progress
    <3> QED BY <3>1, <3>2
  <2> QED BY <1>1, <2>1, <2>2, <2>3, <2>4, <2>5 DEF Progress
<1>14. TidyInv'
  <2>1. CASE k = 1
    <3>1. Progress' /\ TypeOK' /\ at' = "failed" BY <1>1, <1>5, <1>13, <2>1
    <3>2. Tidy(start)' => Tidy(link)'
      <4>1. (\A s \in Slot : Holds(s, start[s]))' BY <3>1 DEF Progress
      <4> QED BY <3>1, <4>1, TidyBack, PTL
    <3>3. Tidy(start)' BY <1>0, <1>1 DEF TidyInv, Tidy, Has
    <3> QED BY <3>2, <3>3 DEF TidyInv
  <2>2. CASE k # 1 BY <1>0, <1>1, <2>2 DEF TidyInv, Tidy, Has
  <2> QED BY <2>1, <2>2
<1> QED BY <1>5, <1>6, <1>7, <1>8, <1>13, <1>14 DEF IInv

\* A command that is cut leaves nothing astray but what it replaced.
LEMMA CutStep ==
  ASSUME IInv, at \in {"stage", "check", "replace", "undo"}, Cut,
         UNCHANGED <<link, releases, plan, next, undo, start, edited, runs, edits>>,
         faults' \in 0 .. MaxFaults
  PROVE  IInv'
<1> USE Slots DEF AtRest
<1>0. TypeOK /\ PlanTyped /\ Complete /\ PlanOfStart /\ Progress /\ TidyInv
  BY DEF IInv
<1>1. /\ at' = "cut"
      /\ stray' = stray \cup {n \in Skill : link[n] \in Path /\ link[n] # start[n]}
  BY DEF Cut
<1>2. TypeOK' BY <1>0, <1>1 DEF TypeOK
<1>3. PlanTyped' BY <1>0, <1>1 DEF PlanTyped
<1>4. Complete' BY <1>0, <1>1 DEF Complete
<1>5. PlanOfStart' BY <1>0, <1>1 DEF PlanOfStart, Has
<1>6. Progress' BY <1>0, <1>1 DEF Progress, Holds, New
<1>7. link[Current] = start[Current]
  BY <1>0 DEF Progress, Holds
<1>8. Tidy(start) BY <1>0 DEF TidyInv
<1>9. ASSUME NEW n \in Skill \ stray', link[n] \in Path
      PROVE  n \in Has(link[Current]) /\ link[n] = Contents[link[Current]][n]
  <2>1. n \notin stray /\ link[n] = start[n] BY <1>1, <1>9
  <2> QED BY <1>7, <1>8, <1>9, <2>1 DEF Tidy
<1>10. link[Previous] # Absent => link[Current] # Absent
  <2>1. link[Previous] \in {start[Previous], New(Previous)} BY <1>0 DEF Progress, Holds
  <2>2. New(Previous) = start[Previous] \/ (New(Previous) = plan.current)
    BY <1>0 DEF PlanTyped, New
  <2>3. plan.current = start[Current] BY <1>0 DEF PlanOfStart
  <2> QED BY <1>7, <1>8, <2>1, <2>2, <2>3 DEF Tidy
<1>11. Tidy(link)' BY <1>9, <1>10 DEF Tidy, Has
<1>12. Tidy(start)' BY <1>1, <1>8 DEF Tidy, Has
<1> QED BY <1>2, <1>3, <1>4, <1>5, <1>6, <1>11, <1>12 DEF IInv, TidyInv

LEMMA UndoRaisesStep == IInv /\ UndoRaises => IInv'
<1> SUFFICES ASSUME IInv, UndoRaises PROVE IInv' OBVIOUS
<1>1. faults' \in 0 .. MaxFaults BY DEF IInv, TypeOK, UndoRaises, counters
<1> QED BY <1>1, CutStep DEF UndoRaises, counters

LEMMA FailStep == IInv /\ (Fail \/ Interrupt) => IInv'
<1> SUFFICES ASSUME IInv, Fail \/ Interrupt PROVE IInv' OBVIOUS
<1> USE DEF AtRest
<1>0. TypeOK /\ PlanTyped /\ Complete /\ PlanOfStart /\ Progress /\ TidyInv
  BY DEF IInv
<1>1. faults' \in 0 .. MaxFaults
  BY <1>0, BoundAssumption DEF TypeOK, Fail, Interrupt
<1>2. CASE Interrupt BY <1>1, <1>2, CutStep DEF Interrupt
<1>3. CASE Fail /\ at = "replace" BY <1>1, <1>3, TurnStep DEF Fail
<1>4. CASE Fail /\ at \in {"stage", "check"}
  <2>1. /\ at' = "failed"
        /\ UNCHANGED <<link, releases, plan, next, undo, start, edited, stray, runs, edits>>
    BY <1>4 DEF Fail
  <2>2. TypeOK' BY <1>0, <1>1, <2>1 DEF TypeOK
  <2>3. PlanTyped' /\ Complete' BY <1>0, <1>4, <2>1 DEF PlanTyped, Complete
  <2>4. PlanOfStart' BY <1>0, <1>4, <2>1 DEF PlanOfStart, Has
  <2>5. Progress' BY <1>0, <1>4, <2>1 DEF Progress, Holds, New
  <2>6. TidyInv' BY <1>0, <1>4, <2>1 DEF TidyInv, Tidy, Has
  <2> QED BY <2>2, <2>3, <2>4, <2>5, <2>6 DEF IInv
<1> QED BY <1>2, <1>3, <1>4 DEF Fail

LEMMA EditStep == ASSUME IInv, NEW n \in Skill, Edit(n) PROVE IInv'
<1> USE Slots, BoundAssumption
<1>0. TypeOK /\ PlanTyped /\ Complete /\ PlanOfStart /\ Progress /\ TidyInv
  BY DEF IInv
<1>1. /\ edits < MaxEdits /\ edits' = edits + 1 /\ edited' = TRUE
      /\ UNCHANGED <<releases, at, plan, next, undo, start, stray, runs, faults>>
      /\ \E e \in {Absent} \cup Foreign : link' = [link EXCEPT ![n] = e]
  BY DEF Edit
<1>2. n \in Slot /\ n # Previous /\ n # Current OBVIOUS
<1>3. /\ link'[n] \in {Absent} \cup Foreign
      /\ \A s \in Slot \ {n} : link'[s] = link[s]
      /\ link'[Previous] = link[Previous] /\ link'[Current] = link[Current]
  BY <1>0, <1>1, <1>2 DEF TypeOK
<1>4. TypeOK'
  <2>1. link' \in [Slot -> Entry \cup Release]
    BY <1>0, <1>1, <1>2 DEF TypeOK, Entry
  <2>2. \A m \in Skill : link'[m] \in Entry BY <1>0, <1>3 DEF TypeOK, Entry
  <2>3. edits' \in 0 .. MaxEdits BY <1>0, <1>1 DEF TypeOK
  <2> QED BY <1>0, <1>1, <1>3, <2>1, <2>2, <2>3 DEF TypeOK
<1>5. PlanTyped' BY <1>0, <1>1 DEF PlanTyped
<1>6. Complete' BY <1>0, <1>1, <1>3 DEF Complete
<1>7. PlanOfStart' BY <1>0, <1>1 DEF PlanOfStart, Has
<1>8. \A s \in Slot : Holds(s, start[s]) => Holds(s, start[s])'
  BY <1>1, <1>3 DEF Holds
<1>9. \A s \in Slot : Holds(s, New(s)) => Holds(s, New(s))'
  BY <1>1, <1>3 DEF Holds, New
<1>10. \A s \in Slot : Restores(s) => Restores(s)'
  BY <1>1 DEF Restores
<1>11. Progress' BY <1>0, <1>1, <1>8, <1>9, <1>10 DEF Progress
<1>12. TidyInv'
  BY <1>0, <1>1, <1>3, Kinds DEF TidyInv, Tidy, Has
<1> QED BY <1>4, <1>5, <1>6, <1>7, <1>11, <1>12 DEF IInv

LEMMA NextIInv == IInv /\ [Next]_vars => IInv'
<1> SUFFICES ASSUME IInv, [Next]_vars PROVE IInv' OBVIOUS
<1>1. CASE UNCHANGED vars
  <2>1. TypeOK /\ PlanTyped /\ Complete /\ PlanOfStart /\ Progress /\ TidyInv
    BY DEF IInv
  <2>2. TypeOK' /\ PlanTyped' /\ Complete'
    BY <1>1, <2>1 DEF vars, TypeOK, PlanTyped, Complete
  <2>3. PlanOfStart' /\ TidyInv'
    BY <1>1, <2>1 DEF vars, PlanOfStart, TidyInv, Tidy, Has
  <2>4. Progress' BY <1>1, <2>1 DEF vars, Progress, Holds, New, Restores
  <2> QED BY <2>2, <2>3, <2>4 DEF IInv
<1> QED BY <1>1, PrepareStep, StageStep, RecheckStep, ReplaceStep, ReplaceRaisesStep,
           UndoStep, UndoRaisesStep, FailStep, EditStep DEF Next

-----------------------------------------------------------------------------
(* What follows from it.                                                   *)

LEMMA IInvAllOrNothing == IInv => AllOrNothing
<1> SUFFICES ASSUME IInv PROVE AllOrNothing OBVIOUS
<1> USE Slots
<1>1. TypeOK /\ PlanTyped /\ PlanOfStart /\ Progress /\ TidyInv BY DEF IInv
<1>2. ASSUME at = "failed", NEW s \in Slot
      PROVE  link[s] = start[s] \/ (s \in Skill /\ edited /\ link[s] \notin Path)
  BY <1>1, <1>2, Kinds DEF Progress, Holds
<1>3. ASSUME at = "done", ~edited
      PROVE  /\ link[Current] = plan.tag
             /\ \A n \in Has(plan.tag) : Owned(n)
             /\ \A n \in Skill \ Has(plan.tag) : link[n] \in Path => n \in stray
             /\ start[Current] \notin {Absent, plan.tag} => link[Previous] = start[Current]
             /\ plan.rollback =>
                  link[Current] = start[Previous] /\ link[Previous] = start[Current]
  <2>1. \A s \in Slot : link[s] = New(s) BY <1>1, <1>3 DEF Progress, Holds
  <2>2. plan.tag \in Release /\ plan.tag # Absent
    BY <1>1, <1>3, Kinds DEF PlanTyped
  <2>3. Tidy(link) /\ Tidy(start) BY <1>1, <1>3 DEF TidyInv
  <2>4. link[Current] = plan.tag
    BY <1>1, <1>3, <2>1, <2>2 DEF New, PlanOfStart, PlanTyped
  <2>5. \A n \in Has(plan.tag) : Owned(n)
    BY <1>1, <1>3, <2>1, <2>4 DEF New, PlanOfStart, Owned, Has
  <2>6. \A n \in Skill \ Has(plan.tag) : link[n] \in Path => n \in stray
    BY <2>3, <2>4 DEF Tidy
  <2>7. /\ plan.current = start[Current]
        /\ plan.rollback => plan.tag = start[Previous]
        /\ Previous \in DOMAIN plan.changes <=> plan.current \notin {Absent, plan.tag}
        /\ Previous \in DOMAIN plan.changes => plan.changes[Previous] = plan.current
    BY <1>1, <1>3 DEF PlanOfStart, PlanTyped
  <2>8. start[Current] \notin {Absent, plan.tag} => link[Previous] = start[Current]
    BY <2>1, <2>7 DEF New
  <2>9. plan.rollback => link[Previous] = start[Current]
    <3> SUFFICES ASSUME plan.rollback PROVE link[Previous] = start[Current] OBVIOUS
    <3>1. start[Current] # Absent BY <2>2, <2>3, <2>7 DEF Tidy
    <3>2. CASE start[Current] = plan.tag
      <4>1. link[Previous] = start[Previous] BY <2>1, <2>7, <3>2 DEF New
      <4> QED BY <2>7, <3>2, <4>1
    <3> QED BY <2>8, <3>1, <3>2
  <2> QED BY <2>4, <2>5, <2>6, <2>7, <2>8, <2>9
<1> QED BY <1>2, <1>3 DEF AllOrNothing

LEMMA IInvUsable == IInv => Usable
<1> SUFFICES ASSUME IInv PROVE Usable OBVIOUS
<1> USE Slots
<1>1. TypeOK /\ PlanTyped /\ Complete /\ PlanOfStart /\ Progress BY DEF IInv
<1>2. ASSUME ~edited, NEW n \in Has(plan.current) \cap Has(plan.tag),
             Contents[plan.current][n] = Contents[plan.tag][n], start[n] # Absent
      PROVE  Owned(n)
  <2>1. n \in Skill /\ n \in Slot BY DEF Has
  <2>2. New(n) = Contents[plan.tag][n] /\ start[n] = Contents[plan.tag][n]
    BY <1>1, <1>2 DEF PlanOfStart, New
  <2>3. link[n] = Contents[plan.tag][n] BY <1>1, <1>2, <2>1, <2>2 DEF Progress, Holds
  <2>4. plan.tag # Absent BY DEF Has
  <2>5. link[Current] \in {plan.current, plan.tag}
    BY <1>1, <1>2, <2>4 DEF Progress, Holds, New, PlanOfStart, PlanTyped
  <2> QED BY <1>2, <2>3, <2>5 DEF Owned
<1> QED BY <1>1, <1>2 DEF Usable, Complete

LEMMA IInvOnlyForeignRefused == IInv => OnlyForeignRefused
<1> SUFFICES ASSUME IInv, at \in AtRest, NEW tag \in Release, Refused(tag)
             PROVE  \E n \in Has(tag) :
                      link[n] \in Foreign \/ (link[n] \in Path /\ n \in stray)
  BY DEF OnlyForeignRefused
<1>1. TypeOK /\ Tidy(link) BY DEF IInv, TidyInv, AtRest
<1>2. PICK n \in Has(tag) : link[n] # Absent /\ ~Owned(n)
  BY <1>1 DEF Refused, Tidy
<1>3. n \in Skill /\ link[n] \in Path \cup {Absent} \cup Foreign
  BY <1>1, <1>2 DEF Has, TypeOK, Entry
<1>4. link[n] \in Path => n \in stray BY <1>1, <1>2, <1>3 DEF Tidy, Owned
<1> QED BY <1>2, <1>3, <1>4

LEMMA NextForeignKept ==
  ASSUME IInv, [Next]_vars, NEW n \in Skill, link[n] \in Foreign, link'[n] # link[n],
         edits' = edits
  PROVE  start[n] \notin Foreign
<1> USE Slots
<1>1. TypeOK /\ PlanTyped /\ PlanOfStart BY DEF IInv
<1>2. n \in DOMAIN plan.changes /\ at \in {"replace", "undo"}
  <2>1. CASE Replace BY <1>1, <2>1 DEF Replace, Due, TypeOK
  <2>2. CASE Undo BY <1>1, <2>2 DEF Undo, TypeOK
  <2>3. ASSUME NEW m \in Skill, Edit(m) PROVE FALSE
    BY <1>1, <2>3 DEF Edit, TypeOK
  <2> QED BY <2>1, <2>2, <2>3
         DEF Next, Prepare, Stage, Recheck, ReplaceRaises, UndoRaises, Fail, Interrupt, vars
<1> QED BY <1>1, <1>2, NoForeign, Kinds

-----------------------------------------------------------------------------

\* The variables keep their types.
THEOREM Typing == Spec => []TypeOK
<1>1. IInv => TypeOK BY DEF IInv
<1> QED BY <1>1, InitIInv, NextIInv, PTL DEF Spec

\* A command that is done did all of it, and one that failed and undid left every
\* slot as it was, for all releases whatever skills they add, move and retire and
\* whatever the user and earlier, cut commands left.
THEOREM DoneOrUndone == Spec => []AllOrNothing
BY InitIInv, NextIInv, IInvAllOrNothing, PTL DEF Spec

\* The pointers never lead to a missing release, nor an entry that does not
\* change astray, wherever a command is interrupted.
THEOREM AlwaysUsable == Spec => []Usable
BY InitIInv, NextIInv, IInvUsable, PTL DEF Spec

\* A command blocks a later one only by the links that it replaced and, cut
\* short by a kill or by a directory of the user's, did not put back.
THEOREM NotBlocked == Spec => []OnlyForeignRefused
BY InitIInv, NextIInv, IInvOnlyForeignRefused, PTL DEF Spec

\* What the user had before the last check is never replaced.
THEOREM UserEntriesKept == Spec => ForeignKept
<1>1. IInv /\ [Next]_vars =>
        [\A n \in Skill :
           link[n] \in Foreign /\ link'[n] # link[n] /\ edits' = edits =>
             start[n] \notin Foreign]_vars
  BY NextForeignKept
<1> QED BY <1>1, InitIInv, NextIInv, PTL DEF Spec, ForeignKept
================================================================================
