--------------------------- MODULE ChangePush_proofs ---------------------------
(***************************************************************************)
(* Proofs about ChangePush for every commit graph, every number of sessions*)
(* and processes, and every sequence of events.                            *)
(***************************************************************************)
EXTENDS ChangePush, FiniteSetTheorems, WellFoundedInduction, TLAPS

\* Program points of a run that has verified the history of its candidate.
Verified == {"pin", "pinning", "head", "remain", "noop", "guard", "send", "readback",
             "record", "recording", "salvage", "salvaging", "mainafter", "headafter"}

\* Program points of a run that has seen its candidate on the remote.
Seen == {"record", "recording", "salvaging", "mainafter", "headafter"}

\* What a run has read is there; a candidate it verified is vetted against its main.
HistoryInv ==
  \A p \in Proc :
  /\ pc[p] \notin {"idle", "claim"} => my[p].head # None
  /\ pc[p] \notin {"idle", "claim", "main"} => my[p].main # None
  /\ pc[p] \in Verified =>
    /\ Vetted(my[p].head, my[p].main)
    /\ my[p].main \in Contains[my[p].head]
    /\ my[p].remote # None => my[p].remote \in Contains[my[p].head]

SeenInv ==
  /\ tip # None => tip \in seen
  /\ \A p \in Proc : pc[p] \in Seen => my[p].head \in seen
  /\ \A p \in Proc : my[p].owner.ledger # None => my[p].owner.ledger \in seen

PushInv ==
  /\ TypeOK
  /\ HistoryInv
  /\ SeenInv
  /\ LedgerWasRemote
  /\ OnlyVerifiedSent
  /\ ReceiptTrue

USE ContainsAssumption, BranchAssumption, NonePushAssumption, EventsAssumption

\* A set of numbers that is not empty has a least one.
LEMMA Least ==
  ASSUME NEW S, S \subseteq Nat, S # {}
  PROVE  \E x \in S : \A y \in S : x <= y
<1> DEFINE R == {ss \in Nat \X Nat : ss[1] < ss[2]}
<1>1. IsWellFoundedOn(R, Nat) BY NatLessThanWellFounded DEF OpToRel
<1>2. PICK x \in S : \A y \in S : ~(<<y, x>> \in R)
  <2> HIDE DEF R
  <2> QED BY <1>1, WFMin
<1>3. ASSUME NEW y \in S, y < x PROVE FALSE
  <2>1. <<y, x>> \in R BY <1>3
  <2> QED BY <1>2, <2>1
<1> QED BY <1>3

\* The history of a parent is part of the history of the commit.
LEMMA ParentInside ==
  ASSUME NEW c \in Commit, NEW i \in 1 .. Len(Parents[c])
  PROVE  Parents[c][i] \in Commit /\ Contains[Parents[c][i]] \subseteq Contains[c]
<1>1. Parents[c][i] \in Commit BY ParentsAssumption
<1>2. Contains[Parents[c][i]] \subseteq Contains[c]
  <2> DEFINE All == {Contains[Parents[c][j]] : j \in 1 .. Len(Parents[c])}
  <2>1. Contains[Parents[c][i]] \in All OBVIOUS
  <2>2. Contains[c] = {c} \cup UNION All BY ParentsAssumption
  <2> HIDE DEF All
  <2> QED BY <2>1, <2>2
<1> QED BY <1>1, <1>2

\* What is left of a set of commits has a member none of whose first parents is left:
\* histories are finite and a parent's is smaller.
LEMMA Oldest ==
  ASSUME NEW S \in SUBSET Commit, S # {}
  PROVE  \E c \in S : Parents[c] # <<>> => Parents[c][1] \notin S
<1> DEFINE Size(c) == Cardinality(Contains[c])
           Sizes == {Size(c) : c \in S}
<1>1. ASSUME NEW c \in Commit PROVE Size(c) \in Nat
  BY HistoryAssumption, FS_CardinalityType
<1>2. PICK n \in Sizes : \A m \in Sizes : n <= m
  <2>1. Sizes \subseteq Nat /\ Sizes # {} BY <1>1
  <2> HIDE DEF Sizes
  <2> QED BY <2>1, Least
<1>3. PICK c \in S : n = Size(c) OBVIOUS
<1>4. ASSUME Parents[c] # <<>>, Parents[c][1] \in S PROVE FALSE
  <2> DEFINE d == Parents[c][1]
  <2>1. 1 \in 1 .. Len(Parents[c]) BY <1>4, ParentsAssumption
  <2>2. d \in Commit /\ Contains[d] \subseteq Contains[c] /\ c \notin Contains[d]
    BY <1>4, <2>1, ParentsAssumption, HistoryAssumption
  <2>3. Size(d) <= Size(c) /\ Size(d) # Size(c)
    BY <2>2, HistoryAssumption, FS_Subset
  <2>4. Size(c) <= Size(d) BY <1>2, <1>3, <1>4
  <2> HIDE DEF Size, d
  <2> QED BY <1>1, <2>2, <2>3, <2>4
<1> QED BY <1>3, <1>4

\* The recursive definition of the walk has a solution, so Walk is one: the least set
\* that holds the commit and is closed under first parents.
LEMMA WalkSteps ==
  ASSUME NEW c \in Commit
  PROVE  Walk[c] = IF Parents[c] = <<>> THEN {c} ELSE {c} \cup Walk[Parents[c][1]]
<1> DEFINE Closed(S) == \A d \in S : Parents[d] # <<>> => Parents[d][1] \in S
           Line(d) == {e \in Commit : \A S \in SUBSET Commit : d \in S /\ Closed(S) => e \in S}
           Next1(f) == [d \in Commit |-> IF Parents[d] = <<>> THEN {d}
                                        ELSE {d} \cup f[Parents[d][1]]]
           F == [d \in Commit |-> Line(d)]
<1>1. ASSUME NEW d \in Commit, Parents[d] # <<>> PROVE Parents[d][1] \in Commit
  BY <1>1, ParentsAssumption
<1>2. ASSUME NEW d \in Commit PROVE d \in Line(d) /\ Closed(Line(d))
  BY <1>1
<1>3. ASSUME NEW d \in Commit, Parents[d] = <<>> PROVE Line(d) = {d}
  <2>1. {d} \in SUBSET Commit /\ Closed({d}) BY <1>3
  <2>2. Line(d) \subseteq {d} BY <2>1
  <2> QED BY <1>2, <2>2
<1>4. ASSUME NEW d \in Commit, Parents[d] # <<>>
      PROVE  Line(d) = {d} \cup Line(Parents[d][1])
  <2> DEFINE e == Parents[d][1]
             S == {d} \cup Line(e)
  <2>1. e \in Commit BY <1>1, <1>4
  <2>2. e \in Line(e) /\ Closed(Line(e)) BY <1>2, <2>1
  <2>3. S \in SUBSET Commit /\ d \in S OBVIOUS
  <2>4. Closed(S)
    <3> SUFFICES ASSUME NEW x \in S, Parents[x] # <<>> PROVE Parents[x][1] \in S
      OBVIOUS
    <3> HIDE DEF Line
    <3>1. CASE x = d BY <3>1, <2>2
    <3>2. CASE x \in Line(e) BY <3>2, <2>2
    <3> QED BY <3>1, <3>2
  <2>5. Line(d) \subseteq S
    <3> HIDE DEF S, Closed
    <3> QED BY <2>3, <2>4
  <2>6. S \subseteq Line(d)
    <3>1. d \in Line(d) BY <1>2
    <3>2. ASSUME NEW x \in Line(e), NEW T \in SUBSET Commit, d \in T, Closed(T)
          PROVE  x \in T
      <4>1. e \in T BY <3>2, <1>4
      <4> HIDE DEF Closed, e
      <4> QED BY <3>2, <4>1
    <3>3. ASSUME NEW x \in Line(e) PROVE x \in Line(d)
      <4> HIDE DEF Closed, e
      <4> QED BY <3>2
    <3> HIDE DEF Line
    <3> QED BY <3>1, <3>3
  <2> HIDE DEF Line
  <2> QED BY <2>5, <2>6
<1>5. F = Next1(F)
  <2> SUFFICES ASSUME NEW d \in Commit PROVE F[d] = Next1(F)[d]
    OBVIOUS
  <2>1. F[d] = Line(d) /\ (Parents[d] # <<>> => F[Parents[d][1]] = Line(Parents[d][1]))
    BY <1>1
  <2> HIDE DEF Line, F
  <2> QED BY <1>3, <1>4, <2>1
<1>6. Walk = Next1(Walk)
  <2> HIDE DEF F
  <2> QED BY <1>5 DEF Walk
<1> QED BY <1>6

\* A walk stays in the history of the commit it starts from.
LEMMA WalkInside ==
  ASSUME NEW h \in Commit PROVE h \in Walk[h] /\ Walk[h] \subseteq Contains[h]
<1> DEFINE Bad == {c \in Commit : ~(Walk[c] \subseteq Contains[c])}
<1>1. ASSUME Bad # {} PROVE FALSE
  <2>1. PICK c \in Bad : Parents[c] # <<>> => Parents[c][1] \notin Bad
    <3>1. Bad \in SUBSET Commit OBVIOUS
    <3> HIDE DEF Bad
    <3> QED BY <1>1, <3>1, Oldest
  <2>2. Parents[c] # <<>> /\ Walk[c] = {c} \cup Walk[Parents[c][1]]
    BY WalkSteps
  <2>3. 1 \in 1 .. Len(Parents[c]) /\ Parents[c][1] \in Commit
    BY <2>2, ParentsAssumption
  <2>4. Walk[Parents[c][1]] \subseteq Contains[Parents[c][1]]
    BY <2>1, <2>2, <2>3
  <2>5. Contains[Parents[c][1]] \subseteq Contains[c]
    BY <2>3, ParentInside
  <2> QED BY <2>2, <2>4, <2>5
<1> QED BY <1>1, WalkSteps

\* Where every commit of the walk that main lacks is in scope or integrates main, the
\* walk passes every commit that main lacks: it never leaves a side history unseen.
LEMMA WalkReaches ==
  ASSUME NEW h \in Commit, NEW base \in Commit,
         \A c \in Chain(h, base) : InScope(c, h) \/ Integration(c, base)
  PROVE  Relevant(h, base) \subseteq Walk[h]
<1> DEFINE Fine(c) == InScope(c, h) \/ Integration(c, base)
           Lacks(c) == Contains[c] \ Contains[base]
           Examined(c) == \A d \in Walk[c] \ Contains[base] : Fine(d)
           Bad == {c \in Commit : Examined(c) /\ ~(Lacks(c) \subseteq Walk[c])}
<1>1. ASSUME Bad # {} PROVE FALSE
  <2>1. PICK c \in Bad : Parents[c] # <<>> => Parents[c][1] \notin Bad
    <3>1. Bad \in SUBSET Commit OBVIOUS
    <3> HIDE DEF Bad
    <3> QED BY <1>1, <3>1, Oldest
  <2>2. c \in Commit /\ c \notin Contains[base] /\ c \in Walk[c]
    BY WalkInside
  <2>3. Fine(c)
    BY <2>2
  <2>4. Parents[c] \in Seq(Commit) /\ Len(Parents[c]) \in 1 .. 2
    BY <2>2, <2>3, ParentsAssumption DEF InScope, Integration
  <2> DEFINE p == Parents[c][1]
  <2>5. Parents[c] # <<>> /\ p \in Commit
    BY <2>4
  <2>6. Walk[c] = {c} \cup Walk[p]
    BY <2>2, <2>5, WalkSteps
  <2>7. Lacks(p) \subseteq Walk[p]
    <3>1. Examined(p) BY <2>6
    <3> QED BY <2>1, <2>5, <3>1
  <2>8. Lacks(c) \subseteq {c} \cup Lacks(p)
    <3>1. Contains[c] = {c} \cup UNION {Contains[Parents[c][i]] : i \in 1 .. Len(Parents[c])}
      BY <2>2, ParentsAssumption
    <3>2. ASSUME NEW i \in 1 .. Len(Parents[c]), i # 1
          PROVE  Contains[Parents[c][i]] \subseteq Contains[base]
      <4> DEFINE n == Len(Parents[c])
      <4>0. n \in 1 .. 2 /\ i \in 1 .. n BY <2>4
      <4> HIDE DEF n
      <4>1. i = 2 /\ n = 2 BY <4>0, <3>2
      <4> USE DEF n
      <4>2. Parents[c][2] \in Contains[base] BY <2>3, <4>1 DEF InScope, Integration
      <4>3. Contains[Parents[c][2]] \subseteq Contains[base]
        BY <4>2
      <4> QED BY <4>1, <4>3
    <3>3. ASSUME NEW d \in Lacks(c), d # c PROVE d \in Contains[p]
      <4>1. PICK i \in 1 .. Len(Parents[c]) : d \in Contains[Parents[c][i]]
        BY <3>1, <3>3
      <4> QED BY <3>2, <4>1
    <3> QED BY <3>3
  <2> HIDE DEF Lacks, p
  <2> QED BY <2>6, <2>7, <2>8, <2>1, <2>2
<1>2. Examined(h)
  BY DEF Chain
<1> QED BY <1>1, <1>2 DEF Relevant

\* THEOREM: the verdict of verify_history's walk is that of examining every commit of
\* rev-list on its own.  The comparison that ends the walk ("unexamined side history")
\* never decides: a merge that would bring one in already fails as an integration.
THEOREM WalkExamines ==
  ASSUME NEW h \in Commit, NEW base \in Commit
  PROVE  WalkHolds(h, base)
           <=> \A c \in Relevant(h, base) : InScope(c, h) \/ Integration(c, base)
<1>1. Chain(h, base) \subseteq Relevant(h, base)
  BY WalkInside DEF Chain, Relevant
<1>2. ASSUME \A c \in Chain(h, base) : InScope(c, h) \/ Integration(c, base)
      PROVE  Chain(h, base) = Relevant(h, base)
  BY <1>1, <1>2, WalkReaches DEF Chain, Relevant
<1> QED BY <1>1, <1>2 DEF WalkHolds

\* THEOREM: the walk of verify_history along first parents misses nothing: what it
\* lets pass is vetted commit by commit, since a commit off the walk makes it fail.
THEOREM WalkVets ==
  ASSUME NEW h \in Commit, NEW base \in Commit, WalkHolds(h, base) PROVE Vetted(h, base)
<1> SUFFICES ASSUME NEW c \in Contains[h] \ Contains[base]
             PROVE  \/ Len(Parents[c]) = 1 /\ Touches[c] \subseteq Scope[h].paths \cup Scope[h].past
                    \/ Len(Parents[c]) = 2 /\ c \in Clean /\ Parents[c][2] \in Contains[base]
  BY DEF Vetted
<1>1. InScope(c, h) \/ Integration(c, base)
  BY DEF WalkHolds, Relevant
<1> QED BY <1>1 DEF InScope, Integration, Permitted

\* verify_history: the candidate is vetted and contains main and the tip.
LEMMA HistoryVets ==
  ASSUME NEW h \in Commit, NEW base \in Commit, NEW original, NEW current,
         HistoryHolds(h, base, original, current)
  PROVE  /\ Vetted(h, base)
         /\ base \in Contains[h]
         /\ current # None => current \in Contains[h]
BY WalkVets, ScopeAssumption DEF HistoryHolds, Anchored

\* What is written before anything is read is well typed.
LEMMA Blanks ==
  /\ Unclaimed \in Marker
  /\ [Unclaimed EXCEPT !.state = "invalid"] \in Marker
  /\ Blank \in Run
  /\ NoReceipt \in Receipt
BY DEF Unclaimed, Marker, Tip, Blank, Run, NoReceipt, Receipt

\* Reading main, the ref, the marker or the session keeps what a run holds typed.
LEMMA RunMain ==
  ASSUME NEW r \in Run, NEW b \in Trunk PROVE [r EXCEPT !.main = b] \in Run
BY DEF Run
LEMMA RunRemote ==
  ASSUME NEW r \in Run, NEW t \in Tip PROVE [r EXCEPT !.remote = t] \in Run
BY DEF Run
LEMMA RunOwner ==
  ASSUME NEW r \in Run, NEW m \in Marker PROVE [r EXCEPT !.owner = m] \in Run
BY DEF Run
LEMMA RunSession ==
  ASSUME NEW r \in Run, NEW s \in Session, NEW m \in Marker
  PROVE  [r EXCEPT !.session = s, !.owner = m] \in Run
BY DEF Run
LEMMA RunStart ==
  ASSUME NEW r \in Run, NEW s \in Session, NEW h \in Branch, NEW m \in Marker
  PROVE  [r EXCEPT !.session = s, !.head = h, !.owner = m] \in Run
BY DEF Run, Tip

\* What a run holds.
LEMMA RunFields ==
  ASSUME NEW r \in Run
  PROVE  /\ r.owner \in Marker /\ r.head \in Tip /\ r.remote \in Tip
         /\ r.main \in Trunk \cup {None}
BY DEF Run

\* Pinning, recording and handing off keep the marker well typed.
LEMMA MarkerPin ==
  ASSUME NEW m \in Marker, NEW t \in Tip
  PROVE  /\ [m EXCEPT !.known = TRUE, !.original = t] \in Marker
         /\ [m EXCEPT !.ledger = t] \in Marker
BY DEF Marker
LEMMA MarkerSession ==
  ASSUME NEW m \in Marker, NEW s \in Session
  PROVE  [m EXCEPT !.session = s] \in Marker /\ Fresh(s) \in Marker
BY DEF Marker, Tip, Fresh, Unclaimed

\* The initial states satisfy the invariant.
LEMMA InitPush == Init => PushInv
<1> SUFFICES ASSUME Init PROVE PushInv
  OBVIOUS
<1> USE DEF Init, Tip, Branch, Run, Receipt, Labels
<1>1. Unclaimed \in Marker /\ Blank \in Run /\ NoReceipt \in Receipt
  BY DEF Marker, Unclaimed, Blank, NoReceipt
<1>2. ASSUME NEW s \in Session PROVE Fresh(s) \in Marker
  BY <1>2, <1>1 DEF Fresh, Marker, Unclaimed
<1>3. ASSUME NEW s \in Session PROVE [Fresh(s) EXCEPT !.ledger = tip] \in Marker
  BY <1>2, <1>3 DEF Marker
<1>4. marker \in Marker
  BY <1>1, <1>2, <1>3
<1>5. TypeOK
  BY <1>1, <1>4 DEF TypeOK
<1>6. HistoryInv /\ SeenInv
  BY DEF HistoryInv, SeenInv, Verified, Seen, Blank, Unclaimed
<1>7. marker.ledger \in {None, tip}
  <2>1. Unclaimed.ledger = None
    BY DEF Unclaimed
  <2>2. ASSUME NEW s \in Session
        PROVE Fresh(s).ledger = None /\ [Fresh(s) EXCEPT !.ledger = tip].ledger = tip
    BY <2>1 DEF Fresh, Unclaimed
  <2> QED BY <2>1, <2>2
<1>8. LedgerWasRemote /\ OnlyVerifiedSent /\ ReceiptTrue
  BY <1>7 DEF LedgerWasRemote, OnlyVerifiedSent, ReceiptTrue, NoReceipt
<1> QED BY <1>5, <1>6, <1>8 DEF PushInv

\* Every action keeps the types.
LEMMA NextPushTypes == ASSUME PushInv, [Next]_vars PROVE TypeOK'
<1> USE Blanks, RunFields DEF PushInv, TypeOK, HistoryInv, Verified, Labels, remote, local
<1>1. CASE UNCHANGED vars
  BY <1>1 DEF vars
<1>2. ASSUME World PROVE TypeOK'
  <2>1. CASE LocalMoves
    BY <2>1 DEF LocalMoves, Happen
  <2>2. CASE ForeignPush
    BY <2>2 DEF ForeignPush, Happen, Tip
  <2>3. CASE ForeignDelete
    BY <2>3 DEF ForeignDelete, Happen, Tip
  <2>4. CASE MainAdvances
    BY <2>4 DEF MainAdvances, Happen
  <2>5. CASE Damage
    BY <2>5 DEF Damage, Happen
  <2> QED BY <1>2, <2>1, <2>2, <2>3, <2>4, <2>5 DEF World
<1>3. ASSUME NEW p \in Proc, Prepare(p) PROVE TypeOK'
  <2>1. CASE ReadMain(p)
    <3> DEFINE r == [my[p] EXCEPT !.main = main]
    <3>8. r \in Run
      BY <2>1, RunMain
    <3>9. my' = [my EXCEPT ![p] = r]
      BY <2>1 DEF ReadMain
    <3> HIDE DEF r
    <3> QED BY <2>1, <3>8, <3>9 DEF ReadMain, Reads, Goto
  <2>2. CASE ReadTip(p)
    <3> DEFINE r == [my[p] EXCEPT !.remote = tip]
    <3>8. r \in Run
      BY <2>2, RunRemote
    <3>9. my' = [my EXCEPT ![p] = r]
      BY <2>2 DEF ReadTip
    <3> HIDE DEF r
    <3> QED BY <2>2, <3>8, <3>9 DEF ReadTip, Reads, Goto
  <2>3. CASE AlreadyPinned(p)
    <3> DEFINE r == [my[p] EXCEPT !.owner = marker]
    <3>8. r \in Run
      BY <2>3, RunOwner
    <3>9. my' = [my EXCEPT ![p] = r]
      BY <2>3 DEF AlreadyPinned
    <3> HIDE DEF r
    <3> QED BY <2>3, <3>8, <3>9 DEF AlreadyPinned, Reads, Goto
  <2>4. CASE Pin(p)
    <3> DEFINE m == [marker EXCEPT !.known = TRUE, !.original = my[p].remote]
    <3>1. m \in Marker
      BY MarkerPin
    <3> HIDE DEF m
    <3> DEFINE r == [my[p] EXCEPT !.owner = m]
    <3>2. r \in Run
      BY <3>1, RunOwner
    <3>3. my' = [my EXCEPT ![p] = r]
      BY <2>4 DEF Pin, m
    <3> HIDE DEF r
    <3> QED BY <2>4, <3>2, <3>3 DEF Pin, Reads, Goto
  <2>5. CASE PinWrite(p)
    BY <2>5 DEF PinWrite, WriteMarker, Goto
  <2>6. CASE RecheckHead(p)
    BY <2>6 DEF RecheckHead, Reads, Goto
  <2>7. CASE RecheckMain(p)
    BY <2>7 DEF RecheckMain, Reads, Goto
  <2> QED
    BY <1>3, <2>1, <2>2, <2>3, <2>4, <2>5, <2>6, <2>7 DEF Prepare
<1>4. ASSUME NEW p \in Proc, Transport(p) PROVE TypeOK'
  <2>1. CASE Noop(p)
    BY <2>1 DEF Noop, Reads, Goto, CanNoop
  <2>2. CASE Guard(p)
    BY <2>2 DEF Guard, Reads, Goto
  <2>3. CASE GuardRefuses(p)
    BY <2>3 DEF GuardRefuses, Reads, Goto
  <2>4. CASE Send(p)
    BY <2>4 DEF Send, Written, Goto, Tip, Branch
  <2>5. CASE SendRefused(p)
    BY <2>5 DEF SendRefused, Reads, Goto
  <2>6. CASE ReadBack(p)
    BY <2>6 DEF ReadBack, Reads, Goto
  <2>7. CASE ReadBackAgain(p)
    BY <2>7 DEF ReadBackAgain, Reads, Goto
  <2> QED
    BY <1>4, <2>1, <2>2, <2>3, <2>4, <2>5, <2>6, <2>7 DEF Transport
<1>5. ASSUME NEW p \in Proc, Conclude(p) PROVE TypeOK'
  <2>1. CASE SkipRecord(p)
    BY <2>1 DEF SkipRecord, Reads, Goto
  <2>2. CASE RecordPush(p)
    BY <2>2 DEF RecordPush, Reads, Goto
  <2>3. CASE RecordWrite(p)
    <3>1. Recorded(p) \in Marker
      BY MarkerPin DEF Recorded
    <3> QED BY <2>3, <3>1 DEF RecordWrite, WriteMarker, Goto
  <2>4. CASE Salvage(p)
    BY <2>4 DEF Salvage, Reads, Goto
  <2>5. CASE SalvageWrite(p)
    <3>1. Recorded(p) \in Marker
      BY MarkerPin DEF Recorded
    <3> QED BY <2>5, <3>1 DEF SalvageWrite, WriteMarker, End
  <2>6. CASE MainAfter(p)
    BY <2>6 DEF MainAfter, Reads, Goto
  <2>7. CASE Publish(p)
    <3>1. Result(p) \in Receipt
      BY DEF Result, Receipt
    <3> QED BY <2>7, <3>1 DEF Publish, End
  <2> QED
    BY <1>5, <2>1, <2>2, <2>3, <2>4, <2>5, <2>6, <2>7 DEF Conclude
<1>6. ASSUME NEW p \in Proc, ClaimWrite(p) PROVE TypeOK'
  BY <1>6 DEF ClaimWrite, WriteMarker, End
<1>7. ASSUME NEW p \in Proc, Refuse(p) PROVE TypeOK'
  BY <1>7 DEF Refuse, End
<1>8. ASSUME NEW p \in Proc, NEW s \in Session, Authorize(p, s) PROVE TypeOK'
  <2> DEFINE r == [my[p] EXCEPT !.session = s, !.head = head, !.owner = marker]
  <2>8. r \in Run
    BY <1>8, RunStart
  <2>9. my' = [my EXCEPT ![p] = r]
    BY <1>8 DEF Authorize
  <2> HIDE DEF r
  <2>10. my' \in [Proc -> Run]
    BY <2>8, <2>9
  <2> QED BY <1>8, <2>10 DEF Authorize, Goto
<1>9. ASSUME NEW p \in Proc, HandOff(p) PROVE TypeOK'
  <2>1. PICK s \in Session, takeover \in BOOLEAN : Claim(p, s, takeover)
    BY <1>9 DEF HandOff
  <2> DEFINE r == [my[p] EXCEPT !.session = s, !.owner = Claimed(s)]
  <2>8. r \in Run
    BY <2>1, RunSession, MarkerSession DEF Claimed
  <2>9. my' = [my EXCEPT ![p] = r]
    BY <2>1 DEF Claim
  <2> HIDE DEF r
  <2>10. my' \in [Proc -> Run]
    BY <2>8, <2>9
  <2> QED BY <1>9, <2>1, <2>10 DEF HandOff, Happen, Claim, Goto
<1>10. ASSUME NEW p \in Proc, Crash(p) PROVE TypeOK'
  BY <1>10 DEF Crash, Happen, End
<1>11. ASSUME NEW p \in Proc, SendLost(p) PROVE TypeOK'
  BY <1>11 DEF SendLost, Happen, Written, Goto, Tip, Branch
<1> QED
  BY <1>1, <1>2, <1>3, <1>4, <1>5, <1>6, <1>7, <1>8, <1>9, <1>10, <1>11
  DEF Next, Start, Advance

\* A run past ReadTip keeps what it verified: nothing it verified can change.
LEMMA NextHistory == ASSUME PushInv, [Next]_vars PROVE HistoryInv'
<1> USE DEF PushInv, TypeOK, HistoryInv, Verified, Blank, remote, local
<1>1. CASE UNCHANGED vars
  BY <1>1 DEF vars
<1>2. ASSUME World PROVE HistoryInv'
  <2>1. CASE LocalMoves
    BY <2>1 DEF LocalMoves, Happen
  <2>2. CASE ForeignPush
    BY <2>2 DEF ForeignPush, Happen
  <2>3. CASE ForeignDelete
    BY <2>3 DEF ForeignDelete, Happen
  <2>4. CASE MainAdvances
    BY <2>4 DEF MainAdvances, Happen
  <2>5. CASE Damage
    BY <2>5 DEF Damage, Happen
  <2> QED BY <1>2, <2>1, <2>2, <2>3, <2>4, <2>5 DEF World
<1>3. ASSUME NEW p \in Proc, Prepare(p) PROVE HistoryInv'
  <2>1. CASE ReadMain(p)
    BY <2>1 DEF ReadMain, Reads, Goto
  <2>2. CASE ReadTip(p)
    <3>1. my[p].head \in Commit /\ my[p].main \in Commit
      BY <2>2 DEF ReadTip, Reads, Run, Tip, Branch
    <3>2. /\ Vetted(my[p].head, my[p].main)
          /\ my[p].main \in Contains[my[p].head]
          /\ tip # None => tip \in Contains[my[p].head]
      BY <2>2, <3>1, HistoryVets DEF ReadTip, CanBuild
    <3> QED BY <2>2, <3>2 DEF ReadTip, Reads, Goto
  <2>3. CASE AlreadyPinned(p)
    BY <2>3 DEF AlreadyPinned, Reads, Goto
  <2>4. CASE Pin(p)
    BY <2>4 DEF Pin, Reads, Goto
  <2>5. CASE PinWrite(p)
    BY <2>5 DEF PinWrite, WriteMarker, Goto
  <2>6. CASE RecheckHead(p)
    BY <2>6 DEF RecheckHead, Reads, Goto
  <2>7. CASE RecheckMain(p)
    BY <2>7 DEF RecheckMain, Reads, Goto
  <2> QED
    BY <1>3, <2>1, <2>2, <2>3, <2>4, <2>5, <2>6, <2>7 DEF Prepare
<1>4. ASSUME NEW p \in Proc, Transport(p) PROVE HistoryInv'
  <2>1. CASE Noop(p)
    BY <2>1 DEF Noop, Reads, Goto, CanNoop
  <2>2. CASE Guard(p)
    BY <2>2 DEF Guard, Reads, Goto
  <2>3. CASE GuardRefuses(p)
    BY <2>3 DEF GuardRefuses, Reads, Goto
  <2>4. CASE Send(p)
    BY <2>4 DEF Send, Written, Goto
  <2>5. CASE SendRefused(p)
    BY <2>5 DEF SendRefused, Reads, Goto
  <2>6. CASE ReadBack(p)
    BY <2>6 DEF ReadBack, Reads, Goto
  <2>7. CASE ReadBackAgain(p)
    BY <2>7 DEF ReadBackAgain, Reads, Goto
  <2> QED
    BY <1>4, <2>1, <2>2, <2>3, <2>4, <2>5, <2>6, <2>7 DEF Transport
<1>5. ASSUME NEW p \in Proc, Conclude(p) PROVE HistoryInv'
  <2>1. CASE SkipRecord(p)
    BY <2>1 DEF SkipRecord, Reads, Goto
  <2>2. CASE RecordPush(p)
    BY <2>2 DEF RecordPush, Reads, Goto
  <2>3. CASE RecordWrite(p)
    BY <2>3 DEF RecordWrite, WriteMarker, Recorded, Goto
  <2>4. CASE Salvage(p)
    BY <2>4 DEF Salvage, Reads, Goto
  <2>5. CASE SalvageWrite(p)
    BY <2>5 DEF SalvageWrite, WriteMarker, Recorded, End
  <2>6. CASE MainAfter(p)
    BY <2>6 DEF MainAfter, Reads, Goto
  <2>7. CASE Publish(p)
    BY <2>7 DEF Publish, Result, End
  <2> QED
    BY <1>5, <2>1, <2>2, <2>3, <2>4, <2>5, <2>6, <2>7 DEF Conclude
<1>6. ASSUME NEW p \in Proc, ClaimWrite(p) PROVE HistoryInv'
  BY <1>6 DEF ClaimWrite, WriteMarker, End
<1>7. ASSUME NEW p \in Proc, Refuse(p) PROVE HistoryInv'
  BY <1>7 DEF Refuse, End
<1>8. ASSUME NEW p \in Proc, NEW s \in Session, Authorize(p, s) PROVE HistoryInv'
  BY <1>8 DEF Authorize, Goto, NoReceipt, Branch
<1>9. ASSUME NEW p \in Proc, HandOff(p) PROVE HistoryInv'
  BY <1>9 DEF HandOff, Happen, Claim, Claimed, Fresh, Unclaimed, Goto
<1>10. ASSUME NEW p \in Proc, Crash(p) PROVE HistoryInv'
  BY <1>10 DEF Crash, Happen, End
<1>11. ASSUME NEW p \in Proc, SendLost(p) PROVE HistoryInv'
  BY <1>11 DEF SendLost, Happen, Written, Goto
<1> QED
  BY <1>1, <1>2, <1>3, <1>4, <1>5, <1>6, <1>7, <1>8, <1>9, <1>10, <1>11
  DEF Next, Start, Advance

\* Heads a run saw on the remote, and ledgers in its hands, stay facts.
LEMMA NextSeen == ASSUME PushInv, [Next]_vars PROVE SeenInv'
<1> USE DEF PushInv, TypeOK, HistoryInv, Verified, Tip, Branch, Run, Marker, SeenInv, LedgerWasRemote, Seen, Blank, Unclaimed, remote, local
<1>1. CASE UNCHANGED vars
  BY <1>1 DEF vars
<1>2. ASSUME World PROVE SeenInv'
  <2>1. CASE LocalMoves
    BY <2>1 DEF LocalMoves, Happen
  <2>2. CASE ForeignPush
    BY <2>2 DEF ForeignPush, Happen
  <2>3. CASE ForeignDelete
    BY <2>3 DEF ForeignDelete, Happen
  <2>4. CASE MainAdvances
    BY <2>4 DEF MainAdvances, Happen
  <2>5. CASE Damage
    BY <2>5 DEF Damage, Happen
  <2> QED BY <1>2, <2>1, <2>2, <2>3, <2>4, <2>5 DEF World
<1>3. ASSUME NEW p \in Proc, Prepare(p) PROVE SeenInv'
  <2>1. CASE ReadMain(p)
    BY <2>1 DEF ReadMain, Reads, Goto
  <2>2. CASE ReadTip(p)
    BY <2>2 DEF ReadTip, Reads, Goto
  <2>3. CASE AlreadyPinned(p)
    BY <2>3 DEF AlreadyPinned, Reads, Goto
  <2>4. CASE Pin(p)
    BY <2>4 DEF Pin, Reads, Goto
  <2>5. CASE PinWrite(p)
    BY <2>5 DEF PinWrite, WriteMarker, Goto
  <2>6. CASE RecheckHead(p)
    BY <2>6 DEF RecheckHead, Reads, Goto
  <2>7. CASE RecheckMain(p)
    BY <2>7 DEF RecheckMain, Reads, Goto
  <2> QED
    BY <1>3, <2>1, <2>2, <2>3, <2>4, <2>5, <2>6, <2>7 DEF Prepare
<1>4. ASSUME NEW p \in Proc, Transport(p) PROVE SeenInv'
  <2>1. CASE Noop(p)
    BY <2>1 DEF Noop, Reads, Goto, CanNoop
  <2>2. CASE Guard(p)
    BY <2>2 DEF Guard, Reads, Goto
  <2>3. CASE GuardRefuses(p)
    BY <2>3 DEF GuardRefuses, Reads, Goto
  <2>4. CASE Send(p)
    BY <2>4 DEF Send, Written, Goto
  <2>5. CASE SendRefused(p)
    BY <2>5 DEF SendRefused, Reads, Goto
  <2>6. CASE ReadBack(p)
    BY <2>6 DEF ReadBack, Reads, Goto
  <2>7. CASE ReadBackAgain(p)
    BY <2>7 DEF ReadBackAgain, Reads, Goto
  <2> QED
    BY <1>4, <2>1, <2>2, <2>3, <2>4, <2>5, <2>6, <2>7 DEF Transport
<1>5. ASSUME NEW p \in Proc, Conclude(p) PROVE SeenInv'
  <2>1. CASE SkipRecord(p)
    BY <2>1 DEF SkipRecord, Reads, Goto
  <2>2. CASE RecordPush(p)
    BY <2>2 DEF RecordPush, Reads, Goto
  <2>3. CASE RecordWrite(p)
    BY <2>3 DEF RecordWrite, WriteMarker, Recorded, Goto
  <2>4. CASE Salvage(p)
    BY <2>4 DEF Salvage, Reads, Goto
  <2>5. CASE SalvageWrite(p)
    BY <2>5 DEF SalvageWrite, WriteMarker, Recorded, End
  <2>6. CASE MainAfter(p)
    BY <2>6 DEF MainAfter, Reads, Goto
  <2>7. CASE Publish(p)
    BY <2>7 DEF Publish, Result, End
  <2> QED
    BY <1>5, <2>1, <2>2, <2>3, <2>4, <2>5, <2>6, <2>7 DEF Conclude
<1>6. ASSUME NEW p \in Proc, ClaimWrite(p) PROVE SeenInv'
  BY <1>6 DEF ClaimWrite, WriteMarker, End
<1>7. ASSUME NEW p \in Proc, Refuse(p) PROVE SeenInv'
  BY <1>7 DEF Refuse, End
<1>8. ASSUME NEW p \in Proc, NEW s \in Session, Authorize(p, s) PROVE SeenInv'
  BY <1>8 DEF Authorize, Goto, NoReceipt
<1>9. ASSUME NEW p \in Proc, HandOff(p) PROVE SeenInv'
  BY <1>9 DEF HandOff, Happen, Claim, Claimed, Fresh, Unclaimed, Goto
<1>10. ASSUME NEW p \in Proc, Crash(p) PROVE SeenInv'
  BY <1>10 DEF Crash, Happen, End
<1>11. ASSUME NEW p \in Proc, SendLost(p) PROVE SeenInv'
  BY <1>11 DEF SendLost, Happen, Written, Goto
<1> QED
  BY <1>1, <1>2, <1>3, <1>4, <1>5, <1>6, <1>7, <1>8, <1>9, <1>10, <1>11
  DEF Next, Start, Advance

\* The ledger is written only from a snapshot or from a head that was seen.
LEMMA NextLedger == ASSUME PushInv, [Next]_vars PROVE LedgerWasRemote'
<1> USE DEF PushInv, TypeOK, SeenInv, LedgerWasRemote, Seen, Unclaimed, remote, local
<1>1. CASE UNCHANGED vars
  BY <1>1 DEF vars
<1>2. ASSUME World PROVE LedgerWasRemote'
  <2>1. CASE LocalMoves
    BY <2>1 DEF LocalMoves, Happen
  <2>2. CASE ForeignPush
    BY <2>2 DEF ForeignPush, Happen
  <2>3. CASE ForeignDelete
    BY <2>3 DEF ForeignDelete, Happen
  <2>4. CASE MainAdvances
    BY <2>4 DEF MainAdvances, Happen
  <2>5. CASE Damage
    BY <2>5 DEF Damage, Happen
  <2> QED BY <1>2, <2>1, <2>2, <2>3, <2>4, <2>5 DEF World
<1>3. ASSUME NEW p \in Proc, Prepare(p) PROVE LedgerWasRemote'
  <2>1. CASE ReadMain(p)
    BY <2>1 DEF ReadMain, Reads, Goto
  <2>2. CASE ReadTip(p)
    BY <2>2 DEF ReadTip, Reads, Goto
  <2>3. CASE AlreadyPinned(p)
    BY <2>3 DEF AlreadyPinned, Reads, Goto
  <2>4. CASE Pin(p)
    BY <2>4 DEF Pin, Reads, Goto
  <2>5. CASE PinWrite(p)
    BY <2>5 DEF PinWrite, WriteMarker, Goto
  <2>6. CASE RecheckHead(p)
    BY <2>6 DEF RecheckHead, Reads, Goto
  <2>7. CASE RecheckMain(p)
    BY <2>7 DEF RecheckMain, Reads, Goto
  <2> QED
    BY <1>3, <2>1, <2>2, <2>3, <2>4, <2>5, <2>6, <2>7 DEF Prepare
<1>4. ASSUME NEW p \in Proc, Transport(p) PROVE LedgerWasRemote'
  <2>1. CASE Noop(p)
    BY <2>1 DEF Noop, Reads, Goto, CanNoop
  <2>2. CASE Guard(p)
    BY <2>2 DEF Guard, Reads, Goto
  <2>3. CASE GuardRefuses(p)
    BY <2>3 DEF GuardRefuses, Reads, Goto
  <2>4. CASE Send(p)
    BY <2>4 DEF Send, Written, Goto
  <2>5. CASE SendRefused(p)
    BY <2>5 DEF SendRefused, Reads, Goto
  <2>6. CASE ReadBack(p)
    BY <2>6 DEF ReadBack, Reads, Goto
  <2>7. CASE ReadBackAgain(p)
    BY <2>7 DEF ReadBackAgain, Reads, Goto
  <2> QED
    BY <1>4, <2>1, <2>2, <2>3, <2>4, <2>5, <2>6, <2>7 DEF Transport
<1>5. ASSUME NEW p \in Proc, Conclude(p) PROVE LedgerWasRemote'
  <2>1. CASE SkipRecord(p)
    BY <2>1 DEF SkipRecord, Reads, Goto
  <2>2. CASE RecordPush(p)
    BY <2>2 DEF RecordPush, Reads, Goto
  <2>3. CASE RecordWrite(p)
    BY <2>3 DEF RecordWrite, WriteMarker, Recorded, Goto
  <2>4. CASE Salvage(p)
    BY <2>4 DEF Salvage, Reads, Goto
  <2>5. CASE SalvageWrite(p)
    BY <2>5 DEF SalvageWrite, WriteMarker, Recorded, End
  <2>6. CASE MainAfter(p)
    BY <2>6 DEF MainAfter, Reads, Goto
  <2>7. CASE Publish(p)
    BY <2>7 DEF Publish, Result, End
  <2> QED
    BY <1>5, <2>1, <2>2, <2>3, <2>4, <2>5, <2>6, <2>7 DEF Conclude
<1>6. ASSUME NEW p \in Proc, ClaimWrite(p) PROVE LedgerWasRemote'
  BY <1>6 DEF ClaimWrite, WriteMarker, End
<1>7. ASSUME NEW p \in Proc, Refuse(p) PROVE LedgerWasRemote'
  BY <1>7 DEF Refuse, End
<1>8. ASSUME NEW p \in Proc, NEW s \in Session, Authorize(p, s) PROVE LedgerWasRemote'
  BY <1>8 DEF Authorize, Goto, NoReceipt
<1>9. ASSUME NEW p \in Proc, HandOff(p) PROVE LedgerWasRemote'
  BY <1>9 DEF HandOff, Happen, Claim, Claimed, Fresh, Unclaimed, Goto
<1>10. ASSUME NEW p \in Proc, Crash(p) PROVE LedgerWasRemote'
  BY <1>10 DEF Crash, Happen, End
<1>11. ASSUME NEW p \in Proc, SendLost(p) PROVE LedgerWasRemote'
  BY <1>11 DEF SendLost, Happen, Written, Goto
<1> QED
  BY <1>1, <1>2, <1>3, <1>4, <1>5, <1>6, <1>7, <1>8, <1>9, <1>10, <1>11
  DEF Next, Start, Advance

\* Only a verified candidate is sent.
LEMMA NextSent == ASSUME PushInv, [Next]_vars PROVE OnlyVerifiedSent'
<1> USE DEF PushInv, TypeOK, HistoryInv, Verified, OnlyVerifiedSent, remote, local
<1>1. CASE UNCHANGED vars
  BY <1>1 DEF vars
<1>2. ASSUME World PROVE OnlyVerifiedSent'
  <2>1. CASE LocalMoves
    BY <2>1 DEF LocalMoves, Happen
  <2>2. CASE ForeignPush
    BY <2>2 DEF ForeignPush, Happen
  <2>3. CASE ForeignDelete
    BY <2>3 DEF ForeignDelete, Happen
  <2>4. CASE MainAdvances
    BY <2>4 DEF MainAdvances, Happen
  <2>5. CASE Damage
    BY <2>5 DEF Damage, Happen
  <2> QED BY <1>2, <2>1, <2>2, <2>3, <2>4, <2>5 DEF World
<1>3. ASSUME NEW p \in Proc, Prepare(p) PROVE OnlyVerifiedSent'
  <2>1. CASE ReadMain(p)
    BY <2>1 DEF ReadMain, Reads, Goto
  <2>2. CASE ReadTip(p)
    BY <2>2 DEF ReadTip, Reads, Goto
  <2>3. CASE AlreadyPinned(p)
    BY <2>3 DEF AlreadyPinned, Reads, Goto
  <2>4. CASE Pin(p)
    BY <2>4 DEF Pin, Reads, Goto
  <2>5. CASE PinWrite(p)
    BY <2>5 DEF PinWrite, WriteMarker, Goto
  <2>6. CASE RecheckHead(p)
    BY <2>6 DEF RecheckHead, Reads, Goto
  <2>7. CASE RecheckMain(p)
    BY <2>7 DEF RecheckMain, Reads, Goto
  <2> QED
    BY <1>3, <2>1, <2>2, <2>3, <2>4, <2>5, <2>6, <2>7 DEF Prepare
<1>4. ASSUME NEW p \in Proc, Transport(p) PROVE OnlyVerifiedSent'
  <2>1. CASE Noop(p)
    BY <2>1 DEF Noop, Reads, Goto, CanNoop
  <2>2. CASE Guard(p)
    BY <2>2 DEF Guard, Reads, Goto
  <2>3. CASE GuardRefuses(p)
    BY <2>3 DEF GuardRefuses, Reads, Goto
  <2>4. CASE Send(p)
    <3>1. my[p].main \in Trunk /\ Vetted(my[p].head, my[p].main)
      BY <2>4 DEF Send, Run
    <3> QED BY <2>4, <3>1 DEF Send, Written, Goto
  <2>5. CASE SendRefused(p)
    BY <2>5 DEF SendRefused, Reads, Goto
  <2>6. CASE ReadBack(p)
    BY <2>6 DEF ReadBack, Reads, Goto
  <2>7. CASE ReadBackAgain(p)
    BY <2>7 DEF ReadBackAgain, Reads, Goto
  <2> QED
    BY <1>4, <2>1, <2>2, <2>3, <2>4, <2>5, <2>6, <2>7 DEF Transport
<1>5. ASSUME NEW p \in Proc, Conclude(p) PROVE OnlyVerifiedSent'
  <2>1. CASE SkipRecord(p)
    BY <2>1 DEF SkipRecord, Reads, Goto
  <2>2. CASE RecordPush(p)
    BY <2>2 DEF RecordPush, Reads, Goto
  <2>3. CASE RecordWrite(p)
    BY <2>3 DEF RecordWrite, WriteMarker, Recorded, Goto
  <2>4. CASE Salvage(p)
    BY <2>4 DEF Salvage, Reads, Goto
  <2>5. CASE SalvageWrite(p)
    BY <2>5 DEF SalvageWrite, WriteMarker, Recorded, End
  <2>6. CASE MainAfter(p)
    BY <2>6 DEF MainAfter, Reads, Goto
  <2>7. CASE Publish(p)
    BY <2>7 DEF Publish, Result, End
  <2> QED
    BY <1>5, <2>1, <2>2, <2>3, <2>4, <2>5, <2>6, <2>7 DEF Conclude
<1>6. ASSUME NEW p \in Proc, ClaimWrite(p) PROVE OnlyVerifiedSent'
  BY <1>6 DEF ClaimWrite, WriteMarker, End
<1>7. ASSUME NEW p \in Proc, Refuse(p) PROVE OnlyVerifiedSent'
  BY <1>7 DEF Refuse, End
<1>8. ASSUME NEW p \in Proc, NEW s \in Session, Authorize(p, s) PROVE OnlyVerifiedSent'
  BY <1>8 DEF Authorize, Goto, NoReceipt
<1>9. ASSUME NEW p \in Proc, HandOff(p) PROVE OnlyVerifiedSent'
  BY <1>9 DEF HandOff, Happen, Claim, Claimed, Fresh, Unclaimed, Goto
<1>10. ASSUME NEW p \in Proc, Crash(p) PROVE OnlyVerifiedSent'
  BY <1>10 DEF Crash, Happen, End
<1>11. ASSUME NEW p \in Proc, SendLost(p) PROVE OnlyVerifiedSent'
  <2>1. my[p].main \in Trunk /\ Vetted(my[p].head, my[p].main)
    BY <1>11 DEF SendLost, Run
  <2> QED BY <1>11, <2>1 DEF SendLost, Happen, Written, Goto
<1> QED
  BY <1>1, <1>2, <1>3, <1>4, <1>5, <1>6, <1>7, <1>8, <1>9, <1>10, <1>11
  DEF Next, Start, Advance

\* A result repeats what its run verified and saw.
LEMMA NextReceipt == ASSUME PushInv, [Next]_vars PROVE ReceiptTrue'
<1> USE DEF PushInv, TypeOK, HistoryInv, SeenInv, Verified, Seen, ReceiptTrue, remote, local
<1>1. CASE UNCHANGED vars
  BY <1>1 DEF vars
<1>2. ASSUME World PROVE ReceiptTrue'
  <2>1. CASE LocalMoves
    BY <2>1 DEF LocalMoves, Happen
  <2>2. CASE ForeignPush
    BY <2>2 DEF ForeignPush, Happen
  <2>3. CASE ForeignDelete
    BY <2>3 DEF ForeignDelete, Happen
  <2>4. CASE MainAdvances
    BY <2>4 DEF MainAdvances, Happen
  <2>5. CASE Damage
    BY <2>5 DEF Damage, Happen
  <2> QED BY <1>2, <2>1, <2>2, <2>3, <2>4, <2>5 DEF World
<1>3. ASSUME NEW p \in Proc, Prepare(p) PROVE ReceiptTrue'
  <2>1. CASE ReadMain(p)
    BY <2>1 DEF ReadMain, Reads, Goto
  <2>2. CASE ReadTip(p)
    BY <2>2 DEF ReadTip, Reads, Goto
  <2>3. CASE AlreadyPinned(p)
    BY <2>3 DEF AlreadyPinned, Reads, Goto
  <2>4. CASE Pin(p)
    BY <2>4 DEF Pin, Reads, Goto
  <2>5. CASE PinWrite(p)
    BY <2>5 DEF PinWrite, WriteMarker, Goto
  <2>6. CASE RecheckHead(p)
    BY <2>6 DEF RecheckHead, Reads, Goto
  <2>7. CASE RecheckMain(p)
    BY <2>7 DEF RecheckMain, Reads, Goto
  <2> QED
    BY <1>3, <2>1, <2>2, <2>3, <2>4, <2>5, <2>6, <2>7 DEF Prepare
<1>4. ASSUME NEW p \in Proc, Transport(p) PROVE ReceiptTrue'
  <2>1. CASE Noop(p)
    BY <2>1 DEF Noop, Reads, Goto, CanNoop
  <2>2. CASE Guard(p)
    BY <2>2 DEF Guard, Reads, Goto
  <2>3. CASE GuardRefuses(p)
    BY <2>3 DEF GuardRefuses, Reads, Goto
  <2>4. CASE Send(p)
    BY <2>4 DEF Send, Written, Goto
  <2>5. CASE SendRefused(p)
    BY <2>5 DEF SendRefused, Reads, Goto
  <2>6. CASE ReadBack(p)
    BY <2>6 DEF ReadBack, Reads, Goto
  <2>7. CASE ReadBackAgain(p)
    BY <2>7 DEF ReadBackAgain, Reads, Goto
  <2> QED
    BY <1>4, <2>1, <2>2, <2>3, <2>4, <2>5, <2>6, <2>7 DEF Transport
<1>5. ASSUME NEW p \in Proc, Conclude(p) PROVE ReceiptTrue'
  <2>1. CASE SkipRecord(p)
    BY <2>1 DEF SkipRecord, Reads, Goto
  <2>2. CASE RecordPush(p)
    BY <2>2 DEF RecordPush, Reads, Goto
  <2>3. CASE RecordWrite(p)
    BY <2>3 DEF RecordWrite, WriteMarker, Recorded, Goto
  <2>4. CASE Salvage(p)
    BY <2>4 DEF Salvage, Reads, Goto
  <2>5. CASE SalvageWrite(p)
    BY <2>5 DEF SalvageWrite, WriteMarker, Recorded, End
  <2>6. CASE MainAfter(p)
    BY <2>6 DEF MainAfter, Reads, Goto
  <2>7. CASE Publish(p)
    BY <2>7 DEF Publish, Result, End
  <2> QED
    BY <1>5, <2>1, <2>2, <2>3, <2>4, <2>5, <2>6, <2>7 DEF Conclude
<1>6. ASSUME NEW p \in Proc, ClaimWrite(p) PROVE ReceiptTrue'
  BY <1>6 DEF ClaimWrite, WriteMarker, End
<1>7. ASSUME NEW p \in Proc, Refuse(p) PROVE ReceiptTrue'
  BY <1>7 DEF Refuse, End
<1>8. ASSUME NEW p \in Proc, NEW s \in Session, Authorize(p, s) PROVE ReceiptTrue'
  BY <1>8 DEF Authorize, Goto, NoReceipt
<1>9. ASSUME NEW p \in Proc, HandOff(p) PROVE ReceiptTrue'
  BY <1>9 DEF HandOff, Happen, Claim, Claimed, Fresh, Unclaimed, Goto
<1>10. ASSUME NEW p \in Proc, Crash(p) PROVE ReceiptTrue'
  BY <1>10 DEF Crash, Happen, End
<1>11. ASSUME NEW p \in Proc, SendLost(p) PROVE ReceiptTrue'
  BY <1>11 DEF SendLost, Happen, Written, Goto
<1> QED
  BY <1>1, <1>2, <1>3, <1>4, <1>5, <1>6, <1>7, <1>8, <1>9, <1>10, <1>11
  DEF Next, Start, Advance

-----------------------------------------------------------------------------
\* THEOREM: runs, hand-offs and events keep the invariant.
THEOREM PushInductive == Spec => []PushInv
<1>1. PushInv /\ [Next]_vars => PushInv'
  BY NextPushTypes, NextHistory, NextSeen, NextLedger, NextSent, NextReceipt DEF PushInv
<1> QED BY InitPush, <1>1, PTL DEF Spec

\* THEOREM: the types are kept.
THEOREM PushTypes == Spec => []TypeOK
BY PushInductive, PTL DEF PushInv

\* THEOREM: a head in the ledger was on the remote, whatever failed or raced.
THEOREM LedgerFact == Spec => []LedgerWasRemote
BY PushInductive, PTL DEF PushInv

\* THEOREM: a PUBLISHED or NOOP result is about a verified head that was on the remote.
THEOREM ReceiptFact == Spec => []ReceiptTrue
BY PushInductive, PTL DEF PushInv

\* THEOREM: nothing unverified is ever written to the remote.
THEOREM SentVerified == Spec => []OnlyVerifiedSent
BY PushInductive, PTL DEF PushInv

\* THEOREM: a broker write never drops a commit that is on the change ref.
THEOREM FastForwards == Spec => OnlyFastForwards
<1> DEFINE Kept == tip' # tip /\ pc' # pc => tip = None \/ tip \in Contains[tip']
<1>1. PushInv /\ [Next]_vars => [Kept]_vars
  <2> SUFFICES ASSUME PushInv, [Next]_vars, tip' # tip, pc' # pc
               PROVE tip = None \/ tip \in Contains[tip']
    OBVIOUS
  <2> USE DEF PushInv, HistoryInv, Verified, remote, local
  <2>1. ~World
    BY DEF World, LocalMoves, ForeignPush, ForeignDelete, MainAdvances, Damage
  <2>2. PICK p \in Proc : Start(p) \/ Advance(p) \/ HandOff(p) \/ Crash(p) \/ SendLost(p)
    <3>1. CASE UNCHANGED vars
      BY <3>1 DEF vars
    <3> QED BY <2>1, <3>1 DEF Next
  <2>3. Send(p) \/ SendLost(p)
    BY <2>2 DEF Start, Authorize, HandOff, Claim, Crash, Advance, ClaimWrite, WriteMarker,
        Refuse, Prepare, ReadMain, ReadTip, AlreadyPinned, Pin, PinWrite, RecheckHead,
        RecheckMain, Transport, Noop, Guard, GuardRefuses, SendRefused, ReadBack,
        ReadBackAgain, Conclude, SkipRecord, RecordPush, RecordWrite, Salvage,
        SalvageWrite, MainAfter, Publish, Reads
  <2> QED BY <2>3 DEF Send, SendLost, Written
<1> QED BY <1>1, PushInductive, PTL DEF Spec, OnlyFastForwards

-----------------------------------------------------------------------------
(***************************************************************************)
(* Refusals.                                                               *)
(***************************************************************************)
\* What a run read is no longer so: HEAD, main, the marker, or the ref as it was read
\* and, once it was sent, as it was left.
RefMoved(p) ==
  /\ pc[p] \notin {"main", "tip"}
  /\ tip # IF pc[p] = "readback" THEN my[p].head ELSE my[p].remote

Overtaken(p) ==
  head # my[p].head \/ main # my[p].main \/ marker # my[p].owner \/ RefMoved(p)

\* The marker a run goes by is one of its session, which was not of an older broker
\* and knows R0 from the pin on; past ReadTip the walk of its candidate holds.
Held(p) ==
  /\ pc[p] \notin {"idle", "claim"} =>
       my[p].owner.state = "claimed" /\ my[p].owner.session = my[p].session
  /\ pc[p] = "pin" => ~Legacy(my[p].owner)
  /\ pc[p] \notin {"idle", "claim", "main", "tip", "pin"} => my[p].owner.known
  /\ pc[p] \notin {"idle", "claim", "main", "tip"} =>
       WalkHolds(my[p].head, my[p].main) /\ Anchored(my[p].head, {Scope[my[p].head].old})
  /\ pc[p] = "noop" => my[p].remote = my[p].head

HeldInv == \A p \in Proc : Held(p)

\* A run the step leaves alone, or ends, keeps what it goes by.
LEMMA HeldKept ==
  ASSUME PushInv, HeldInv, NEW p \in Proc,
         (pc'[p] = pc[p] /\ my'[p] = my[p]) \/ pc'[p] \in {"idle", "claim"}
  PROVE  Held(p)'
BY DEF HeldInv, Held, Legacy

\* The step of a run changes no other one.
LEMMA OthersHeld ==
  ASSUME PushInv, HeldInv, NEW p \in Proc, Held(p)',
         \A q \in Proc : q # p => pc'[q] = pc[q] /\ my'[q] = my[q]
  PROVE  HeldInv'
BY HeldKept DEF HeldInv

\* A step of a push keeps what it goes by.
LEMMA AdvanceHeld ==
  ASSUME PushInv, NEW p \in Proc, Held(p), Prepare(p) \/ Transport(p) \/ Conclude(p)
  PROVE  Held(p)'
<1> USE DEF PushInv, TypeOK, remote, local, Goto, Held, Reads
<1>1. CASE ReadMain(p)
  BY <1>1 DEF ReadMain, Run
<1>2. CASE ReadTip(p)
  <2>1. /\ WalkHolds(my[p].head, my[p].main)
        /\ Anchored(my[p].head, {Scope[my[p].head].old})
        /\ ~Legacy(my[p].owner)
    BY <1>2 DEF ReadTip, CanBuild, TipExpected, HistoryHolds, Anchored
  <2>2. /\ my'[p].owner = my[p].owner /\ my'[p].session = my[p].session
        /\ my'[p].head = my[p].head /\ my'[p].main = my[p].main
        /\ pc[p] = "tip" /\ pc'[p] = "pin" /\ Scope' = Scope
    BY <1>2 DEF ReadTip, Run
  <2> QED BY <2>1, <2>2 DEF Legacy, WalkHolds, Anchored
<1>3. CASE AlreadyPinned(p)
  BY <1>3 DEF AlreadyPinned, Authorized, Run
<1>4. CASE Pin(p)
  <2> DEFINE m == [marker EXCEPT !.known = TRUE, !.original = my[p].remote]
  <2>1. m.state = "claimed" /\ m.session = my[p].session /\ m.known
    BY <1>4 DEF Pin, CanPin, Authorized, Marker
  <2>2. my' = [my EXCEPT ![p].owner = m] /\ pc[p] = "pin" /\ pc' = [pc EXCEPT ![p] = "pinning"]
    BY <1>4 DEF Pin
  <2> HIDE DEF m
  <2> QED BY <2>1, <2>2 DEF Run
<1>5. CASE PinWrite(p)
  BY <1>5 DEF PinWrite, WriteMarker
<1>6. CASE RecheckHead(p) \/ RecheckMain(p)
  BY <1>6 DEF RecheckHead, RecheckMain
<1>7. CASE Noop(p) \/ Guard(p) \/ GuardRefuses(p)
  BY <1>7 DEF Noop, Guard, GuardRefuses
<1>8. CASE Send(p) \/ SendRefused(p) \/ ReadBack(p) \/ ReadBackAgain(p)
  BY <1>8 DEF Send, SendRefused, ReadBack, ReadBackAgain
<1>9. CASE SkipRecord(p) \/ RecordPush(p) \/ RecordWrite(p) \/ Salvage(p) \/ MainAfter(p)
  BY <1>9 DEF SkipRecord, RecordPush, RecordWrite, WriteMarker, Salvage, MainAfter
<1>10. CASE SalvageWrite(p) \/ Publish(p)
  BY <1>10 DEF SalvageWrite, WriteMarker, Publish, End
<1> QED BY <1>1, <1>2, <1>3, <1>4, <1>5, <1>6, <1>7, <1>8, <1>9, <1>10
        DEF Prepare, Transport, Conclude

\* Every step keeps what runs go by.
LEMMA NextHeld == ASSUME PushInv, HeldInv, [Next]_vars PROVE HeldInv'
<1> USE DEF PushInv, TypeOK, remote, local, Goto
<1>0. ASSUME NEW p \in Proc PROVE Held(p)
  BY DEF HeldInv
<1>1. CASE UNCHANGED vars
  <2>1. ASSUME NEW p \in Proc PROVE Held(p)'
    BY <1>1, HeldKept DEF vars
  <2> QED BY <2>1 DEF HeldInv
<1>2. CASE World
  <2>1. pc' = pc /\ my' = my
    BY <1>2 DEF World, LocalMoves, ForeignPush, ForeignDelete, MainAdvances, Damage
  <2>2. ASSUME NEW p \in Proc PROVE Held(p)'
    BY <2>1, HeldKept
  <2> QED BY <2>2 DEF HeldInv
<1>3. ASSUME NEW p \in Proc, Prepare(p) \/ Transport(p) \/ Conclude(p) PROVE HeldInv'
  <2>1. \A q \in Proc : q # p => pc'[q] = pc[q] /\ my'[q] = my[q]
    BY <1>3 DEF Prepare, ReadMain, ReadTip, AlreadyPinned, Pin, PinWrite, RecheckHead,
       RecheckMain, Transport, Noop, Guard, GuardRefuses, Send, SendRefused, ReadBack,
       ReadBackAgain, Conclude, SkipRecord, RecordPush, RecordWrite, Salvage,
       SalvageWrite, MainAfter, Publish, Reads, WriteMarker, End
  <2> QED BY <1>0, <1>3, <2>1, AdvanceHeld, OthersHeld
<1>4. ASSUME NEW p \in Proc, ClaimWrite(p) \/ Refuse(p) \/ Crash(p) \/ HandOff(p)
      PROVE HeldInv'
  <2>1. /\ pc'[p] \in {"idle", "claim"}
        /\ \A q \in Proc : q # p => pc'[q] = pc[q] /\ my'[q] = my[q]
    BY <1>4 DEF ClaimWrite, Refuse, Crash, End, HandOff, Claim, Goto
  <2> QED BY <2>1, HeldKept, OthersHeld
<1>5. ASSUME NEW p \in Proc, NEW s \in Session, Authorize(p, s) PROVE HeldInv'
  <2>1. \A q \in Proc : q # p => pc'[q] = pc[q] /\ my'[q] = my[q]
    BY <1>5 DEF Authorize
  <2>2. pc'[p] = "main" /\ my'[p].owner = marker /\ my'[p].session = s
    BY <1>5 DEF Authorize, Run
  <2>3. Held(p)'
    BY <1>5, <2>2 DEF Authorize, Held
  <2> QED BY <2>1, <2>3, OthersHeld
<1>6. ASSUME NEW p \in Proc, SendLost(p) PROVE HeldInv'
  <2>1. \A q \in Proc : q # p => pc'[q] = pc[q] /\ my'[q] = my[q]
    BY <1>6 DEF SendLost
  <2>2. Held(p)'
    BY <1>0, <1>6 DEF SendLost, Held
  <2> QED BY <2>1, <2>2, OthersHeld
<1> QED BY <1>1, <1>2, <1>3, <1>4, <1>5, <1>6 DEF Next, Start, Advance

\* A run that nothing has overtaken is stopped by a lasting reason.
LEMMA RefusalReason ==
  ASSUME PushInv, HeldInv, NEW p \in Proc, Blocked(p), ~Overtaken(p), pc[p] # "salvage"
  PROVE  Reason
<1> USE DEF PushInv, TypeOK, HeldInv, Held, Overtaken
<1>1. /\ head = my[p].head /\ main = my[p].main /\ marker = my[p].owner
      /\ head \in Commit /\ head # None
  BY ScopeAssumption DEF Branch
<1>2. CASE pc[p] = "tip"
  <2>1. ~CanBuild(p)
    BY <1>2, <1>1 DEF Blocked
  <2>2. CASE ~TipExpected(marker)
    BY <2>2 DEF TipExpected, ClaimedByOthers, Legacy, Reason, Moved
  <2>3. CASE TipExpected(marker)
    <3>1. ~HistoryHolds(head, main, Original(p), tip)
      BY <1>1, <2>1, <2>3 DEF CanBuild
    <3>2. CASE ~WalkHolds(head, main)
      BY <3>2 DEF Reason, Unfit
    <3>3. CASE ~Anchored(head, {main, Original(p), tip, Scope[head].old})
      BY <1>1, <3>3 DEF Anchored, Original, Reason, BaseStale, LostHistory, Unfit
    <3> QED BY <3>1, <3>2, <3>3 DEF HistoryHolds
  <2> QED BY <2>2, <2>3
<1>3. CASE pc[p] = "pin"
  BY <1>1, <1>3 DEF Blocked, CanPin, Authorized
<1>4. CASE pc[p] \in {"head", "headafter", "remain", "mainafter"}
  BY <1>1, <1>4 DEF Blocked, HeadKept
<1>5. CASE pc[p] = "noop"
  <2>1. tip = head /\ my[p].owner.known /\ my[p].remote = head
    BY <1>1, <1>5 DEF RefMoved
  <2>2. ~HistoryHolds(head, main, marker.original, head)
    BY <1>1, <1>5, <2>1 DEF Blocked, CanNoop
  <2>3. WalkHolds(head, main) /\ Anchored(head, {Scope[head].old})
    BY <1>1, <1>5
  <2>4. main \in Contains[head] /\ head \in Contains[head]
    BY <1>1, <1>5 DEF HistoryInv, Verified
  <2>5. marker.original # None /\ marker.original \notin Contains[head]
    BY <2>2, <2>3, <2>4 DEF HistoryHolds, Anchored
  <2> QED BY <1>1, <2>1, <2>5 DEF Reason, LostHistory
<1>6. CASE pc[p] = "readback"
  BY <1>1, <1>6 DEF Blocked, RefMoved
<1>7. CASE pc[p] = "record"
  BY <1>1, <1>7 DEF Blocked, OwnerKept
<1> QED BY <1>2, <1>3, <1>4, <1>5, <1>6, <1>7 DEF Blocked

\* THEOREM: a push gives up only where something it read has moved, where its
\* transport failed, or for a reason a person must remove: on a quiet world no check
\* of a push contradicts an earlier one.
THEOREM RefusedForReason ==
  Spec => [][\A p \in Proc : Refuse(p) => Reason \/ Overtaken(p) \/ pc[p] = "salvage"]_vars
<1> DEFINE Stopped ==
      \A p \in Proc : Refuse(p) => Reason \/ Overtaken(p) \/ pc[p] = "salvage"
<1>1. PushInv /\ HeldInv /\ [Next]_vars => [Stopped]_vars
  BY RefusalReason DEF Refuse
<1>2. Init => HeldInv
  BY DEF Init, HeldInv, Held
<1>3. PushInv /\ HeldInv /\ [Next]_vars => HeldInv'
  BY NextHeld
<1> QED BY <1>1, <1>2, <1>3, PushInductive, PTL DEF Spec
================================================================================
