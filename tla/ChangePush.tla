------------------------------ MODULE ChangePush ------------------------------
(***************************************************************************)
(* git.push.change of the host access broker (broker.Broker._git) with the *)
(* worktree ownership marker (aisoft_worktree_owner) and the pre-push guard *)
(* (aisoft_main_integration): one change branch, one Mac worktree, its      *)
(* marker file, the remote, and sessions whose broker and claim runs        *)
(* interleave while other hosts, main and the local HEAD move.              *)
(*                                                                          *)
(* The commits, and what verify_history accepts, are those of ChangeHistory.*)
(*                                                                          *)
(* Abstractions.  A dirty tree, a refused credential or a transport error   *)
(* that wrote nothing is a crash: the run ends.                             *)
(***************************************************************************)
EXTENDS ChangeHistory

CONSTANTS
  Trunk,      \* commits main can be at
  Session,
  Proc,       \* broker and claim processes
  Events,     \* what may happen around the runs (see Happen)
  MaxMoves    \* bound on those events

AllEvents == {"commit", "foreign", "delete", "main", "claim", "damage", "crash", "lost"}

ASSUME BranchAssumption == Trunk \subseteq Commit
ASSUME NonePushAssumption == None \notin Commit \cup Session
ASSUME EventsAssumption == Events \subseteq AllEvents /\ MaxMoves \in Nat

VARIABLES
  main,     \* refs/heads/main on the remote
  tip,      \* the change ref on the remote, or None
  head,     \* HEAD of the worktree
  marker,   \* aisoft-worktree-owner.json
  pc, my,   \* where a process stands and what it has read
  receipt,  \* the PUBLISHED or NOOP result of the last run, until the next starts
  seen,     \* history: commits the change ref ever named
  ours,     \* history: commits broker runs wrote to the change ref
  moves     \* events so far

Branch == Commit \ Trunk

remote == <<main, tip, seen, ours>>
local == <<head, marker>>
vars == <<remote, local, pc, my, receipt, moves>>

Tip == Branch \cup {None}
Marker == [state : {"absent", "invalid", "claimed"}, session : Session \cup {None},
           ledger : Tip, known : BOOLEAN, original : Tip]
Labels == {"idle", "claim", "main", "tip", "pin", "pinning", "head", "remain", "noop",
           "guard", "send", "readback", "record", "recording", "salvage", "salvaging",
           "mainafter", "headafter"}
Run == [session : Session \cup {None}, head : Tip, main : Trunk \cup {None}, remote : Tip,
        owner : Marker]
Receipt == [code : {"NONE", "NOOP", "PUBLISHED"}, head : Tip, main : Trunk \cup {None}, previous : Tip]

Unclaimed == [state |-> "absent", session |-> None, ledger |-> None,
              known |-> FALSE, original |-> None]
Fresh(s) == [Unclaimed EXCEPT !.state = "claimed", !.session = s]
Legacy(m) == m.ledger # None /\ ~m.known
Blank == [session |-> None, head |-> None, main |-> None, remote |-> None,
          owner |-> Unclaimed]
NoReceipt == [code |-> "NONE", head |-> None, main |-> None, previous |-> None]

TypeOK ==
  /\ main \in Trunk
  /\ tip \in Tip
  /\ head \in Branch
  /\ marker \in Marker
  /\ pc \in [Proc -> Labels]
  /\ my \in [Proc -> Run]
  /\ receipt \in Receipt
  /\ seen \subseteq Branch
  /\ ours \subseteq seen
  /\ moves \in 0 .. MaxMoves

\* Nobody claimed the worktree, or a session did; or a marker of an older broker
\* carries the last push and no original observation.
Init ==
  /\ main \in Trunk
  /\ tip \in Tip
  /\ head \in Branch
  /\ marker \in {Unclaimed} \cup {Fresh(s) : s \in Session}
                  \cup {[Fresh(s) EXCEPT !.ledger = tip] : s \in Session}
  /\ pc = [p \in Proc |-> "idle"]
  /\ my = [p \in Proc |-> Blank]
  /\ receipt = NoReceipt
  /\ seen = {tip} \ {None}
  /\ ours = {}
  /\ moves = 0

Goto(p, label) == pc' = [pc EXCEPT ![p] = label]

End(p) ==
  /\ pc' = [pc EXCEPT ![p] = "idle"]
  /\ my' = [my EXCEPT ![p] = Blank]

\* A program point that only reads.
Reads(p, at, next) ==
  /\ pc[p] = at
  /\ Goto(p, next)
  /\ UNCHANGED <<remote, local, receipt, moves>>

(***************************************************************************)
(* The ownership marker.  read_marker and write_marker are atomic; what a  *)
(* caller does between the two is not under any lock.                      *)
(***************************************************************************)
Authorized(p) == marker.state = "claimed" /\ marker.session = my[p].session

WriteMarker(p, m) ==
  /\ marker' = m
  /\ UNCHANGED <<remote, head, receipt, moves>>

\* claim(): what to write is decided from one read of the marker.
Claimed(s) ==
  IF marker.state = "claimed" THEN [marker EXCEPT !.session = s] ELSE Fresh(s)

\* A marker of another session, or one that cannot be read, needs takeover.
MayClaim(s, takeover) ==
  \/ marker.state = "absent"
  \/ marker.state = "claimed" /\ marker.session = s
  \/ takeover

Claim(p, s, takeover) ==
  /\ pc[p] = "idle"
  /\ MayClaim(s, takeover)
  /\ Claimed(s) # marker
  /\ my' = [my EXCEPT ![p].session = s, ![p].owner = Claimed(s)]
  /\ Goto(p, "claim")
  /\ UNCHANGED <<remote, local, receipt>>

ClaimWrite(p) ==
  /\ pc[p] = "claim"
  /\ WriteMarker(p, my[p].owner)
  /\ End(p)

(***************************************************************************)
(* A push: authorize, read main and the ref, verify, pin R0.               *)
(***************************************************************************)
Authorize(p, s) ==
  /\ pc[p] = "idle"
  /\ marker.state = "claimed" /\ marker.session = s
  /\ my' = [my EXCEPT ![p].session = s, ![p].head = head, ![p].owner = marker]
  /\ Goto(p, "main")
  /\ receipt' = NoReceipt
  /\ UNCHANGED <<remote, local, moves>>

\* Mutant: the change ref is read where main was meant.
ReadMainFromTip(p) ==
  /\ Reads(p, "main", "tip")
  /\ my' = [my EXCEPT ![p].main = tip]

ReadMain(p) ==
  /\ Reads(p, "main", "tip")
  /\ my' = [my EXCEPT ![p].main = main]

\* REMOTE_BRANCH_MOVED and ORIGINAL_REMOTE_UNKNOWN before anything is sent.
ClaimedByOthers(m) == m.known /\ m.original = None /\ m.ledger = None /\ tip # None
TipExpected(m) ==
  /\ m.ledger # None => tip = m.ledger
  /\ m.known /\ m.original # None => tip # None
  /\ ~ClaimedByOthers(m)
  /\ ~Legacy(m)

Original(p) == IF my[p].owner.known THEN my[p].owner.original ELSE tip

CanBuild(p) == /\ TipExpected(my[p].owner)
               /\ HistoryHolds(my[p].head, my[p].main, Original(p), tip)

ReadTip(p) ==
  /\ Reads(p, "tip", "pin")
  /\ CanBuild(p)
  /\ my' = [my EXCEPT ![p].remote = tip]

\* pin_original_remote: authorized again; the first observation stays.
CanPin(p) == Authorized(p) /\ ~Legacy(marker)

AlreadyPinned(p) ==
  /\ Reads(p, "pin", "head")
  /\ Authorized(p)
  /\ marker.known
  /\ my' = [my EXCEPT ![p].owner = marker]

Pin(p) ==
  /\ Reads(p, "pin", "pinning")
  /\ CanPin(p)
  /\ ~marker.known
  /\ my' = [my EXCEPT ![p].owner =
                        [marker EXCEPT !.known = TRUE, !.original = my[p].remote]]

PinWrite(p) ==
  /\ pc[p] = "pinning"
  /\ WriteMarker(p, my[p].owner)
  /\ Goto(p, "head")
  /\ UNCHANGED my

HeadKept(p) == head = my[p].head

RecheckHead(p) ==
  /\ Reads(p, "head", "remain")
  /\ HeadKept(p)
  /\ UNCHANGED my

\* main must not have advanced; an up-to-date ref takes the no-op branch.
RecheckMain(p) ==
  /\ Reads(p, "remain", IF my[p].remote = my[p].head THEN "noop" ELSE "guard")
  /\ main = my[p].main
  /\ UNCHANGED my

(***************************************************************************)
(* Transport.                                                              *)
(***************************************************************************)
\* Mutant: an up-to-date ref counts as a no-op only if the ledger already says so.
CanNoopRecorded(p) ==
  /\ tip = my[p].head
  /\ my[p].owner.ledger = my[p].head
  /\ HistoryHolds(my[p].head, my[p].main, my[p].owner.original, my[p].head)

CanNoop(p) ==
  /\ tip = my[p].head
  /\ HistoryHolds(my[p].head, my[p].main, my[p].owner.original, my[p].head)

Noop(p) ==
  /\ Reads(p, "noop", "record")
  /\ CanNoop(p)
  /\ UNCHANGED my

\* The pre-push hook compares the ref the server advertises and the local HEAD.
GuardPasses(p) == tip = my[p].remote /\ HeadKept(p)

Guard(p) ==
  /\ Reads(p, "guard", "send")
  /\ GuardPasses(p)
  /\ UNCHANGED my

\* The hook refuses; the ref is read once more before the run gives up.
GuardRefuses(p) ==
  /\ Reads(p, "guard", "salvage")
  /\ ~GuardPasses(p)
  /\ UNCHANGED my

\* Mutant: a forced update, whatever the ref is by now.
WrittenForced(p) ==
  /\ tip' = my[p].head
  /\ seen' = seen \cup {my[p].head}
  /\ ours' = ours \cup {my[p].head}

\* The server updates the ref only from the old value it advertised.
Written(p) ==
  /\ tip = my[p].remote
  /\ tip' = my[p].head
  /\ seen' = seen \cup {my[p].head}
  /\ ours' = ours \cup {my[p].head}

Send(p) ==
  /\ pc[p] = "send"
  /\ Written(p)
  /\ Goto(p, "readback")
  /\ UNCHANGED <<main, local, my, receipt, moves>>

\* The server refuses the update: the ref has moved since.
SendRefused(p) ==
  /\ Reads(p, "send", "salvage")
  /\ tip # my[p].remote
  /\ UNCHANGED my

ReadBack(p) ==
  /\ Reads(p, "readback", "record")
  /\ tip = my[p].head
  /\ UNCHANGED my

\* No ref was read back: it is read once more.
ReadBackAgain(p) ==
  /\ Reads(p, "readback", "salvage")
  /\ tip = None
  /\ UNCHANGED my

(***************************************************************************)
(* record_push: compare the marker with the owner of this run, then write. *)
(***************************************************************************)
OwnerKept(p) == marker = my[p].owner

Recorded(p) == [my[p].owner EXCEPT !.ledger = my[p].head]

\* Nothing to record: the ledger already names this head.
SkipRecord(p) ==
  /\ Reads(p, "record", "mainafter")
  /\ my[p].owner.ledger = my[p].head
  /\ UNCHANGED my

RecordPush(p) ==
  /\ Reads(p, "record", "recording")
  /\ my[p].owner.ledger # my[p].head
  /\ OwnerKept(p)
  /\ UNCHANGED my

RecordWrite(p) ==
  /\ pc[p] = "recording"
  /\ WriteMarker(p, Recorded(p))
  /\ Goto(p, "mainafter")
  /\ UNCHANGED my

\* Mutant: a failed transport is recorded without reading the ref.
SalvageBlind(p) ==
  /\ Reads(p, "salvage", "salvaging")
  /\ OwnerKept(p)
  /\ UNCHANGED my

\* The transport failed but the head is on the remote: record it, then fail.
Salvage(p) ==
  /\ Reads(p, "salvage", "salvaging")
  /\ tip = my[p].head
  /\ OwnerKept(p)
  /\ UNCHANGED my

SalvageWrite(p) ==
  /\ pc[p] = "salvaging"
  /\ WriteMarker(p, Recorded(p))
  /\ End(p)

\* main is read again (BASE_ADVANCED_AFTER_PUSH), then HEAD (HEAD_MOVED).
MainAfter(p) ==
  /\ Reads(p, "mainafter", "headafter")
  /\ main = my[p].main
  /\ UNCHANGED my

Result(p) ==
  [code |-> IF my[p].remote = my[p].head THEN "NOOP" ELSE "PUBLISHED",
   head |-> my[p].head, main |-> my[p].main, previous |-> my[p].remote]

Publish(p) ==
  /\ pc[p] = "headafter"
  /\ HeadKept(p)
  /\ receipt' = Result(p)
  /\ End(p)
  /\ UNCHANGED <<remote, local, moves>>

(***************************************************************************)
(* A run whose next check fails ends with a code and changes nothing.      *)
(***************************************************************************)
Blocked(p) ==
  \/ pc[p] = "tip" /\ ~CanBuild(p)
  \/ pc[p] = "pin" /\ ~(marker.known /\ Authorized(p)) /\ ~CanPin(p)
  \/ pc[p] \in {"head", "headafter"} /\ ~HeadKept(p)
  \/ pc[p] \in {"remain", "mainafter"} /\ main # my[p].main
  \/ pc[p] = "noop" /\ ~CanNoop(p)
  \/ pc[p] = "readback" /\ tip \notin {None, my[p].head}
  \/ pc[p] = "record" /\ my[p].owner.ledger # my[p].head /\ ~OwnerKept(p)
  \/ pc[p] = "salvage" /\ ~(tip = my[p].head /\ OwnerKept(p))

Refuse(p) ==
  /\ Blocked(p)
  /\ End(p)
  /\ UNCHANGED <<remote, local, receipt, moves>>

Prepare(p) ==
  \/ ReadMain(p) \/ ReadTip(p) \/ AlreadyPinned(p) \/ Pin(p) \/ PinWrite(p)
  \/ RecheckHead(p) \/ RecheckMain(p)

Transport(p) ==
  \/ Noop(p) \/ Guard(p) \/ GuardRefuses(p) \/ Send(p) \/ SendRefused(p)
  \/ ReadBack(p) \/ ReadBackAgain(p)

Conclude(p) ==
  \/ SkipRecord(p) \/ RecordPush(p) \/ RecordWrite(p) \/ Salvage(p) \/ SalvageWrite(p)
  \/ MainAfter(p) \/ Publish(p)

Advance(p) == ClaimWrite(p) \/ Prepare(p) \/ Transport(p) \/ Conclude(p) \/ Refuse(p)

(***************************************************************************)
(* What happens around the runs.                                           *)
(***************************************************************************)
Happen(event) ==
  /\ event \in Events
  /\ moves < MaxMoves
  /\ moves' = moves + 1

\* The session commits, merges or rewinds in its worktree.
LocalMoves ==
  /\ Happen("commit")
  /\ head' \in Branch
  /\ UNCHANGED <<remote, marker, pc, my, receipt>>

\* Another host fast-forwards or creates the same ref.
ForeignPush ==
  /\ Happen("foreign")
  /\ \E c \in Branch :
       /\ tip # None => tip \in Contains[c]
       /\ tip' = c
       /\ seen' = seen \cup {c}
  /\ UNCHANGED <<main, ours, local, pc, my, receipt>>

ForeignDelete ==
  /\ Happen("delete")
  /\ tip' = None
  /\ UNCHANGED <<main, seen, ours, local, pc, my, receipt>>

MainAdvances ==
  /\ Happen("main")
  /\ main' \in {c \in Trunk : main \in Contains[c]}
  /\ UNCHANGED <<tip, seen, ours, local, pc, my, receipt>>

Damage ==
  /\ Happen("damage")
  /\ marker' = [Unclaimed EXCEPT !.state = "invalid"]
  /\ UNCHANGED <<remote, head, pc, my, receipt>>

Crash(p) ==
  /\ pc[p] # "idle"
  /\ Happen("crash")
  /\ End(p)
  /\ UNCHANGED <<remote, local, receipt>>

\* The ref was updated but the transport reported a failure.
SendLost(p) ==
  /\ pc[p] = "send"
  /\ Happen("lost")
  /\ Written(p)
  /\ Goto(p, "salvage")
  /\ UNCHANGED <<main, local, my, receipt>>

HandOff(p) ==
  /\ Happen("claim")
  /\ \E s \in Session, takeover \in BOOLEAN : Claim(p, s, takeover)

World == LocalMoves \/ ForeignPush \/ ForeignDelete \/ MainAdvances \/ Damage

Start(p) == \E s \in Session : Authorize(p, s)

Next ==
  \/ World
  \/ \E p \in Proc : Start(p) \/ Advance(p) \/ HandOff(p) \/ Crash(p) \/ SendLost(p)

Spec == Init /\ [][Next]_vars

\* A running process goes on, and the owning session pushes again and again.
Fairness == /\ \A p \in Proc : WF_vars(Advance(p))
            /\ WF_vars(\E p \in Proc : Start(p))

FairSpec == Spec /\ Fairness

-----------------------------------------------------------------------------
(***************************************************************************)
(* Properties.                                                             *)
(***************************************************************************)
\* Whatever other hosts do between a run's reads, its guard and its transport, a
\* broker write only fast-forwards the ref: no commit of another host is lost.
\* (Steps of runs change pc; steps of the world do not.)
OnlyFastForwards ==
  [][tip' # tip /\ pc' # pc => tip = None \/ tip \in Contains[tip']]_vars

\* record_push: a head in the ledger is read as "the remote has this"; through
\* failed transports, crashes and hand-offs it names a commit the ref has held.
LedgerWasRemote == marker.ledger # None => marker.ledger \in seen

\* A PUBLISHED or NOOP result is about a head that was on the remote and contains
\* the main and the tip the run started from; whoever wrote the commits that main
\* lacks, this session or another host, each is in scope or a clean integration.
ReceiptTrue ==
  receipt.code # "NONE" =>
    /\ receipt.head \in seen
    /\ Vetted(receipt.head, receipt.main)
    /\ receipt.main \in Contains[receipt.head]
    /\ receipt.previous # None => receipt.previous \in Contains[receipt.head]

\* Only a candidate whose every commit is accounted for is ever sent.
OnlyVerifiedSent == \A c \in ours : \E base \in Trunk : Vetted(c, base)

-----------------------------------------------------------------------------
(* Where pushing can come to rest.                                         *)
Published ==
  marker.ledger = head /\ tip = head /\ main \in Contains[head]

\* Refusals that repeat until a person acts, by the code the run ends with.
Unowned == marker.state # "claimed"
BaseStale == main \notin Contains[head]
Unfit == ~WalkHolds(head, main) \/ ~Anchored(head, {Scope[head].old})
LostHistory ==
  \/ tip # None /\ tip \notin Contains[head]
  \/ marker.known /\ marker.original # None /\ marker.original \notin Contains[head]
Moved ==
  \/ marker.ledger # None /\ tip # marker.ledger
  \/ marker.ledger # None /\ ~marker.known
  \/ marker.known /\ marker.original # None /\ tip = None
  \/ marker.known /\ marker.original = None /\ marker.ledger = None /\ tip # None

Reason == Unowned \/ BaseStale \/ Unfit \/ LostHistory \/ Moved

\* When events are over and the owner keeps pushing, the branch is published and
\* recorded, or every further push is refused for one of the reasons above.
PushSettles == <>[](Published \/ Reason)

===============================================================================
