----------------------------- MODULE CompleteReads -----------------------------
(***************************************************************************)
(* gitea.pulls.read: the broker reads all pull requests of one state, page *)
(* by page, twice, and answers only when both scans and the server's       *)
(* totals agree, while people open, close, merge and edit pull requests.   *)
(* Gitea offers no snapshot; this module shows what two scans are worth.   *)
(*                                                                         *)
(* Abstractions.  A pull request is its state and a version, all its other *)
(* contents: Gitea changes updated_at whenever the pull request changes.   *)
(* A merged pull request is a closed one.  A page is a set: the code also  *)
(* compares the order of the entries, so it refuses more than this model.  *)
(* Identity, framing, the byte bounds, the 55 s deadline and transport     *)
(* errors end the read at any step (Fail).  A read shares nothing with the *)
(* next one, so a behaviour is one read.                                   *)
(***************************************************************************)
EXTENDS Naturals, FiniteSets

CONSTANTS
  Last,        \* pull requests are numbered 1 .. Last in order of creation
  Limit,       \* PULL_LIMIT, the entries asked for in a page
  MaxPages,    \* PULL_MAX_PAGES, the last of which has to be empty
  MaxCount,    \* PULL_MAX_COUNT
  MaxMoves     \* bound: changes of pull requests during the read

ASSUME ReadAssumption ==
  /\ Last \in Nat /\ Limit \in Nat \ {0} /\ MaxPages \in Nat \ {0}
  /\ MaxCount \in Nat /\ MaxMoves \in Nat
\* 4950 <= 50 * 99: after full pages one is left for the empty page.
ASSUME CountsFit == MaxCount <= Limit * (MaxPages - 1)

Number == 1 .. Last
Filter == {"open", "closed", "all"}
Pull == [state : {"absent", "open", "closed"}, version : 0 .. MaxMoves]

VARIABLES
  pulls,     \* pull requests in Gitea
  cap,       \* the entries the server puts in a page; it may cap them below Limit
  at,        \* "idle", "scan", "done", "refused" (contents) or "failed"
  filter,    \* the state asked for
  scan,      \* the scan under way, 1 or 2
  page,      \* the page asked for next
  total,     \* what the server said on the first page of this scan
  got,       \* this scan: number -> version
  first,     \* the first scan, when it is over
  mark,      \* the pull requests as they were when the first scan ended
  moves      \* changes since the read began

vars == <<pulls, cap, at, filter, scan, page, total, got, first, mark, moves>>

Nothing == [n \in {} |-> 0]    \* a scan that has collected nothing
Unknown == MaxCount + 1        \* no page of this scan has been read

\* Numbers are given in order, so the absent ones are the last.
Init ==
  /\ \E exist \in 0 .. Last :
       pulls \in {p \in [Number -> [state : {"absent", "open", "closed"}, version : {0}]] :
                    \A n \in Number : p[n].state = "absent" <=> n > exist}
  /\ cap \in 1 .. Limit
  /\ at = "idle" /\ filter = "all" /\ scan = 1 /\ page = 1 /\ total = Unknown
  /\ got = Nothing /\ first = Nothing /\ mark = pulls /\ moves = 0

View(p, f) ==
  {n \in Number : p[n].state \in IF f = "all" THEN {"open", "closed"} ELSE {f}}

\* The server's page k, oldest first: its own page size counts, not the one
\* asked for, and a short page is not the last one.
Page(k) ==
  LET view == View(pulls, filter)
      rank(n) == Cardinality({m \in view : m <= n})
  IN {n \in view : rank(n) > (k - 1) * cap /\ rank(n) <= k * cap}

\* X-Total-Count.
Now == Cardinality(View(pulls, filter))

Request(f) ==
  /\ at = "idle"
  /\ at' = "scan" /\ filter' = f
  /\ UNCHANGED <<pulls, cap, scan, page, total, got, first, mark, moves>>

\* Mutant: the last page may not be asked for.
AskedTooFew == at = "scan" /\ page < MaxPages

\* A page is asked for; what it says is judged by the conditions below.
Asked == at = "scan" /\ page <= MaxPages

\* The server's total is bounded and the same on every page of the scan.
TotalAgrees == Now <= MaxCount /\ total \in {Unknown, Now}

\* Entries none of which was seen before, and no more than announced.
Fresh(items) ==
  items \cap DOMAIN got = {} /\ Cardinality(DOMAIN got \cup items) <= Now

ReadPage ==
  /\ Asked /\ TotalAgrees
  /\ Page(page) # {} /\ Fresh(Page(page))
  /\ got' = [n \in DOMAIN got \cup Page(page) |->
               IF n \in Page(page) THEN pulls[n].version ELSE got[n]]
  /\ total' = Now /\ page' = page + 1
  /\ UNCHANGED <<pulls, cap, at, filter, scan, first, mark, moves>>

\* The empty page ends the scan, when everything announced was collected.
ScanEnds == Asked /\ TotalAgrees /\ Page(page) = {} /\ Cardinality(DOMAIN got) = Now

FirstScanEnds ==
  /\ ScanEnds /\ scan = 1
  /\ scan' = 2 /\ page' = 1 /\ total' = Unknown
  /\ first' = got /\ got' = Nothing /\ mark' = pulls
  /\ UNCHANGED <<pulls, cap, at, filter, moves>>

\* Mutant: the second scan only has to be as long as the first.
SameLength == Cardinality(DOMAIN got) = Cardinality(DOMAIN first)

\* Both scans show the same pull requests with the same contents.
Same == got = first

\* Mutant: a collection that moved is scanned once more, and again.
SecondScanRetries ==
  /\ ScanEnds /\ scan \in 2 .. 3
  /\ at' = IF Same THEN "done" ELSE "scan"
  /\ scan' = IF Same THEN scan ELSE scan + 1
  /\ page' = 1 /\ total' = Unknown /\ first' = got /\ got' = Nothing
  /\ UNCHANGED <<pulls, cap, filter, mark, moves>>

SecondScanEnds ==
  /\ ScanEnds /\ scan = 2
  /\ at' = IF Same THEN "done" ELSE "refused"
  /\ UNCHANGED <<pulls, cap, filter, scan, page, total, got, first, mark, moves>>

\* READ_SCAN_BOUND, READ_COLLECTION_MOVED, _DUPLICATE and _INCOMPLETE.
Refuse ==
  /\ at = "scan" /\ ~ScanEnds
  /\ ~(Asked /\ TotalAgrees /\ Page(page) # {} /\ Fresh(Page(page)))
  /\ at' = "refused"
  /\ UNCHANGED <<pulls, cap, filter, scan, page, total, got, first, mark, moves>>

Fail ==
  /\ at = "scan"
  /\ at' = "failed"
  /\ UNCHANGED <<pulls, cap, filter, scan, page, total, got, first, mark, moves>>

\* Somebody opens, edits, closes, reopens or merges a pull request while the
\* read is under way; what was done before it is the initial state.
Change(n) ==
  /\ at = "scan" /\ moves < MaxMoves /\ moves' = moves + 1
  /\ pulls[n].state = "absent" => \A m \in 1 .. n - 1 : pulls[m].state # "absent"
  /\ \E state \in IF pulls[n].state = "absent" THEN {"open"} ELSE {"open", "closed"} :
       pulls' = [pulls EXCEPT ![n] = [state |-> state, version |-> @.version + 1]]
  /\ UNCHANGED <<cap, at, filter, scan, page, total, got, first, mark>>

Next ==
  \/ \E f \in Filter : Request(f)
  \/ ReadPage \/ FirstScanEnds \/ SecondScanEnds \/ Refuse \/ Fail
  \/ \E n \in Number : Change(n)

Spec == Init /\ [][Next]_vars

-----------------------------------------------------------------------------
TypeOK ==
  /\ pulls \in [Number -> Pull] /\ mark \in [Number -> Pull] /\ cap \in 1 .. Limit
  /\ at \in {"idle", "scan", "done", "refused", "failed"} /\ filter \in Filter
  /\ scan \in {1, 2} /\ page \in 1 .. MaxPages + 1 /\ total \in 0 .. Unknown
  /\ \A g \in {got, first} :
       DOMAIN g \subseteq Number /\ g \in [DOMAIN g -> 0 .. MaxMoves]
  /\ moves \in 0 .. MaxMoves

\* An answer is the collection as it was at one moment of the read, the end of
\* the first scan: no pull request of the asked state is left out, none is
\* included that had another state then, and each has its contents of then,
\* however pull requests moved between the pages.
SnapshotRead ==
  at = "done" => /\ DOMAIN got = View(mark, filter)
                 /\ \A n \in DOMAIN got : got[n] = mark[n].version

\* A collection that does not move during the read is refused for its contents
\* only when it has more than MaxCount pull requests, or when the server serves
\* shorter pages than it was asked for and MaxPages - 1 of them do not hold the
\* collection: with full pages the bounds on pages and on pull requests fit
\* together up to the last full page and its empty successor.
RefusedForCause ==
  at = "refused" =>
    \/ moves > 0
    \/ Cardinality(View(pulls, filter)) > MaxCount
    \/ cap < Limit /\ Cardinality(View(pulls, filter)) > cap * (MaxPages - 1)
================================================================================
