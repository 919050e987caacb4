-------------------------- MODULE CompleteReads_proofs --------------------------
(***************************************************************************)
(* SnapshotRead for every size of pages and collections: what the first    *)
(* scan collected may be old when that scan ends, what the second collects *)
(* is not older than that moment, so where the two agree nothing changed   *)
(* in between; and a count excludes that something was left out.           *)
(***************************************************************************)
EXTENDS CompleteReads, FiniteSetTheorems, WellFoundedInduction, TLAPS

\* No pull request has had more changes than there were changes.
VersionsBounded == \A n \in Number : pulls[n].version <= moves

\* A read that has not begun has collected nothing.
NotBegun == at = "idle" => scan = 1 /\ got = Nothing /\ page = 1 /\ total = Unknown

\* What a scan collected before p is not newer than p, and where it is not
\* older the pull request is in the state asked for.
NotNewer(g, p) ==
  \A n \in DOMAIN g :
    g[n] <= p[n].version /\ (g[n] = p[n].version => n \in View(p, filter))

\* A moment that lies in the past.
Past == \A n \in Number : mark[n].version <= pulls[n].version

\* The first scan was complete by its count; the second is younger.
Second ==
  /\ NotNewer(first, mark)
  /\ Cardinality(DOMAIN first) = Cardinality(View(mark, filter))
  /\ \A n \in DOMAIN got : mark[n].version <= got[n]

Judged == at = "done" => scan = 2 /\ got = first

IInv ==
  /\ TypeOK /\ VersionsBounded /\ NotBegun /\ Past
  /\ scan = 1 => NotNewer(got, pulls)
  /\ scan = 2 => Second
  /\ Judged

-----------------------------------------------------------------------------
\* The collection of one state is finite, and its size a number.
LEMMA ViewFinite ==
  ASSUME NEW p, NEW f
  PROVE  IsFiniteSet(View(p, f)) /\ Cardinality(View(p, f)) \in Nat
         /\ View(p, f) \subseteq Number
<1>1. IsFiniteSet(Number) BY ReadAssumption, FS_Interval DEF Number
<1>2. View(p, f) \subseteq Number BY DEF View
<1> QED BY <1>1, <1>2, FS_Subset, FS_CardinalityType

\* The pages hold pull requests of the state asked for only.
LEMMA PageInView == ASSUME NEW k PROVE Page(k) \subseteq View(pulls, filter)
BY DEF Page

LEMMA InitIInv == Init => IInv
<1> SUFFICES ASSUME Init PROVE IInv OBVIOUS
<1> USE ReadAssumption
<1>1. PICK exist \in 0 .. Last :
        pulls \in {p \in [Number -> [state : {"absent", "open", "closed"}, version : {0}]] :
                     \A n \in Number : p[n].state = "absent" <=> n > exist}
  BY DEF Init
<1>2. pulls \in [Number -> [state : {"absent", "open", "closed"}, version : {0}]]
  BY <1>1
<1>3. \A n \in Number : pulls[n] \in Pull /\ pulls[n].version = 0
  BY <1>2 DEF Pull
<1>4. pulls \in [Number -> Pull] BY <1>2, <1>3
<1>5. at = "idle" /\ filter = "all" /\ scan = 1 /\ page = 1 /\ total = Unknown
      /\ got = Nothing /\ first = Nothing /\ mark = pulls /\ moves = 0
      /\ cap \in 1 .. Limit
  BY DEF Init
<1>6. DOMAIN Nothing = {} BY DEF Nothing
<1>7. Nothing \in [DOMAIN Nothing -> 0 .. MaxMoves] BY <1>6 DEF Nothing
<1>8. TypeOK BY <1>4, <1>5, <1>6, <1>7 DEF TypeOK, Filter, Unknown
<1>9. VersionsBounded /\ Past /\ NotNewer(got, pulls)
  BY <1>3, <1>5, <1>6 DEF VersionsBounded, Past, NotNewer
<1> QED BY <1>5, <1>8, <1>9 DEF IInv, NotBegun, Judged

LEMMA NextIInv == IInv /\ [Next]_vars => IInv'
<1> SUFFICES ASSUME IInv, [Next]_vars PROVE IInv' OBVIOUS
<1> USE ReadAssumption
<1>0. TypeOK /\ VersionsBounded /\ NotBegun /\ Past /\ Judged
      /\ (scan = 1 => NotNewer(got, pulls)) /\ (scan = 2 => Second)
  BY DEF IInv
<1>1. ASSUME NEW f \in Filter, Request(f) PROVE IInv'
  <2>1. scan = 1 /\ got = Nothing /\ page = 1 /\ total = Unknown
    BY <1>0, <1>1 DEF NotBegun, Request
  <2>2. TypeOK' BY <1>0, <1>1 DEF TypeOK, Request
  <2>3. NotNewer(got, pulls)' BY <1>1, <2>1 DEF NotNewer, Nothing, Request
  <2> QED BY <1>0, <1>1, <2>1, <2>2, <2>3
         DEF IInv, Request, VersionsBounded, NotBegun, Past, Judged
<1>2. CASE ReadPage
  <2> DEFINE items == Page(page)
  <2>1. items \subseteq View(pulls, filter) /\ items \subseteq Number
    BY PageInView, ViewFinite
  <2>2. \A n \in Number : pulls[n].version \in 0 .. MaxMoves
    BY <1>0 DEF TypeOK, Pull
  <2>3. /\ DOMAIN got' = DOMAIN got \cup items
        /\ \A n \in items : got'[n] = pulls[n].version
        /\ \A n \in DOMAIN got \ items : got'[n] = got[n]
        /\ got' = [n \in DOMAIN got' |-> got'[n]]
    BY <1>2 DEF ReadPage
  <2>4. DOMAIN got' \subseteq Number /\ got' \in [DOMAIN got' -> 0 .. MaxMoves]
    <3>1. DOMAIN got \subseteq Number /\ \A n \in DOMAIN got : got[n] \in 0 .. MaxMoves
      BY <1>0 DEF TypeOK
    <3>2. \A n \in DOMAIN got' : got'[n] \in 0 .. MaxMoves
      BY <3>1, <2>1, <2>2, <2>3
    <3> QED BY <3>1, <3>2, <2>1, <2>3
  <2>5. total' \in 0 .. Unknown /\ page' \in 1 .. MaxPages + 1
    <3>1. Now \in Nat /\ Now <= MaxCount
      BY <1>2, ViewFinite DEF ReadPage, TotalAgrees, Now
    <3>2. page \in Nat /\ 1 <= page /\ page <= MaxPages
      BY <1>0, <1>2 DEF TypeOK, ReadPage, Asked
    <3> QED BY <1>2, <3>1, <3>2 DEF ReadPage, Unknown
  <2>6. UNCHANGED <<pulls, cap, at, filter, scan, first, mark, moves>> /\ at = "scan"
    BY <1>2 DEF ReadPage, Asked
  <2>7. TypeOK' BY <1>0, <2>4, <2>5, <2>6 DEF TypeOK
  <2>8. scan = 1 => NotNewer(got, pulls)'
    BY <1>0, <2>1, <2>2, <2>3, <2>6 DEF NotNewer, View
  <2>9. scan = 2 => Second'
    BY <1>0, <2>1, <2>3, <2>6 DEF Second, NotNewer, View, Past
  <2> QED BY <1>0, <2>6, <2>7, <2>8, <2>9
         DEF IInv, VersionsBounded, NotBegun, Past, Judged
<1>3. CASE FirstScanEnds
  <2>1. /\ scan = 1 /\ scan' = 2 /\ page' = 1 /\ total' = Unknown /\ first' = got
        /\ got' = Nothing /\ mark' = pulls /\ at = "scan"
        /\ UNCHANGED <<pulls, cap, at, filter, moves>>
        /\ Cardinality(DOMAIN got) = Cardinality(View(pulls, filter))
    BY <1>3 DEF FirstScanEnds, ScanEnds, Asked, Now
  <2>2. DOMAIN Nothing = {} /\ Nothing \in [DOMAIN Nothing -> 0 .. MaxMoves]
    BY DEF Nothing
  <2>3. TypeOK' BY <1>0, <2>1, <2>2 DEF TypeOK, Unknown
  <2>4. \A n \in Number : pulls[n].version \in Nat BY <1>0 DEF TypeOK, Pull
  <2>5. Past' BY <2>1, <2>4 DEF Past
  <2>6. Second'
    BY <1>0, <2>1, <2>2 DEF Second, NotNewer, View
  <2> QED BY <1>0, <2>1, <2>3, <2>5, <2>6 DEF IInv, VersionsBounded, NotBegun, Judged
<1>4. CASE SecondScanEnds
  <2>1. /\ scan = 2 /\ at = "scan" /\ at' \in {"done", "refused"}
        /\ at' = "done" => got = first
        /\ UNCHANGED <<pulls, cap, filter, scan, page, total, got, first, mark, moves>>
    BY <1>4 DEF SecondScanEnds, ScanEnds, Asked, Same
  <2>2. TypeOK' BY <1>0, <2>1 DEF TypeOK
  <2>3. Second' BY <1>0, <2>1 DEF Second, NotNewer, View
  <2> QED BY <1>0, <2>1, <2>2, <2>3
         DEF IInv, VersionsBounded, NotBegun, Past, Judged
<1>5. CASE Refuse \/ Fail
  <2>1. /\ at = "scan" /\ at' \in {"refused", "failed"}
        /\ UNCHANGED <<pulls, cap, filter, scan, page, total, got, first, mark, moves>>
    BY <1>5 DEF Refuse, Fail
  <2>2. TypeOK' BY <1>0, <2>1 DEF TypeOK
  <2> QED BY <1>0, <2>1, <2>2
         DEF IInv, VersionsBounded, NotBegun, Past, Judged, Second, NotNewer, View
<1>6. ASSUME NEW n \in Number, Change(n) PROVE IInv'
  <2>1. PICK state \in {"open", "closed"} :
          pulls' = [pulls EXCEPT ![n] = [state |-> state, version |-> @.version + 1]]
    BY <1>6 DEF Change
  <2>2. /\ at = "scan" /\ moves < MaxMoves /\ moves' = moves + 1
        /\ UNCHANGED <<cap, at, filter, scan, page, total, got, first, mark>>
    BY <1>6 DEF Change
  <2>3. pulls \in [Number -> Pull] /\ moves \in 0 .. MaxMoves
    BY <1>0 DEF TypeOK
  <2>4. \A m \in Number : pulls[m].version \in Nat /\ pulls[m].version <= moves
    BY <1>0, <2>3 DEF VersionsBounded, Pull
  <2>5. /\ pulls'[n].version = pulls[n].version + 1
        /\ \A m \in Number \ {n} : pulls'[m] = pulls[m]
    BY <2>1, <2>3
  <2>6. pulls' \in [Number -> Pull]
    <3>1. [state |-> state, version |-> pulls[n].version + 1] \in Pull
      BY <2>2, <2>3, <2>4 DEF Pull
    <3> QED BY <2>1, <2>3, <3>1
  <2>7. TypeOK' BY <1>0, <2>2, <2>3, <2>6 DEF TypeOK
  <2>8. VersionsBounded' /\ Past'
    <3>1. \A m \in Number : mark[m].version \in Nat /\ mark[m].version <= pulls[m].version
      BY <1>0 DEF TypeOK, Pull, Past
    <3> QED BY <2>2, <2>3, <2>4, <2>5, <3>1 DEF VersionsBounded, Past
  <2>9. scan = 1 => NotNewer(got, pulls)'
    <3> SUFFICES ASSUME scan = 1, NEW m \in DOMAIN got
                 PROVE  /\ got[m] <= pulls'[m].version
                        /\ got[m] = pulls'[m].version => m \in View(pulls', filter)
      BY <2>2 DEF NotNewer
    <3>1. /\ m \in Number /\ got[m] \in Nat /\ got[m] <= pulls[m].version
          /\ got[m] = pulls[m].version => m \in View(pulls, filter)
      BY <1>0 DEF NotNewer, TypeOK
    <3> QED BY <3>1, <2>4, <2>5 DEF View
  <2>10. scan = 2 => Second' BY <1>0, <2>2 DEF Second, NotNewer, View
  <2> QED BY <1>0, <2>2, <2>7, <2>8, <2>9, <2>10 DEF IInv, NotBegun, Judged
<1>7. CASE UNCHANGED vars
  BY <1>0, <1>7 DEF vars, IInv, TypeOK, VersionsBounded, NotBegun, Past, NotNewer,
                    Second, Judged, View
<1> QED BY <1>1, <1>2, <1>3, <1>4, <1>5, <1>6, <1>7 DEF Next

LEMMA IInvSnapshot == IInv => SnapshotRead
<1> SUFFICES ASSUME IInv, at = "done"
             PROVE  /\ DOMAIN got = View(mark, filter)
                    /\ \A n \in DOMAIN got : got[n] = mark[n].version
  BY DEF SnapshotRead
<1>1. scan = 2 /\ got = first /\ Second /\ TypeOK BY DEF IInv, Judged
<1>2. \A n \in DOMAIN got : n \in Number /\ got[n] \in Nat /\ mark[n].version \in Nat
  BY <1>1 DEF TypeOK, Pull
<1>3. \A n \in DOMAIN got : got[n] = mark[n].version /\ n \in View(mark, filter)
  BY <1>1, <1>2 DEF Second, NotNewer
<1>4. DOMAIN got \subseteq View(mark, filter)
      /\ Cardinality(DOMAIN got) = Cardinality(View(mark, filter))
  BY <1>1, <1>3 DEF Second
<1>5. DOMAIN got = View(mark, filter) BY <1>4, ViewFinite, FS_Subset
<1> QED BY <1>3, <1>5

\* Every variable keeps its type, the counters of the reader their bounds.
THEOREM Typing == Spec => []TypeOK
<1>1. IInv => TypeOK BY DEF IInv
<1> QED BY <1>1, InitIInv, NextIInv, PTL DEF Spec

\* An answer of gitea.pulls.read is the collection of one moment of the read,
\* for every number of pull requests, page size, bound and number of changes.
THEOREM Snapshot == Spec => []SnapshotRead
BY InitIInv, NextIInv, IInvSnapshot, PTL DEF Spec

-----------------------------------------------------------------------------
(***************************************************************************)
(* A collection that stands still is not refused.  The pages partition it  *)
(* by rank, so before page k exactly the entries up to rank (k-1)*cap      *)
(* have been collected, and an empty page means that there are no more.    *)
(***************************************************************************)
UpTo(n) == {m \in View(pulls, filter) : m <= n}
Rank(n) == Cardinality(UpTo(n))
Taken(k) == {n \in View(pulls, filter) : Rank(n) <= (k - 1) * cap}

\* It does not move, and neither bound is below it.
Still ==
  /\ moves = 0 /\ Now <= MaxCount
  /\ cap < Limit => Now <= cap * (MaxPages - 1)

\* What a scan of a still collection has collected, and what the first one had.
Collected ==
  /\ DOMAIN got = Taken(page)
  /\ \A n \in DOMAIN got : got[n] = pulls[n].version
  /\ total \in {Unknown, Now} /\ page <= MaxPages
Complete ==
  /\ DOMAIN first = View(pulls, filter)
  /\ \A n \in DOMAIN first : first[n] = pulls[n].version

Calm ==
  Still /\ at # "idle" =>
    /\ at # "refused"
    /\ at = "scan" => Collected
    /\ scan = 2 => Complete

\* A set of natural numbers that is not empty has a least element.
LEMMA Least ==
  ASSUME NEW S, S \subseteq Nat, S # {}
  PROVE  \E x \in S : \A y \in S : x <= y
<1> DEFINE R == {ss \in Nat \X Nat : ss[1] < ss[2]}
<1>1. IsWellFoundedOn(R, Nat) BY NatLessThanWellFounded DEF OpToRel
<1>2. PICK x \in S : \A y \in S : ~(<<y, x>> \in R)
  <2> HIDE DEF R
  <2> QED BY <1>1, WFMin
<1>3. ASSUME NEW y \in S, y < x PROVE FALSE
  <2>1. <<y, x>> \in R BY <1>3
  <2> QED BY <1>2, <2>1
<1> QED BY <1>3

\* Ranks are numbers from 1 to the size of the collection.
LEMMA RankBounds ==
  /\ Now \in Nat
  /\ \A n \in View(pulls, filter) : Rank(n) \in 1 .. Now
<1>1. Now \in Nat /\ IsFiniteSet(View(pulls, filter)) BY ViewFinite DEF Now
<1>2. ASSUME NEW n \in View(pulls, filter) PROVE Rank(n) \in 1 .. Now
  <2>1. UpTo(n) \in SUBSET View(pulls, filter) BY DEF UpTo
  <2>2. IsFiniteSet(UpTo(n)) /\ Rank(n) <= Now
    BY <1>1, <2>1, FS_Subset DEF Rank, Now
  <2>3. n \in UpTo(n) BY ViewFinite, ReadAssumption DEF UpTo, Number
  <2>4. Rank(n) \in Nat /\ Rank(n) # 0
    BY <2>2, <2>3, FS_CardinalityType, FS_EmptySet DEF Rank
  <2> QED BY <1>1, <2>2, <2>4
<1> QED BY <1>1, <1>2

\* Below an entry that is not the first there is one of the rank before.
LEMMA RankBefore ==
  ASSUME NEW n \in View(pulls, filter), Rank(n) # 1
  PROVE  \E m \in View(pulls, filter) : Rank(m) = Rank(n) - 1
<1> DEFINE T == {m \in View(pulls, filter) : m < n}
           D == {Last - m : m \in T}
<1>0. \A m \in View(pulls, filter) : m \in Nat /\ m <= Last
  BY ViewFinite, ReadAssumption DEF Number
<1>1. UpTo(n) = T \cup {n} /\ n \notin T
  BY <1>0 DEF UpTo
<1>2. T # {}
  <2> SUFFICES ASSUME T = {} PROVE FALSE OBVIOUS
  <2>1. UpTo(n) = {n} BY <1>1
  <2> QED BY <2>1, FS_Singleton DEF Rank
<1>3. PICK d \in D : \A e \in D : d <= e
  <2>1. D \subseteq Nat BY <1>0, ReadAssumption
  <2>2. D # {} BY <1>2
  <2> HIDE DEF D
  <2> QED BY <2>1, <2>2, Least
<1>4. PICK m \in T : d = Last - m OBVIOUS
<1>5. ASSUME NEW k \in T PROVE k <= m
  <2>1. Last - m <= Last - k BY <1>3, <1>4
  <2> QED BY <1>0, <2>1, ReadAssumption
<1>6. UpTo(m) = T
  <2>1. ASSUME NEW k \in UpTo(m) PROVE k \in T BY <1>0, <1>4 DEF UpTo
  <2>2. ASSUME NEW k \in T PROVE k \in UpTo(m) BY <1>5 DEF UpTo
  <2> QED BY <2>1, <2>2
<1>7. IsFiniteSet(T)
  BY ViewFinite, FS_Subset
<1>8. Rank(n) = Cardinality(T) + 1
  <2> HIDE DEF T
  <2> QED BY <1>1, <1>7, FS_AddElement DEF Rank
<1>9. Cardinality(T) \in Nat BY <1>7, FS_CardinalityType
<1>10. Rank(m) = Rank(n) - 1
  <2> HIDE DEF T
  <2> QED BY <1>6, <1>8, <1>9 DEF Rank
<1> QED BY <1>4, <1>10

\* After an empty page there is nothing.
LEMMA EmptyIsLast ==
  ASSUME NEW b \in Nat, NEW c \in Nat, b < c,
         \A n \in View(pulls, filter) : ~(Rank(n) > b /\ Rank(n) <= c)
  PROVE  \A n \in View(pulls, filter) : Rank(n) <= b
<1> DEFINE B == {r \in Nat : r > b /\ \E n \in View(pulls, filter) : Rank(n) = r}
<1> SUFFICES ASSUME B # {} PROVE FALSE
  BY RankBounds
<1>1. PICK r \in B : \A q \in B : r <= q
  <2>1. B \subseteq Nat OBVIOUS
  <2> HIDE DEF B
  <2> QED BY <2>1, Least
<1>2. PICK n \in View(pulls, filter) : Rank(n) = r BY <1>1
<1>3. r \in Nat /\ r > c BY <1>1, <1>2
<1>4. PICK m \in View(pulls, filter) : Rank(m) = r - 1
  BY <1>2, <1>3, RankBefore
<1>5. r - 1 \in B BY <1>3, <1>4
<1> QED BY <1>1, <1>3, <1>5

\* Page bounds are numbers, and grow with the page; from the last page on they
\* are beyond a collection that stands still.
LEMMA Bounds ==
  ASSUME NEW k \in Nat \ {0}, cap \in 1 .. Limit
  PROVE  /\ (k - 1) * cap \in Nat /\ k * cap \in Nat
         /\ (k - 1) * cap < k * cap
         /\ Still /\ k >= MaxPages => (k - 1) * cap >= Now
<1>0. cap \in Nat \ {0} BY ReadAssumption
<1>1. (k - 1) * cap \in Nat /\ k * cap = (k - 1) * cap + cap
  BY <1>0
<1>2. ASSUME Still, k >= MaxPages PROVE (k - 1) * cap >= Now
  <2> DEFINE e == k - MaxPages
  <2>1. e \in Nat /\ k = MaxPages + e BY <1>2, ReadAssumption
  <2>2. (k - 1) * cap = cap * (MaxPages - 1) + e * cap
    BY <1>0, <2>1, ReadAssumption
  <2>3. e * cap \in Nat BY <1>0, <2>1
  <2>4. cap * (MaxPages - 1) \in Int BY <1>0, ReadAssumption
  <2>5. Now \in Nat BY RankBounds
  <2>6. Now <= cap * (MaxPages - 1)
    <3>1. CASE cap < Limit BY <1>2, <3>1 DEF Still
    <3>2. CASE cap = Limit
      BY <1>2, <2>4, <2>5, <3>2, CountsFit, ReadAssumption DEF Still
    <3> QED BY <1>0, <3>1, <3>2, ReadAssumption
  <2> HIDE DEF e
  <2> QED BY <2>2, <2>3, <2>4, <2>5, <2>6
<1> QED BY <1>0, <1>1, <1>2

\* Page k holds what is taken before page k + 1 and was not taken before page k.
LEMMA PageTaken ==
  ASSUME NEW k \in Nat \ {0}, cap \in 1 .. Limit
  PROVE  /\ Page(k) \cap Taken(k) = {}
         /\ Taken(k + 1) = Taken(k) \cup Page(k)
         /\ Page(k) # {} => (k - 1) * cap < Now
         /\ Page(k) = {} => Taken(k) = View(pulls, filter)
<1>1. Page(k) = {n \in View(pulls, filter) : Rank(n) > (k - 1) * cap /\ Rank(n) <= k * cap}
  BY DEF Page, Rank, UpTo
<1>2. \A n \in View(pulls, filter) : Rank(n) \in Nat /\ Rank(n) <= Now
  BY RankBounds
<1>3. /\ (k - 1) * cap \in Nat /\ k * cap \in Nat
      /\ (k - 1) * cap < k * cap
  BY Bounds
<1> DEFINE b == (k - 1) * cap
           c == k * cap
<1>4. Taken(k) = {n \in View(pulls, filter) : Rank(n) <= b}
      /\ Taken(k + 1) = {n \in View(pulls, filter) : Rank(n) <= c}
  <2>1. (k + 1) - 1 = k OBVIOUS
  <2> QED BY <2>1 DEF Taken
<1>5. Page(k) = {n \in View(pulls, filter) : Rank(n) > b /\ Rank(n) <= c}
  BY <1>1
<1>6. b \in Nat /\ c \in Nat /\ b < c BY <1>3
<1> HIDE DEF b, c
<1>7. Page(k) = {} => Taken(k) = View(pulls, filter)
  <2> SUFFICES ASSUME Page(k) = {} PROVE Taken(k) = View(pulls, filter) OBVIOUS
  <2>1. \A n \in View(pulls, filter) : ~(Rank(n) > b /\ Rank(n) <= c)
    BY <1>5
  <2>2. \A n \in View(pulls, filter) : Rank(n) <= b
    BY <1>6, <2>1, EmptyIsLast
  <2> QED BY <1>4, <2>2
<1>8. Page(k) # {} => b < Now
  BY <1>2, <1>5, <1>6, RankBounds
<1>9. Page(k) \cap Taken(k) = {}
  BY <1>2, <1>4, <1>5, <1>6
<1>10. Taken(k + 1) = Taken(k) \cup Page(k)
  BY <1>2, <1>4, <1>5, <1>6
<1> QED BY <1>7, <1>8, <1>9, <1>10 DEF b

\* Nothing is taken before the first page.
LEMMA TakenFirst == cap \in 1 .. Limit => Taken(1) = {}
<1> SUFFICES ASSUME cap \in 1 .. Limit PROVE Taken(1) = {} OBVIOUS
<1>1. \A n \in View(pulls, filter) : Rank(n) \in Nat /\ Rank(n) >= 1 BY RankBounds
<1>2. (1 - 1) * cap = 0 BY ReadAssumption
<1> QED BY <1>1, <1>2 DEF Taken

\* A reader of a collection that stands still is nowhere near a refusal.
LEMMA InitCalm == Init => Calm
BY DEF Init, Calm

LEMMA NextCalm == IInv /\ Calm /\ [Next]_vars => Calm'
<1> SUFFICES ASSUME IInv, Calm, [Next]_vars, Still', at' # "idle"
             PROVE  /\ at' # "refused"
                    /\ at' = "scan" => Collected'
                    /\ scan' = 2 => Complete'
  BY DEF Calm
<1> USE ReadAssumption
<1>0. TypeOK /\ NotBegun /\ cap \in 1 .. Limit BY DEF IInv, TypeOK
<1>1. ASSUME NEW f \in Filter, Request(f) PROVE Calm'
  <2>1. /\ at = "idle" /\ at' = "scan"
        /\ scan' = 1 /\ got' = Nothing /\ page' = 1 /\ total' = Unknown
    BY <1>0, <1>1 DEF NotBegun, Request
  <2>2. Taken(page)' = {}
    <3>0. cap' = cap BY <1>1 DEF Request
    <3>1. (cap \in 1 .. Limit => Taken(1) = {})' BY TakenFirst, PTL
    <3>2. Taken(page)' = Taken(1)' BY <2>1 DEF Taken, Rank, UpTo
    <3> QED BY <1>0, <3>0, <3>1, <3>2
  <2>3. Collected' BY <2>1, <2>2 DEF Collected, Nothing
  <2> QED BY <2>1, <2>3 DEF Calm
<1>2. CASE at = "scan" /\ UNCHANGED <<pulls, cap, filter, moves>>
  <2>0. Still /\ Collected /\ (scan = 2 => Complete)
    BY <1>2 DEF Calm, Still, Now, View
  <2>1. page \in Nat \ {0} /\ page <= MaxPages BY <1>0, <2>0 DEF TypeOK, Collected
  <2>2. /\ Page(page) \cap Taken(page) = {}
        /\ Taken(page + 1) = Taken(page) \cup Page(page)
        /\ Page(page) # {} => (page - 1) * cap < Now
        /\ Page(page) = {} => Taken(page) = View(pulls, filter)
    BY <1>0, <2>1, PageTaken
  <2>3. Asked /\ TotalAgrees
    BY <1>2, <2>0 DEF Asked, TotalAgrees, Still, Collected
  <2>4. Page(page) # {} => Fresh(Page(page))
    <3>1. DOMAIN got \cup Page(page) \in SUBSET View(pulls, filter)
      BY <2>0, PageInView DEF Collected, Taken
    <3>2. Cardinality(DOMAIN got \cup Page(page)) <= Now
      BY <3>1, ViewFinite, FS_Subset DEF Now
    <3> QED BY <2>0, <2>2, <3>2 DEF Fresh, Collected
  <2>5. Page(page) = {} => ScanEnds
    BY <2>0, <2>2, <2>3 DEF ScanEnds, Collected, Now
  <2>6. ~Refuse BY <2>3, <2>4, <2>5 DEF Refuse
  <2>7. CASE ReadPage
    <3>1. /\ DOMAIN got' = DOMAIN got \cup Page(page)
          /\ \A n \in DOMAIN got' : got'[n] = IF n \in Page(page) THEN pulls[n].version ELSE got[n]
          /\ total' = Now /\ page' = page + 1
          /\ UNCHANGED <<pulls, cap, at, filter, scan, first, mark, moves>>
          /\ Page(page) # {}
      BY <2>7 DEF ReadPage
    <3>2. page + 1 <= MaxPages
      <4> SUFFICES ASSUME page >= MaxPages PROVE FALSE BY <2>1
      <4>1. (page - 1) * cap >= Now BY <1>0, <2>0, <2>1, Bounds
      <4>2. (page - 1) * cap < Now BY <2>2, <3>1
      <4>3. (page - 1) * cap \in Nat /\ Now \in Nat BY <1>0, <2>1, Bounds, RankBounds
      <4> QED BY <4>1, <4>2, <4>3
    <3>3. Taken(page)' = Taken(page + 1)
      BY <3>1 DEF Taken, Rank, UpTo, View
    <3>4. Now' = Now BY <3>1 DEF Now, View
    <3>5. Collected'
      BY <2>0, <2>2, <3>1, <3>2, <3>3, <3>4 DEF Collected
    <3>6. scan' = 2 => Complete' BY <2>0, <3>1 DEF Complete, View
    <3> QED BY <1>2, <3>1, <3>5, <3>6
  <2>8. CASE FirstScanEnds
    <3>1. /\ Cardinality(DOMAIN got) = Now
          /\ scan' = 2 /\ page' = 1 /\ total' = Unknown
          /\ first' = got /\ got' = Nothing /\ UNCHANGED <<pulls, cap, at, filter, moves>>
          /\ Page(page) = {}
      BY <2>8 DEF FirstScanEnds, ScanEnds
    <3>2. Complete' BY <2>0, <2>2, <3>1 DEF Complete, Collected, View
    <3>3. Taken(page)' = {}
      <4>1. Taken(page)' = Taken(1) BY <3>1 DEF Taken, Rank, UpTo, View
      <4> QED BY <1>0, <4>1, TakenFirst
    <3>4. Collected' BY <3>1, <3>3 DEF Collected, Nothing
    <3> QED BY <1>2, <3>1, <3>2, <3>4
  <2>9. CASE SecondScanEnds
    <3>1. DOMAIN got = View(pulls, filter) /\ \A n \in DOMAIN got : got[n] = pulls[n].version
      BY <2>0, <2>2, <2>9 DEF SecondScanEnds, ScanEnds, Collected
    <3>2. DOMAIN first = View(pulls, filter) /\ \A n \in DOMAIN first : first[n] = pulls[n].version
      BY <2>0, <2>9 DEF SecondScanEnds, Complete
    <3>3. got = [n \in DOMAIN got |-> got[n]] /\ first = [n \in DOMAIN first |-> first[n]]
      BY <1>0 DEF TypeOK
    <3>4. got = first BY <3>1, <3>2, <3>3
    <3>5. at' = "done" /\ UNCHANGED <<pulls, cap, filter, scan, first>>
      BY <2>9, <3>4 DEF SecondScanEnds, Same
    <3>6. scan' = 2 => Complete' BY <2>0, <3>5 DEF Complete, View
    <3> QED BY <3>5, <3>6
  <2>10. CASE Fail
    <3>1. at' = "failed" /\ UNCHANGED <<pulls, cap, filter, scan, first>> BY <2>10 DEF Fail
    <3> QED BY <2>0, <3>1 DEF Complete, View
  <2>11. CASE UNCHANGED vars
    <3>1. at' = at /\ scan' = scan BY <2>11 DEF vars
    <3>2. Collected' /\ (scan = 2 => Complete')
      BY <2>0, <2>11 DEF vars, Collected, Complete, Taken, Rank, UpTo, View, Now
    <3> QED BY <1>2, <3>1, <3>2
  <2>12. ASSUME NEW n \in Number, Change(n) PROVE FALSE
    BY <1>0, <1>2, <2>12 DEF Change, TypeOK
  <2>13. ASSUME NEW f \in Filter, Request(f) PROVE FALSE
    BY <1>2, <2>13 DEF Request
  <2> QED BY <2>6, <2>7, <2>8, <2>9, <2>10, <2>11, <2>12, <2>13 DEF Next
<1>3. ASSUME NEW n \in Number, Change(n) PROVE FALSE
  BY <1>0, <1>3 DEF Change, TypeOK, Still
<1>4. CASE UNCHANGED vars /\ at # "scan"
  <2>1. Still /\ at # "idle" /\ at' = at /\ scan' = scan
    BY <1>4 DEF vars, Still, Now, View
  <2>2. at # "refused" /\ (scan = 2 => Complete) BY <2>1 DEF Calm
  <2>3. scan = 2 => Complete' BY <1>4, <2>2 DEF vars, Complete, View
  <2> QED BY <1>4, <2>1, <2>2, <2>3
<1>5. Next => \/ at = "scan" /\ UNCHANGED <<pulls, cap, filter, moves>>
              \/ \E f \in Filter : Request(f)
              \/ \E n \in Number : Change(n)
  BY DEF Next, ReadPage, FirstScanEnds, SecondScanEnds, Refuse, Fail, ScanEnds, Asked
<1>6. CASE UNCHANGED vars /\ at = "scan" BY <1>2, <1>6 DEF vars
<1> QED BY <1>1, <1>2, <1>3, <1>4, <1>5, <1>6 DEF Calm

LEMMA CalmRefused == IInv /\ Calm => RefusedForCause
<1> SUFFICES ASSUME IInv, Calm, at = "refused", ~(moves > 0), Now <= MaxCount,
                    ~(cap < Limit /\ Now > cap * (MaxPages - 1))
             PROVE  FALSE
  BY RankBounds, ReadAssumption DEF RefusedForCause, Now
<1>1. moves = 0 /\ cap \in Nat BY ReadAssumption DEF IInv, TypeOK
<1>2. cap < Limit => Now <= cap * (MaxPages - 1)
  BY <1>1, RankBounds, ReadAssumption
<1> QED BY <1>1, <1>2 DEF Calm, Still

\* gitea.pulls.read refuses a collection that stands still only when it is over
\* the bound on pull requests, or when short pages of the server do not hold it
\* within the bound on pages, for every page size, bound and number of pull
\* requests.
THEOREM RefusalHasCause == Spec => []RefusedForCause
<1>1. Init => IInv /\ Calm BY InitIInv, InitCalm
<1>2. (IInv /\ Calm) /\ [Next]_vars => (IInv /\ Calm)' BY NextIInv, NextCalm
<1> QED BY <1>1, <1>2, CalmRefused, PTL DEF Spec
================================================================================
