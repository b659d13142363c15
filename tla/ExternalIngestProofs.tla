------------------------- MODULE ExternalIngestProofs -------------------------
(***************************************************************************)
(* Proofs about ExternalIngest, for any runs, uploads, pages and limits.   *)
(***************************************************************************)
EXTENDS ExternalIngest, WellFoundedInduction, TLAPS

-----------------------------------------------------------------------------
(* Least and greatest numbers.                                             *)

LEMMA LeastNumber ==
  ASSUME NEW T \in SUBSET Nat, T # {}
  PROVE  \E x \in T : \A y \in T : x <= y
<1> DEFINE R == OpToRel(<, Nat)
<1>1. IsWellFoundedOn(R, Nat)
  BY NatLessThanWellFounded
<1>2. \A x, y \in Nat : x < y => <<x, y>> \in R
  BY DEF OpToRel
<1> HIDE DEF R
<1>3. PICK x \in T : \A y \in T : ~(<<y, x>> \in R)
  BY <1>1, WFMin
<1>4. ASSUME NEW y \in T
      PROVE  x <= y
  <2>1. x \in Nat /\ y \in Nat /\ ~(y < x)
    BY <1>2, <1>3
  <2>2. QED
    BY <2>1
<1>5. QED
  BY <1>4

LEMMA GreatestNumber ==
  ASSUME NEW n \in Nat, NEW T \in SUBSET (0..n), T # {}
  PROVE  \E x \in T : \A y \in T : y <= x
<1> DEFINE D == {n - y : y \in T}
<1>1. D \in SUBSET Nat /\ D # {}
  <2>1. \A y \in T : n - y \in Nat
    OBVIOUS
  <2>2. QED
    BY <2>1
<1>2. PICK d \in D : \A e \in D : d <= e
  BY <1>1, LeastNumber
<1>3. PICK x \in T : d = n - x
  OBVIOUS
<1>4. ASSUME NEW y \in T
      PROVE  y <= x
  <2>1. n - x <= n - y
    BY <1>2, <1>3
  <2>2. QED
    BY <2>1
<1>5. QED
  BY <1>4

-----------------------------------------------------------------------------
(* The inductive invariant.                                                *)

\* The times of upload are nondecreasing.
InOrder == \A r, s \in 1..count : r <= s => at[r] <= at[s]

\* The raids uploaded at or after a time.
Wanted(after) == {r \in 1..count : at[r] >= after}

\* A watermark skips nothing, and will not: it holds raids that are there, and
\* no later upload can lie behind it, unless somebody asked for that.
MarkFits(m) ==
  m.exists =>
    /\ m.ids \subseteq 1..count
    /\ m.after <= waived \/ \E r \in 1..count : at[r] >= m.after
    /\ \A r \in Covered(m) : r \in published \/ at[r] < waived

\* Pages that shift while they are turned leave no gap below what was seen
\* (newest first), and pages that do not shift leave none at all.
Listing(x) ==
  /\ order = "newest" =>
       \A r \in Wanted(x.after), s \in x.seen :
         r <= s /\ count - r < x.page * PageSize => r \in x.seen
  /\ order = "oldest" =>
       /\ \A r \in Wanted(x.after) : r - First(x.after) < x.page * PageSize => r \in x.seen
       /\ x.page = 0 \/ \E r \in Wanted(x.after) : r - First(x.after) >= x.page * PageSize

\* A whole listing: only uploads later than all it saw are missing, and what
\* was not selected is known from the watermark.
Chosen(x) ==
  /\ \A r \in Wanted(x.after), s \in x.seen : r <= s => r \in x.seen
  /\ \A r \in x.seen :
       r \in x.new \/ (x.prior.exists /\ at[r] = x.prior.after /\ r \in x.prior.ids)

RunFits(x) ==
  /\ x.seen \subseteq Wanted(x.after)
  /\ MarkFits(x.prior)
  /\ x.pc # "idle" => IF x.explicit THEN x.after <= waived
                                    ELSE x.prior.exists /\ x.after = x.prior.after
  /\ x.pc = "list" => Listing(x)
  /\ x.pc \in {"fetch", "advance"} => Chosen(x)
  /\ x.pc = "advance" => x.new \subseteq published

RunsFit == \A p \in Runners : RunFits(run[p])

IInv == TypeOK /\ InOrder /\ MarkFits(mark) /\ RunsFit

-----------------------------------------------------------------------------
(* Listings.                                                               *)

\* Bounds and what they bound are numbers.
LEMMA BoundsAreNumbers ==
  /\ MaxUploads \in Nat /\ MaxTime \in Nat /\ MaxBroken \in Nat /\ MaxExplicit \in Nat
  /\ PageSize \in Nat /\ PageSize > 0
BY IngestAssumption

LEMMA Numbers ==
  ASSUME TypeOK
  PROVE  /\ count \in Nat /\ waived \in Nat
         /\ \A r \in 1..count : r \in Raids /\ at[r] \in Nat
         /\ \A r \in Raids : at[r] \in Nat
         /\ \A m \in MarkType : m.after \in Nat
         /\ \A p \in Runners : run[p].after \in Nat /\ run[p].page \in Nat
BY BoundsAreNumbers DEF TypeOK, Raids, TimesOrNone, MarkType, RunType

\* The raids uploaded at or after a time follow one another.
LEMMA FirstWorks ==
  ASSUME TypeOK, InOrder, NEW after \in Nat
  PROVE  /\ First(after) \in 1..(count + 1)
         /\ \A r \in 1..count : at[r] >= after <=> r >= First(after)
<1>1. count \in Nat /\ \A r \in 1..count : at[r] \in Nat
  BY Numbers
<1> DEFINE T == Wanted(after) \cup {count + 1}
<1>2. T \in SUBSET Nat /\ T # {}
  <2>1. \A y \in Wanted(after) : y \in Nat
    BY <1>1 DEF Wanted
  <2>2. QED
    BY <1>1, <2>1
<1>3. PICK f \in T : \A y \in T : f <= y
  <2> HIDE DEF T
  <2>1. QED
    BY <1>2, LeastNumber
<1>4. f \in 1..(count + 1)
  BY <1>1 DEF Wanted
<1>5. ASSUME NEW r \in 1..count
      PROVE  at[r] >= after <=> r >= f
  <2>1. at[r] >= after => r >= f
    BY <1>1, <1>3, <1>4 DEF Wanted
  <2>2. ASSUME r >= f
        PROVE  at[r] >= after
    <3>1. f \in Wanted(after)
      BY <1>1, <1>3, <1>4, <2>2
    <3>2. at[f] >= after /\ at[f] <= at[r] /\ f \in 1..count
      BY <3>1, <2>2 DEF Wanted, InOrder
    <3>3. QED
      BY <1>1, <3>2
  <2>3. QED
    BY <2>1, <2>2
<1>6. \E g \in 1..(count + 1) : \A r \in 1..count : at[r] >= after <=> r >= g
  BY <1>4, <1>5
<1>7. QED
  BY <1>6 DEF First

\* The same in the next state.
LEMMA FirstWorksNext ==
  (\A after \in Nat : TypeOK /\ InOrder =>
     /\ First(after) \in 1..(count + 1)
     /\ \A r \in 1..count : at[r] >= after <=> r >= First(after))'
<1>1. \A after \in Nat : TypeOK /\ InOrder =>
        /\ First(after) \in 1..(count + 1)
        /\ \A r \in 1..count : at[r] >= after <=> r >= First(after)
  BY FirstWorks
<1>2. QED
  BY <1>1, PTL

LEMMA WantedIsInterval ==
  ASSUME TypeOK, InOrder, NEW after \in Nat
  PROVE  \A r : r \in First(after)..count <=> r \in Wanted(after)
BY FirstWorks, Numbers DEF Wanted

\* The latest time of what a run has seen.
LEMMA LatestWorks ==
  ASSUME TypeOK, NEW p \in Runners, run[p].seen # {}
  PROVE  /\ \E s \in run[p].seen : at[s] = Latest(p)
         /\ \A s \in run[p].seen : at[s] <= Latest(p)
<1> DEFINE T == {at[r] : r \in run[p].seen}
<1>1. T \in SUBSET (0..MaxTime) /\ T # {} /\ MaxTime \in Nat
  BY BoundsAreNumbers DEF TypeOK, RunType, TimesOrNone
<1>2. \E t \in T : \A u \in T : u <= t
  BY <1>1, GreatestNumber
<1>3. \E t \in T : \A r \in run[p].seen : at[r] <= t
  BY <1>2
<1>4. Latest(p) = CHOOSE t \in T : \A r \in run[p].seen : at[r] <= t
  BY DEF Latest
<1>5. Latest(p) \in T /\ \A r \in run[p].seen : at[r] <= Latest(p)
  BY <1>3, <1>4
<1>6. QED
  BY <1>5

-----------------------------------------------------------------------------
(* What a step of one process does to the others.                          *)

\* The server stays as it is; what is published or waived stays so.
Elsewhere ==
  UNCHANGED server /\ published \subseteq published' /\ waived' >= waived

LEMMA MarkStays ==
  ASSUME IInv, NEW m \in MarkType, MarkFits(m), Elsewhere, waived' \in Nat
  PROVE  MarkFits(m)'
<1>1. m.after \in Nat /\ waived \in Nat /\ \A r \in 1..count : at[r] \in Nat
  BY Numbers DEF IInv
<1>2. CASE m.exists
  <2>1. /\ m.ids \subseteq 1..count'
        /\ m.after <= waived' \/ \E r \in 1..count' : at'[r] >= m.after
    BY <1>1, <1>2 DEF MarkFits, Elsewhere, server
  <2>2. ASSUME NEW r \in Covered(m)'
        PROVE  r \in published' \/ at'[r] < waived'
    <3>1. r \in Covered(m) /\ r \in 1..count /\ at'[r] = at[r]
      BY <2>2 DEF Covered, Elsewhere, server
    <3>2. r \in published \/ at[r] < waived
      BY <1>2, <3>1 DEF MarkFits
    <3>3. QED
      BY <1>1, <3>1, <3>2 DEF Elsewhere
  <2>3. QED
    BY <2>1, <2>2 DEF MarkFits
<1>3. QED
  BY <1>2 DEF MarkFits

LEMMA RunStays ==
  ASSUME IInv, NEW x \in RunType, RunFits(x), Elsewhere, waived' \in Nat
  PROVE  RunFits(x)'
<1>1. x.prior \in MarkType /\ x.after \in Nat /\ waived \in Nat
  BY Numbers, BoundsAreNumbers DEF RunType, TimesOrNone, IInv
<1>2. MarkFits(x.prior)'
  BY <1>1, MarkStays DEF RunFits
<1>3. Wanted(x.after)' = Wanted(x.after) /\ First(x.after)' = First(x.after)
  BY DEF Elsewhere, server, Wanted, First
<1>4. Listing(x) => Listing(x)'
  BY <1>3 DEF Elsewhere, server, Listing
<1>5. Chosen(x) => Chosen(x)'
  BY <1>3 DEF Elsewhere, server, Chosen, RunFits, Wanted
<1>6. x.after <= waived => x.after <= waived'
  BY <1>1 DEF Elsewhere
<1>7. QED
  BY <1>2, <1>3, <1>4, <1>5, <1>6 DEF RunFits, Elsewhere

-----------------------------------------------------------------------------
(* Uploads.                                                                *)

\* What an upload adds comes after everything that was there.
LEMMA UploadResult ==
  ASSUME IInv, NEW t \in Times, Upload(t)
  PROVE  /\ TypeOK' /\ InOrder'
         /\ count' = count + 1 /\ at'[count + 1] = t
         /\ \A r \in 1..count : at'[r] = at[r] /\ at[r] <= t
<1>1. /\ count \in Nat /\ count + 1 \in Raids /\ t \in TimesOrNone /\ t \in Nat
      /\ \A r \in 1..count : r \in Raids /\ at[r] \in Nat
  BY Numbers, BoundsAreNumbers DEF IInv, TypeOK, Upload, Raids, Times, TimesOrNone
<1>2. /\ count' = count + 1 /\ at' = [at EXCEPT ![count + 1] = t]
      /\ UNCHANGED <<order, objects, published, mark, run, waived, budget>>
  BY DEF Upload
<1>3. at' \in [Raids -> TimesOrNone] /\ at'[count + 1] = t /\ count' \in 0..MaxUploads
  BY <1>1, <1>2, BoundsAreNumbers DEF IInv, TypeOK, Raids
<1>4. TypeOK'
  BY <1>2, <1>3 DEF IInv, TypeOK
<1>5. \A r \in 1..count : at'[r] = at[r]
  BY <1>1, <1>2 DEF IInv, TypeOK
<1>6. \A r \in 1..count : at[r] <= t
  <2>1. ASSUME NEW r \in 1..count
        PROVE  at[r] <= t
    <3>1. count # 0 /\ r <= count /\ count \in 1..count
      BY <1>1
    <3>2. at[r] <= at[count] /\ t >= at[count]
      BY <3>1 DEF IInv, InOrder, Upload, Now
    <3>3. QED
      BY <1>1, <3>1, <3>2
  <2>2. QED
    BY <2>1
<1>7. InOrder'
  <2> SUFFICES ASSUME NEW r \in 1..(count + 1), NEW s \in 1..(count + 1), r <= s
               PROVE  at'[r] <= at'[s]
    BY <1>2 DEF InOrder
  <2>1. CASE s \in 1..count
    BY <1>1, <1>5, <2>1 DEF IInv, InOrder
  <2>2. CASE s = count + 1
    BY <1>1, <1>3, <1>5, <1>6, <2>2
  <2>3. QED
    BY <1>1, <2>1, <2>2
<1>8. QED
  BY <1>2, <1>3, <1>4, <1>5, <1>6, <1>7

\* An upload stays ahead of every watermark that nobody put ahead of it.
LEMMA MarkStaysAtUpload ==
  ASSUME IInv, NEW m \in MarkType, MarkFits(m), NEW t \in Times, Upload(t)
  PROVE  MarkFits(m)'
<1>1. /\ m.after \in Nat /\ waived \in Nat /\ t \in Nat /\ count \in Nat
      /\ \A r \in 1..count : at[r] \in Nat
  BY Numbers DEF IInv, Times
<1>2. UNCHANGED <<published, waived>>
  BY DEF Upload
<1>3. /\ count' = count + 1 /\ at'[count + 1] = t
      /\ \A r \in 1..count : at'[r] = at[r] /\ at[r] <= t
  BY UploadResult
<1>4. CASE m.exists
  <2>1. /\ m.ids \subseteq 1..count'
        /\ m.after <= waived' \/ \E r \in 1..count' : at'[r] >= m.after
    BY <1>1, <1>2, <1>3, <1>4 DEF MarkFits
  <2>2. ASSUME NEW r \in Covered(m)'
        PROVE  r \in published' \/ at'[r] < waived'
    <3>1. r \in 1..(count + 1) /\ (at'[r] < m.after \/ (at'[r] = m.after /\ r \in m.ids))
      BY <1>3 DEF Covered
    <3>2. CASE r \in 1..count
      <4>1. r \in Covered(m)
        BY <1>3, <1>4, <3>1, <3>2 DEF Covered
      <4>2. QED
        BY <1>2, <1>3, <1>4, <3>2, <4>1 DEF MarkFits
    <3>3. CASE r = count + 1
      <4>1. r \notin m.ids
        BY <1>1, <1>4, <3>3 DEF MarkFits
      <4>2. t < m.after
        BY <1>3, <3>1, <3>3, <4>1
      <4>3. ~ \E s \in 1..count : at[s] >= m.after
        BY <1>1, <1>3, <4>2
      <4>4. m.after <= waived
        BY <1>4, <4>3 DEF MarkFits
      <4>5. QED
        BY <1>1, <1>2, <1>3, <3>3, <4>2, <4>4
    <3>4. QED
      BY <1>1, <3>1, <3>2, <3>3
  <2>3. QED
    BY <2>1, <2>2 DEF MarkFits
<1>5. QED
  BY <1>4 DEF MarkFits

\* An upload is later than everything that a listing has seen.
LEMMA RunStaysAtUpload ==
  ASSUME IInv, NEW x \in RunType, RunFits(x), NEW t \in Times, Upload(t)
  PROVE  RunFits(x)'
<1> DEFINE n == x.page * PageSize
<1>1. /\ x.prior \in MarkType /\ x.after \in Nat /\ x.page \in Nat /\ n \in Nat
      /\ t \in Nat /\ count \in Nat /\ \A r \in 1..count : at[r] \in Nat
  BY Numbers, BoundsAreNumbers DEF RunType, TimesOrNone, IInv, Times
<1>2. UNCHANGED <<order, published, waived>>
  BY DEF Upload
<1>3. /\ TypeOK' /\ InOrder'
      /\ count' = count + 1 /\ at'[count + 1] = t
      /\ \A r \in 1..count : at'[r] = at[r]
  BY UploadResult
<1>4. MarkFits(x.prior)'
  BY <1>1, MarkStaysAtUpload DEF RunFits
<1>5. \A r : r \in Wanted(x.after)' <=>
             r \in Wanted(x.after) \/ (r = count + 1 /\ t >= x.after)
  BY <1>1, <1>3 DEF Wanted
<1>6. \A s \in x.seen : s \in Wanted(x.after) /\ s \in 1..count
  BY DEF RunFits, Wanted
<1>7. ASSUME NEW r \in Wanted(x.after)', NEW s \in x.seen, r <= s
      PROVE  r \in Wanted(x.after)
  BY <1>1, <1>5, <1>6, <1>7
<1>8. Chosen(x) => Chosen(x)'
  BY <1>3, <1>6, <1>7 DEF Chosen
<1>9. ASSUME Listing(x), order = "newest"
      PROVE  Listing(x)'
  <2>1. ASSUME NEW r \in Wanted(x.after)', NEW s \in x.seen, r <= s, count' - r < n
        PROVE  r \in x.seen
    <3>1. r \in Wanted(x.after) /\ r \in 1..count
      BY <1>7, <2>1 DEF Wanted
    <3>2. count - r < n
      BY <1>1, <1>3, <2>1, <3>1
    <3>3. QED
      BY <1>9, <2>1, <3>1, <3>2 DEF Listing
  <2>2. QED
    BY <1>2, <1>9, <2>1 DEF Listing
<1>10. ASSUME Listing(x), order = "oldest", x.page = 0
       PROVE  Listing(x)'
  <2>1. n = 0
    BY <1>10, BoundsAreNumbers
  <2>2. \A r \in Wanted(x.after)' : ~(r - First(x.after)' < n)
    <3>1. /\ First(x.after)' \in 1..(count' + 1)
          /\ \A r \in 1..count' : at'[r] >= x.after <=> r >= First(x.after)'
      BY <1>1, <1>3, FirstWorksNext
    <3>2. QED
      BY <1>1, <1>3, <2>1, <3>1 DEF Wanted
  <2>3. QED
    BY <1>2, <1>10, <2>2 DEF Listing
<1>11. ASSUME Listing(x), order = "oldest", x.page # 0
       PROVE  Listing(x)'
  <2>1. PICK w \in Wanted(x.after) : w - First(x.after) >= n
    BY <1>11 DEF Listing
  <2>2. w \in 1..count /\ w \in Wanted(x.after)'
    BY <1>5, <2>1 DEF Wanted
  <2>3. /\ First(x.after) \in 1..(count + 1)
        /\ \A r \in 1..count : at[r] >= x.after <=> r >= First(x.after)
    BY <1>1, FirstWorks DEF IInv
  <2>4. /\ First(x.after)' \in 1..(count + 2)
        /\ \A r \in 1..(count + 1) : at'[r] >= x.after <=> r >= First(x.after)'
    BY <1>1, <1>3, FirstWorksNext
  <2>5. First(x.after)' = First(x.after)
    <3>1. First(x.after) \in 1..count /\ First(x.after) <= w
      BY <1>1, <2>1, <2>2, <2>3 DEF Wanted
    <3>2. First(x.after) >= First(x.after)'
      BY <1>1, <1>3, <2>3, <2>4, <3>1
    <3>3. First(x.after)' \in 1..count
      BY <1>1, <2>4, <3>1, <3>2
    <3>4. First(x.after)' >= First(x.after)
      BY <1>1, <1>3, <2>3, <2>4, <3>3
    <3>5. QED
      BY <3>1, <3>2, <3>3, <3>4
  <2>6. ASSUME NEW r \in Wanted(x.after)', r - First(x.after) < n
        PROVE  r \in x.seen
    <3>1. r # count + 1
      BY <1>1, <2>1, <2>2, <2>3, <2>6
    <3>2. r \in Wanted(x.after)
      BY <1>5, <3>1
    <3>3. QED
      BY <1>11, <2>6, <3>2 DEF Listing
  <2>7. QED
    BY <1>2, <1>11, <2>1, <2>2, <2>5, <2>6 DEF Listing
<1>12. Listing(x) => Listing(x)'
  BY <1>2, <1>9, <1>10, <1>11 DEF Listing
<1>13. x.seen \subseteq Wanted(x.after)'
  BY <1>5, <1>6
<1>14. QED
  BY <1>2, <1>4, <1>8, <1>12, <1>13 DEF RunFits

-----------------------------------------------------------------------------
(* A page of a listing.                                                    *)

\* What a page holds, and what lies beyond it.
LEMMA PageResult ==
  ASSUME IInv, NEW after \in Nat, NEW k \in Nat
  PROVE  /\ PageOf(after, k + 1) =
              {r \in Wanted(after) : Rank(r, after) >= k * PageSize
                                      /\ Rank(r, after) < (k + 1) * PageSize}
         /\ HasMore(after, k + 1) <=>
              \E r \in Wanted(after) : Rank(r, after) >= (k + 1) * PageSize
         /\ (k + 1) * PageSize = k * PageSize + PageSize
<1>1. \A r : r \in First(after)..count <=> r \in Wanted(after)
  BY WantedIsInterval DEF IInv
<1>2. (k + 1) - 1 = k /\ (k + 1) * PageSize = k * PageSize + PageSize
  BY BoundsAreNumbers
<1>3. QED
  BY <1>1, <1>2 DEF PageOf, HasMore

\* The run with the next page has its type, and only its listing differs.
LEMMA ListedResult ==
  ASSUME TypeOK, InOrder, NEW p \in Runners
  PROVE  /\ Listed(p) \in RunType
         /\ Listed(p).pc = run[p].pc /\ Listed(p).explicit = run[p].explicit
         /\ Listed(p).after = run[p].after /\ Listed(p).prior = run[p].prior
         /\ Listed(p).page = run[p].page + 1
         /\ Listed(p).seen = run[p].seen \cup PageOf(run[p].after, run[p].page + 1)
<1> DEFINE P == PageOf(run[p].after, run[p].page + 1)
           x == run[p]
<1>1. x \in RunType
  BY DEF TypeOK
<1>2. P \subseteq Raids
  <2>1. \A r : r \in First(x.after)..count => r \in Wanted(x.after)
    BY Numbers, WantedIsInterval
  <2>2. QED
    BY <2>1, Numbers DEF PageOf, Wanted
<1>3. Listed(p) = [x EXCEPT !.page = x.page + 1, !.seen = x.seen \cup P]
  BY DEF Listed
<1>4. x.page + 1 \in Nat /\ x.seen \cup P \in SUBSET Raids
  BY <1>1, <1>2 DEF RunType
<1> HIDE DEF P, x
<1>5. QED
  BY <1>1, <1>3, <1>4 DEF RunType, P, x

\* A listing with one more page.
LEMMA PageTurned ==
  ASSUME IInv, NEW p \in Runners, run[p].pc = "list"
  PROVE  /\ Listed(p).seen \subseteq Wanted(run[p].after)
         /\ More(p) => Listing(Listed(p))
         /\ ~More(p) => \A r \in Wanted(run[p].after), s \in Listed(p).seen :
                          r <= s => r \in Listed(p).seen
<1> DEFINE after == run[p].after
           k == run[p].page
           n == k * PageSize
           seen == run[p].seen
           y == Listed(p)
<1>1. /\ after \in Nat /\ k \in Nat /\ n \in Nat /\ count \in Nat
      /\ PageSize \in Nat /\ PageSize > 0
  BY Numbers, BoundsAreNumbers DEF IInv
<1>2. /\ y.after = after /\ y.page = k + 1
      /\ y.seen = seen \cup PageOf(after, k + 1)
  BY ListedResult DEF IInv
<1>3. /\ \A r : r \in PageOf(after, k + 1) <=>
                r \in Wanted(after) /\ Rank(r, after) >= n /\ Rank(r, after) < n + PageSize
      /\ More(p) <=> \E r \in Wanted(after) : Rank(r, after) >= n + PageSize
      /\ y.page * PageSize = n + PageSize
  BY <1>1, <1>2, PageResult DEF More
<1>4. seen \subseteq Wanted(after) /\ Listing(run[p])
  BY DEF IInv, RunsFit, RunFits
<1>5. /\ First(after) \in Nat
      /\ \A r \in Wanted(after) : r \in Nat /\ r <= count /\ r >= First(after)
  BY <1>1, FirstWorks DEF IInv, Wanted
<1>6. order = "newest" \/ order = "oldest"
  BY IngestAssumption DEF IInv, TypeOK
<1>7. y.seen \subseteq Wanted(after)
  BY <1>2, <1>3, <1>4
<1>8. ASSUME order = "newest", NEW r \in Wanted(after), NEW s \in y.seen,
             r <= s, count - r < n + PageSize
      PROVE  r \in y.seen
  <2>1. \A q : Rank(q, after) = count - q
    BY <1>8 DEF Rank
  <2>2. CASE count - r >= n
    BY <1>2, <1>3, <1>8, <2>1, <2>2
  <2>3. CASE count - r < n
    <3>1. s \in Wanted(after) /\ s \in Nat /\ s <= count /\ r \in Nat
      BY <1>5, <1>7, <1>8
    <3>2. s \in seen
      <4>1. s \notin PageOf(after, k + 1)
        <5>1. ~(count - s >= n)
          BY <1>1, <1>8, <2>3, <3>1
        <5>2. QED
          BY <1>3, <2>1, <5>1
      <4>2. QED
        BY <1>2, <1>8, <4>1
    <3>3. r \in seen
      BY <1>4, <1>8, <2>3, <3>2 DEF Listing
    <3>4. QED
      BY <1>2, <3>3
  <2>4. QED
    BY <1>1, <1>5, <1>8, <2>2, <2>3
<1>9. ASSUME order = "oldest", NEW r \in Wanted(after), r - First(after) < n + PageSize
      PROVE  r \in y.seen
  <2>1. Rank(r, after) = r - First(after)
    BY <1>9 DEF Rank
  <2>2. CASE r - First(after) >= n
    BY <1>2, <1>3, <1>9, <2>1, <2>2
  <2>3. CASE r - First(after) < n
    BY <1>2, <1>4, <1>9, <2>3 DEF Listing
  <2>4. QED
    BY <1>1, <1>5, <2>2, <2>3
<1>10. ASSUME More(p)
       PROVE  Listing(y)
  <2>1. CASE order = "newest"
    BY <1>2, <1>3, <1>8, <2>1 DEF Listing
  <2>2. CASE order = "oldest"
    <3>1. \E r \in Wanted(after) : r - First(after) >= n + PageSize
      BY <1>3, <1>10, <2>2 DEF Rank
    <3>2. QED
      BY <1>2, <1>3, <1>9, <2>2, <3>1 DEF Listing
  <2>3. QED
    BY <1>6, <2>1, <2>2
<1>11. ASSUME ~More(p), NEW r \in Wanted(after), NEW s \in y.seen, r <= s
       PROVE  r \in y.seen
  <2>1. ~(Rank(r, after) >= n + PageSize)
    BY <1>3, <1>11
  <2>2. CASE order = "newest"
    <3>1. count - r < n + PageSize
      BY <1>1, <1>5, <2>1, <2>2 DEF Rank
    <3>2. QED
      BY <1>8, <1>11, <2>2, <3>1
  <2>3. CASE order = "oldest"
    <3>1. r - First(after) < n + PageSize
      BY <1>1, <1>5, <2>1, <2>3 DEF Rank
    <3>2. QED
      BY <1>9, <1>11, <2>3, <3>1
  <2>4. QED
    BY <1>6, <2>2, <2>3
<1>12. QED
  BY <1>7, <1>10, <1>11
-----------------------------------------------------------------------------
(* The steps of a run.                                                     *)

\* The invariant of a run and of a watermark in the next state.
LEMMA FitsNext ==
  /\ \A p \in Runners : RunFits(run[p])' <=> \A x : run'[p] = x => RunFits(x)'
  /\ MarkFits(mark)' <=> \A m : mark' = m => MarkFits(m)'
<1>1. \A p \in Runners : RunFits(run[p]) <=> \A x : run[p] = x => RunFits(x)
  OBVIOUS
<1>2. MarkFits(mark) <=> \A m : mark = m => MarkFits(m)
  OBVIOUS
<1>3. (\A p \in Runners : RunFits(run[p]) <=> \A x : run[p] = x => RunFits(x))'
  BY <1>1, PTL
<1>4. (MarkFits(mark) <=> \A m : mark = m => MarkFits(m))'
  BY <1>2, PTL
<1>5. QED
  BY <1>3, <1>4

\* One process moves on, to a state that fits.
LEMMA MoveResult ==
  ASSUME IInv, NEW p \in Runners, NEW x \in RunType, run' = [run EXCEPT ![p] = x],
         Elsewhere, waived' \in TimesOrNone,
         objects' \subseteq Raids, published' \subseteq Raids,
         budget' \in [broken : 0..MaxBroken, explicit : 0..MaxExplicit],
         mark' \in MarkType, mark' = mark \/ MarkFits(mark)', RunFits(x)'
  PROVE  IInv'
<1>1. waived' \in Nat
  BY BoundsAreNumbers DEF TimesOrNone
<1>2. /\ run' \in [Runners -> RunType] /\ run'[p] = x
      /\ \A q \in Runners \ {p} : run'[q] = run[q]
  BY DEF IInv, TypeOK
<1>3. TypeOK'
  BY <1>2 DEF IInv, TypeOK, Elsewhere, server
<1>4. InOrder'
  BY DEF IInv, InOrder, Elsewhere, server
<1>5. MarkFits(mark)'
  <2>1. CASE mark' = mark
    <3>1. PICK m \in MarkType : m = mark
      BY DEF IInv, TypeOK
    <3>2. MarkFits(m)
      BY <3>1 DEF IInv, MarkFits, Covered
    <3>3. MarkFits(m)' /\ mark' = m
      BY <1>1, <2>1, <3>1, <3>2, MarkStays
    <3>4. QED
      BY <3>3, FitsNext
  <2>2. QED
    BY <2>1
<1>6. ASSUME NEW q \in Runners, NEW z, run'[q] = z
      PROVE  RunFits(z)'
  <2>1. CASE q = p
    BY <1>2, <1>6, <2>1
  <2>2. CASE q # p
    <3>1. z \in RunType /\ z = run[q]
      BY <1>2, <1>6, <2>2
    <3>2. RunFits(z)
      BY <3>1 DEF IInv, RunsFit
    <3>3. QED
      BY <1>1, <3>1, <3>2, RunStays
  <2>3. QED
    BY <2>1, <2>2
<1>7. RunsFit'
  BY <1>6, FitsNext DEF RunsFit
<1>8. QED
  BY <1>3, <1>4, <1>5, <1>7 DEF IInv

\* A process that holds nothing.
LEMMA IdleFits ==
  /\ Idle \in RunType
  /\ RunFits(Idle)
<1>1. Idle \in RunType
  BY BoundsAreNumbers DEF Idle, NoMark, RunType, MarkType, TimesOrNone
<1>2. RunFits(Idle)
  BY DEF Idle, NoMark, RunFits, MarkFits
<1>3. QED
  BY <1>1, <1>2

LEMMA InitIInv ==
  Init => IInv
<1> SUFFICES ASSUME Init
             PROVE  IInv
  OBVIOUS
<1>1. mark \in MarkType /\ MarkFits(mark) /\ waived \in TimesOrNone
  BY BoundsAreNumbers DEF Init, NoMark, MarkType, MarkFits, TimesOrNone
<1>2. TypeOK
  BY <1>1, IdleFits, BoundsAreNumbers DEF Init, TypeOK, TimesOrNone
<1>3. InOrder
  BY DEF Init, InOrder
<1>4. RunsFit
  BY IdleFits DEF Init, RunsFit
<1>5. QED
  BY <1>1, <1>2, <1>3, <1>4 DEF IInv

\* A process that stops.
LEMMA StopKeepsIInv ==
  ASSUME IInv, NEW p \in Runners, Refuse(p) \/ Break(p)
  PROVE  IInv'
<1>1. /\ run' = [run EXCEPT ![p] = Idle]
      /\ UNCHANGED <<count, at, order, objects, published, mark, waived>>
  BY DEF Refuse, Break, server
<1>2. budget' \in [broken : 0..MaxBroken, explicit : 0..MaxExplicit]
  BY BoundsAreNumbers DEF Refuse, Break, IInv, TypeOK
<1>3. Elsewhere /\ waived' \in TimesOrNone /\ waived' \in Nat
  BY <1>1, Numbers DEF Elsewhere, server, IInv, TypeOK
<1>4. RunFits(Idle)'
  BY <1>3, IdleFits, RunStays
<1>5. QED
  BY <1>1, <1>2, <1>3, <1>4, IdleFits, MoveResult DEF IInv, TypeOK

\* A run that starts, from the watermark or from a time that is given.
LEMMA StartKeepsIInv ==
  ASSUME IInv, NEW p \in Runners, NEW limits \in Limits,
         \/ StartFromWatermark(p, limits)
         \/ \E t \in Times : StartFrom(p, t, limits)
  PROVE  IInv'
<1>1. PICK explicit \in BOOLEAN, after \in TimesOrNone :
        /\ Start(p, explicit, after, limits)
        /\ waived' \in TimesOrNone /\ waived' >= waived
        /\ budget' \in [broken : 0..MaxBroken, explicit : 0..MaxExplicit]
        /\ IF explicit THEN after <= waived' ELSE mark.exists /\ after = mark.after
  <2>1. waived \in Nat /\ waived \in TimesOrNone /\ mark.after \in TimesOrNone
    BY Numbers DEF IInv, TypeOK, MarkType
  <2>2. CASE StartFromWatermark(p, limits)
    <3>1. /\ Start(p, FALSE, mark.after, limits) /\ mark.exists
          /\ waived' = waived /\ budget' = budget
      BY <2>2 DEF StartFromWatermark
    <3>2. /\ waived' \in TimesOrNone /\ waived' >= waived
          /\ budget' \in [broken : 0..MaxBroken, explicit : 0..MaxExplicit]
      BY <2>1, <3>1 DEF IInv, TypeOK
    <3>3. IF FALSE THEN mark.after <= waived' ELSE mark.exists /\ mark.after = mark.after
      BY <3>1
    <3>4. QED
      BY <2>1, <3>1, <3>2, <3>3, Zenon
  <2>3. CASE \E t \in Times : StartFrom(p, t, limits)
    <3>1. PICK t \in Times : StartFrom(p, t, limits)
      BY <2>3
    <3>2. t \in TimesOrNone /\ t \in Nat
      BY BoundsAreNumbers DEF Times, TimesOrNone
    <3>3. /\ Start(p, TRUE, t, limits)
          /\ waived' = IF t > waived THEN t ELSE waived
          /\ budget.explicit > 0 /\ budget' = [budget EXCEPT !.explicit = budget.explicit - 1]
      BY <3>1 DEF StartFrom
    <3>4. budget' \in [broken : 0..MaxBroken, explicit : 0..MaxExplicit]
      BY <3>3, BoundsAreNumbers DEF IInv, TypeOK
    <3>5. waived' \in TimesOrNone /\ waived' >= waived /\ t <= waived'
      BY <2>1, <3>2, <3>3
    <3>6. QED
      BY <3>2, <3>3, <3>4, <3>5
  <2>4. QED
    BY <2>2, <2>3
<1>2. PICK x : x = [Idle EXCEPT !.pc = "list", !.explicit = explicit, !.after = after,
                                !.prior = mark, !.limits = limits]
  OBVIOUS
<1>3. /\ x \in RunType
      /\ x.pc = "list" /\ x.explicit = explicit /\ x.after = after /\ x.prior = mark
      /\ x.page = 0 /\ x.seen = {}
  <2>1. Idle.page = 0 /\ Idle.seen = {}
    BY DEF Idle
  <2>2. QED
    BY <1>2, <2>1, IdleFits DEF RunType, IInv, TypeOK
<1>4. run' = [run EXCEPT ![p] = x] /\ Elsewhere /\ UNCHANGED <<server, objects, mark, published>>
  BY <1>1, <1>2 DEF Start, Elsewhere
<1>5. waived' \in Nat /\ after \in Nat
  BY <1>1, BoundsAreNumbers DEF TimesOrNone
<1>6. PICK m \in MarkType : m = mark
  BY DEF IInv, TypeOK
<1>7. MarkFits(m)'
  <2>1. MarkFits(m)
    BY <1>6 DEF IInv, MarkFits, Covered
  <2>2. QED
    BY <1>4, <1>5, <2>1, MarkStays
<1>8. Listing(x)
  <2>1. \A r \in Wanted(after) : ~(r - First(after) < 0 * PageSize)
    BY <1>5, FirstWorks, Numbers, BoundsAreNumbers DEF IInv, Wanted
  <2>2. QED
    BY <1>3, <2>1 DEF Listing
<1>9. Listing(x)'
  BY <1>4, <1>8 DEF Listing, server, Wanted, First
<1>10. RunFits(x)'
  BY <1>1, <1>3, <1>4, <1>6, <1>7, <1>9 DEF RunFits
<1>11. QED
  BY <1>1, <1>3, <1>4, <1>10, MoveResult DEF IInv, TypeOK

\* The next page of a listing, and the selection of what is new in all pages.
LEMMA ListKeepsIInv ==
  ASSUME IInv, NEW p \in Runners, TurnPage(p) \/ Select(p)
  PROVE  IInv'
<1>1. run[p].pc = "list" /\ UNCHANGED <<server, objects, published, mark, waived, budget>>
  BY DEF TurnPage, Select
<1>2. PICK l : l = Listed(p)
  OBVIOUS
<1>3. /\ l \in RunType /\ l.pc = "list" /\ l.explicit = run[p].explicit
      /\ l.after = run[p].after /\ l.prior = run[p].prior
      /\ l.seen \subseteq Wanted(l.after)
  BY <1>1, <1>2, ListedResult, PageTurned DEF IInv
<1>4. RunFits(run[p])
  BY DEF IInv, RunsFit
<1>5. PICK x \in RunType : run' = [run EXCEPT ![p] = x] /\ RunFits(x)
  <2>1. CASE TurnPage(p)
    <3>1. More(p) /\ run' = [run EXCEPT ![p] = l]
      BY <1>2, <2>1 DEF TurnPage, LastPage
    <3>2. Listing(l)
      BY <1>1, <1>2, <3>1, PageTurned
    <3>3. RunFits(l)
      BY <1>1, <1>3, <1>4, <3>2 DEF RunFits
    <3>4. QED
      BY <1>3, <3>1, <3>3
  <2>2. CASE Select(p)
    <3>1. ~More(p)
      BY <2>2 DEF Select, TooMuch
    <3>2. PICK x : x = [l EXCEPT !.pc = "fetch", !.new = New(p), !.todo = New(p)]
      OBVIOUS
    <3>3. New(p) \subseteq l.seen /\ l.seen \subseteq Raids
      BY <1>2, <1>3 DEF New, RunType
    <3>4. /\ x \in RunType /\ x.pc = "fetch" /\ x.explicit = l.explicit
          /\ x.after = l.after /\ x.prior = l.prior /\ x.seen = l.seen /\ x.new = New(p)
      BY <1>3, <3>2, <3>3 DEF RunType
    <3>5. \A r \in Wanted(l.after), s \in l.seen : r <= s => r \in l.seen
      BY <1>1, <1>2, <1>3, <3>1, PageTurned
    <3>6. \A r \in l.seen :
            r \in New(p) \/ (l.prior.exists /\ at[r] = l.prior.after /\ r \in l.prior.ids)
      BY <1>2, <1>3 DEF New
    <3>7. Chosen(x)
      BY <3>4, <3>5, <3>6 DEF Chosen
    <3>8. RunFits(x)
      BY <1>1, <1>3, <1>4, <3>4, <3>7 DEF RunFits
    <3>9. QED
      BY <1>2, <2>2, <3>2, <3>4, <3>8 DEF Select
  <2>3. QED
    BY <2>1, <2>2
<1>6. Elsewhere /\ waived' \in TimesOrNone /\ waived' \in Nat
  BY <1>1, Numbers DEF Elsewhere, IInv, TypeOK
<1>7. RunFits(x)'
  BY <1>5, <1>6, RunStays
<1>8. QED
  BY <1>1, <1>5, <1>6, <1>7, MoveResult DEF IInv, TypeOK

\* The objects of one raid.
LEMMA FetchKeepsIInv ==
  ASSUME IInv, NEW p \in Runners, NEW r \in Raids, Fetch(p, r)
  PROVE  IInv'
<1>1. /\ run[p].pc = "fetch" /\ objects' = objects \cup {r}
      /\ UNCHANGED <<server, published, mark, waived, budget>>
  BY DEF Fetch
<1>2. PICK x : x = [run[p] EXCEPT !.todo = run[p].todo \ {r}]
  OBVIOUS
<1>3. /\ x \in RunType /\ x.pc = "fetch" /\ x.explicit = run[p].explicit
      /\ x.after = run[p].after /\ x.prior = run[p].prior
      /\ x.seen = run[p].seen /\ x.new = run[p].new
  BY <1>1, <1>2 DEF IInv, TypeOK, RunType
<1>4. run' = [run EXCEPT ![p] = x]
  BY <1>2 DEF Fetch, IInv, TypeOK
<1>5. RunFits(x)
  <2>1. RunFits(run[p])
    BY DEF IInv, RunsFit
  <2>2. QED
    BY <1>1, <1>3, <2>1 DEF RunFits, Chosen
<1>6. Elsewhere /\ waived' \in TimesOrNone /\ waived' \in Nat
  BY <1>1, Numbers DEF Elsewhere, IInv, TypeOK
<1>7. RunFits(x)'
  BY <1>3, <1>5, <1>6, RunStays
<1>8. QED
  BY <1>1, <1>3, <1>4, <1>6, <1>7, MoveResult DEF IInv, TypeOK

\* The manifest of what was selected.
LEMMA PublishKeepsIInv ==
  ASSUME IInv, NEW p \in Runners, Publish(p)
  PROVE  IInv'
<1>1. /\ run[p].pc = "fetch" /\ published' = published \cup run[p].new
      /\ UNCHANGED <<server, objects, mark, waived, budget>>
  BY DEF Publish
<1>2. PICK z, x : z = run[p] /\ x = [z EXCEPT !.pc = "advance"]
  OBVIOUS
<1>3. /\ z \in RunType /\ z.new \subseteq Raids
      /\ x \in RunType /\ x.pc = "advance" /\ x.explicit = z.explicit
      /\ x.after = z.after /\ x.prior = z.prior
      /\ x.seen = z.seen /\ x.new = z.new
  BY <1>2 DEF IInv, TypeOK, RunType
<1>4. run' = [run EXCEPT ![p] = x]
  BY <1>2 DEF Publish, IInv, TypeOK
<1>5. Elsewhere /\ waived' \in TimesOrNone /\ waived' \in Nat
  BY <1>1, Numbers DEF Elsewhere, IInv, TypeOK
<1>6. RunFits(x)'
  <2>1. RunFits(z)
    BY <1>2 DEF IInv, RunsFit
  <2>2. RunFits(z)'
    BY <1>3, <1>5, <2>1, RunStays
  <2>3. z.pc = "fetch" /\ z.new \subseteq published'
    BY <1>1, <1>2
  <2>4. QED
    BY <1>3, <2>2, <2>3 DEF RunFits, Chosen
<1>7. QED
  BY <1>1, <1>2, <1>3, <1>4, <1>5, <1>6, MoveResult DEF IInv, TypeOK

-----------------------------------------------------------------------------
(* The watermark moves.                                                    *)

LEMMA LatestBounds ==
  ASSUME IInv, NEW p \in Runners
  PROVE  /\ Latest(p) \in TimesOrNone /\ Latest(p) \in Nat
         /\ Latest(p) >= run[p].after
<1>1. run[p].after \in Nat /\ run[p].after \in TimesOrNone
  BY Numbers DEF IInv, TypeOK, RunType
<1>2. CASE run[p].seen = {}
  BY <1>1, <1>2 DEF Latest
<1>3. CASE run[p].seen # {}
  <2>1. PICK s \in run[p].seen : at[s] = Latest(p)
    BY <1>3, LatestWorks DEF IInv
  <2>2. s \in Wanted(run[p].after) /\ s \in Raids
    BY DEF IInv, RunsFit, RunFits, TypeOK, RunType
  <2>3. at[s] >= run[p].after /\ at[s] \in TimesOrNone /\ at[s] \in Nat
    BY <2>2, BoundsAreNumbers DEF Wanted, IInv, TypeOK, TimesOrNone
  <2>4. QED
    BY <2>1, <2>3
<1>4. QED
  BY <1>2, <1>3

\* The watermark that a run leaves fits: what lies behind it was seen in the
\* whole listing, or lay behind the watermark from which the run started.
LEMMA NextMarkFits ==
  ASSUME IInv, NEW p \in Runners, run[p].pc = "advance"
  PROVE  NextMark(p) \in MarkType /\ MarkFits(NextMark(p))
<1> DEFINE x == run[p]
           m == NextMark(p)
<1>1. /\ x \in RunType /\ x.prior \in MarkType /\ x.after \in Nat /\ x.prior.after \in Nat
      /\ waived \in Nat /\ count \in Nat
      /\ \A r \in 1..count : r \in Raids /\ at[r] \in Nat
  BY Numbers DEF IInv, TypeOK, RunType
<1>2. /\ x.seen \subseteq Wanted(x.after) /\ MarkFits(x.prior) /\ Chosen(x)
      /\ x.new \subseteq published
      /\ IF x.explicit THEN x.after <= waived ELSE x.prior.exists /\ x.after = x.prior.after
  BY DEF IInv, RunsFit, RunFits
<1>3. m.exists = TRUE /\ m.after = Latest(p) /\ m.ids = Boundary(p)
  BY DEF NextMark, Mark
<1>4. Latest(p) \in TimesOrNone /\ Latest(p) \in Nat /\ Latest(p) >= x.after
  BY LatestBounds
<1>5. Boundary(p) \subseteq 1..count
  <2>1. x.seen \subseteq 1..count
    BY <1>2 DEF Wanted
  <2>2. x.prior.exists => x.prior.ids \subseteq 1..count
    BY <1>2 DEF MarkFits
  <2>3. QED
    BY <2>1, <2>2 DEF Boundary
<1>6. m \in MarkType
  <2>1. Boundary(p) \subseteq Raids
    BY <1>1, <1>5
  <2>2. QED
    BY <1>4, <2>1 DEF NextMark, Mark, MarkType
<1>7. m.after <= waived \/ \E r \in 1..count : at[r] >= m.after
  <2>1. CASE x.seen = {}
    <3>1. m.after = x.after
      BY <1>3, <2>1 DEF Latest
    <3>2. CASE x.explicit
      BY <1>2, <3>1, <3>2
    <3>3. CASE ~x.explicit
      BY <1>2, <3>1, <3>3 DEF MarkFits
    <3>4. QED
      BY <3>2, <3>3
  <2>2. CASE x.seen # {}
    <3>1. PICK s \in x.seen : at[s] = Latest(p)
      BY <2>2, LatestWorks DEF IInv
    <3>2. s \in 1..count
      BY <1>2 DEF Wanted
    <3>3. QED
      BY <1>3, <1>4, <3>1, <3>2
  <2>3. QED
    BY <2>1, <2>2
<1>8. \A r \in Covered(x.prior) : r \in published \/ at[r] < waived
  BY <1>2 DEF MarkFits, Covered
<1>9. ASSUME NEW r \in Covered(m)
      PROVE  r \in published \/ at[r] < waived
  <2>1. /\ r \in 1..count /\ at[r] \in Nat
        /\ at[r] < Latest(p) \/ (at[r] = Latest(p) /\ r \in Boundary(p))
    BY <1>1, <1>3 DEF Covered
  <2>2. CASE at[r] < x.after
    <3>1. CASE x.explicit
      BY <1>1, <1>2, <2>1, <2>2, <3>1
    <3>2. CASE ~x.explicit
      <4>1. r \in Covered(x.prior)
        BY <1>2, <2>1, <2>2, <3>2 DEF Covered
      <4>2. QED
        BY <1>8, <4>1
    <3>3. QED
      BY <3>1, <3>2
  <2>3. CASE r \in x.seen
    <3>1. r \in x.new \/ r \in Covered(x.prior)
      BY <1>2, <2>1, <2>3 DEF Chosen, Covered
    <3>2. QED
      BY <1>2, <1>8, <3>1
  <2>4. CASE at[r] >= x.after /\ r \notin x.seen
    <3>1. CASE at[r] = Latest(p) /\ r \in Boundary(p)
      <4>1. r \in Covered(x.prior)
        BY <2>1, <2>4, <3>1 DEF Boundary, Covered
      <4>2. QED
        BY <1>8, <4>1
    <3>2. CASE at[r] < Latest(p)
      <4>1. x.seen # {}
        BY <1>1, <2>1, <2>4, <3>2 DEF Latest
      <4>2. PICK s \in x.seen : at[s] = Latest(p)
        BY <4>1, LatestWorks DEF IInv
      <4>3. s \in 1..count
        BY <1>2 DEF Wanted
      <4>4. r <= s
        <5>1. s <= r => at[s] <= at[r]
          BY <2>1, <4>3 DEF IInv, InOrder
        <5>2. ~(s <= r)
          BY <1>4, <2>1, <3>2, <4>2, <5>1
        <5>3. QED
          BY <1>1, <2>1, <4>3, <5>2
      <4>5. r \in Wanted(x.after)
        BY <2>1, <2>4 DEF Wanted
      <4>6. r \in x.seen
        BY <1>2, <4>4, <4>5 DEF Chosen
      <4>7. QED
        BY <2>4, <4>6
    <3>3. QED
      BY <2>1, <3>1, <3>2
  <2>5. QED
    BY <1>1, <2>1, <2>2, <2>3, <2>4
<1>10. QED
  BY <1>3, <1>5, <1>6, <1>7, <1>9 DEF MarkFits

LEMMA AdvanceKeepsIInv ==
  ASSUME IInv, NEW p \in Runners, Advance(p)
  PROVE  IInv'
<1>1. /\ run[p].pc = "advance" /\ run' = [run EXCEPT ![p] = Idle]
      /\ UNCHANGED <<server, objects, published, waived, budget>>
  BY DEF Advance
<1>2. PICK m : m = NextMark(p)
  OBVIOUS
<1>3. m \in MarkType /\ MarkFits(m) /\ mark' = m
  <2>1. NextMark(p) \in MarkType /\ MarkFits(NextMark(p))
    BY <1>1, NextMarkFits
  <2>2. QED
    BY <1>2, <2>1 DEF Advance, MarkFits, Covered
<1>4. Elsewhere /\ waived' \in TimesOrNone /\ waived' \in Nat
  BY <1>1, Numbers DEF Elsewhere, IInv, TypeOK
<1>5. MarkFits(mark)'
  <2>1. MarkFits(m)'
    BY <1>3, <1>4, MarkStays
  <2>2. QED
    BY <1>3, <2>1, FitsNext
<1>6. RunFits(Idle)'
  BY <1>4, IdleFits, RunStays
<1>7. QED
  BY <1>1, <1>3, <1>4, <1>5, <1>6, IdleFits, MoveResult DEF IInv, TypeOK

-----------------------------------------------------------------------------
(* Every step.                                                             *)

LEMMA UploadKeepsIInv ==
  ASSUME IInv, NEW t \in Times, Upload(t)
  PROVE  IInv'
<1>1. UNCHANGED <<mark, run>>
  BY DEF Upload
<1>2. TypeOK' /\ InOrder'
  BY UploadResult
<1>3. MarkFits(mark)'
  <2>1. PICK m \in MarkType : m = mark
    BY DEF IInv, TypeOK
  <2>2. MarkFits(m)
    BY <2>1 DEF IInv, MarkFits, Covered
  <2>3. MarkFits(m)' /\ mark' = m
    BY <1>1, <2>1, <2>2, MarkStaysAtUpload
  <2>4. QED
    BY <2>3, FitsNext
<1>4. ASSUME NEW q \in Runners, NEW z, run'[q] = z
      PROVE  RunFits(z)'
  <2>1. z \in RunType /\ z = run[q]
    BY <1>1, <1>4 DEF IInv, TypeOK
  <2>2. RunFits(z)
    BY <2>1 DEF IInv, RunsFit
  <2>3. QED
    BY <2>1, <2>2, RunStaysAtUpload
<1>5. RunsFit'
  BY <1>4, FitsNext DEF RunsFit
<1>6. QED
  BY <1>2, <1>3, <1>5 DEF IInv

LEMMA StutterKeepsIInv ==
  ASSUME IInv, UNCHANGED vars
  PROVE  IInv'
<1>1. UNCHANGED <<count, at, order, objects, published, mark, run, waived, budget>>
  BY DEF vars
<1>2. TypeOK' /\ InOrder'
  BY <1>1 DEF IInv, TypeOK, InOrder
<1>3. Elsewhere /\ waived' \in Nat
  BY <1>1, Numbers DEF Elsewhere, server, IInv
<1>4. MarkFits(mark)'
  <2>1. PICK m \in MarkType : m = mark
    BY DEF IInv, TypeOK
  <2>2. MarkFits(m)
    BY <2>1 DEF IInv, MarkFits, Covered
  <2>3. MarkFits(m)' /\ mark' = m
    BY <1>1, <1>3, <2>1, <2>2, MarkStays
  <2>4. QED
    BY <2>3, FitsNext
<1>5. ASSUME NEW q \in Runners, NEW z, run'[q] = z
      PROVE  RunFits(z)'
  <2>1. z \in RunType /\ z = run[q]
    BY <1>1, <1>5 DEF IInv, TypeOK
  <2>2. RunFits(z)
    BY <2>1 DEF IInv, RunsFit
  <2>3. QED
    BY <1>3, <2>1, <2>2, RunStays
<1>6. RunsFit'
  BY <1>5, FitsNext DEF RunsFit
<1>7. QED
  BY <1>2, <1>4, <1>6 DEF IInv

LEMMA NextIInv ==
  IInv /\ [Next]_vars => IInv'
<1> SUFFICES ASSUME IInv, [Next]_vars
             PROVE  IInv'
  OBVIOUS
<1>1. CASE \E t \in Times : Upload(t)
  BY <1>1, UploadKeepsIInv
<1>2. CASE \E p \in Runners, limits \in Limits :
             \/ StartFromWatermark(p, limits)
             \/ \E t \in Times : StartFrom(p, t, limits)
  BY <1>2, StartKeepsIInv
<1>3. ASSUME NEW p \in Runners, Work(p) \/ Break(p)
      PROVE  IInv'
  <2>1. CASE Refuse(p) \/ Break(p)
    BY <2>1, StopKeepsIInv
  <2>2. CASE TurnPage(p) \/ Select(p)
    BY <2>2, ListKeepsIInv
  <2>3. CASE \E r \in Raids : Fetch(p, r)
    BY <2>3, FetchKeepsIInv
  <2>4. CASE Publish(p)
    BY <2>4, PublishKeepsIInv
  <2>5. CASE Advance(p)
    BY <2>5, AdvanceKeepsIInv
  <2>6. QED
    BY <1>3, <2>1, <2>2, <2>3, <2>4, <2>5 DEF Work
<1>4. CASE UNCHANGED vars
  BY <1>4, StutterKeepsIInv
<1>5. QED
  BY <1>1, <1>2, <1>3, <1>4 DEF Next

\* The invariant holds in every state.
THEOREM Invariance == Spec => []IInv
<1>1. QED
  BY InitIInv, NextIInv, PTL DEF Spec

-----------------------------------------------------------------------------
(* What it is for.                                                         *)

\* Every variable always has its type.
THEOREM TypeCorrect == Spec => []TypeOK
<1>1. IInv => TypeOK
  BY DEF IInv
<1>2. QED
  BY <1>1, Invariance, PTL

\* The watermark skips nothing, whatever is uploaded between two pages of a
\* listing in either order, for any page size and limits, and whichever runs
\* overlap, fail, are killed or are refused: what lies behind it was published,
\* unless somebody asked for a later --upload-after.
THEOREM WatermarkSkipsNothing == Spec => []NothingSkipped
<1>1. IInv => NothingSkipped
  BY DEF IInv, MarkFits, NothingSkipped, Covered
<1>2. QED
  BY <1>1, Invariance, PTL

\* A run from the watermark that no other run overtook leaves everything that
\* was covered covered.
THEOREM WatermarkForgetsNothing == Spec => NothingForgotten
<1> DEFINE A == \A p \in Runners :
                  /\ run[p].pc = "advance" /\ run'[p].pc = "idle" /\ mark' # mark
                  /\ run[p].prior = mark /\ ~run[p].explicit
                  => Covered(mark) \subseteq Covered(mark)'
<1>1. ASSUME IInv, [Next]_vars, NEW p \in Runners,
             run[p].pc = "advance", run'[p].pc = "idle", mark' # mark,
             run[p].prior = mark, ~run[p].explicit
      PROVE  Covered(mark) \subseteq Covered(mark)'
  <2>1. PICK q \in Runners : Advance(q)
    BY <1>1 DEF Next, vars, Work, Upload, StartFromWatermark, StartFrom, Start,
                TurnPage, Refuse, Select, Fetch, Publish, Break
  <2>2. run' = [run EXCEPT ![q] = Idle] /\ mark' = NextMark(q) /\ UNCHANGED <<count, at>>
    BY <2>1 DEF Advance, server
  <2>3. q = p
    BY <1>1, <2>2 DEF IInv, TypeOK
  <2>4. mark'.exists = TRUE /\ mark'.after = Latest(p) /\ mark'.ids = Boundary(p)
    BY <2>2, <2>3 DEF NextMark, Mark
  <2>5. mark.exists /\ run[p].after = mark.after
    BY <1>1 DEF IInv, RunsFit, RunFits
  <2>6. Latest(p) \in Nat /\ Latest(p) >= mark.after /\ mark.after \in Nat
    BY <1>1, <2>5, LatestBounds, Numbers DEF IInv, TypeOK
  <2>7. ASSUME NEW r \in Covered(mark)
        PROVE  r \in Covered(mark)'
    <3>1. /\ r \in 1..count /\ at[r] \in Nat
          /\ at[r] < mark.after \/ (at[r] = mark.after /\ r \in mark.ids)
      BY <1>1, Numbers DEF Covered, IInv
    <3>2. CASE at[r] < Latest(p)
      BY <2>2, <2>4, <3>1, <3>2 DEF Covered
    <3>3. CASE ~(at[r] < Latest(p))
      <4>1. at[r] = Latest(p) /\ mark.after = Latest(p) /\ r \in mark.ids
        BY <2>6, <3>1, <3>3
      <4>2. r \in Boundary(p)
        BY <1>1, <2>5, <4>1 DEF Boundary
      <4>3. QED
        BY <2>2, <2>4, <3>1, <4>1, <4>2 DEF Covered
    <3>4. QED
      BY <3>2, <3>3
  <2>8. QED
    BY <2>7
<1>2. IInv /\ [Next]_vars => [A]_vars
  BY <1>1
<1>3. Spec => []IInv /\ [][Next]_vars
  BY Invariance, PTL DEF Spec
<1>4. Spec => [][A]_vars
  BY <1>2, <1>3, PTL
<1>5. QED
  BY <1>4 DEF NothingForgotten

=============================================================================
