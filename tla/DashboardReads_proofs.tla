------------------------ MODULE DashboardReads_proofs ------------------------
(***************************************************************************)
(* What the dashboard answers while ingestion writes, for every corpus,    *)
(* page size and window.  The argument is in three parts, one per kind of  *)
(* request: a walk never loses a row because an arrival only pushes the    *)
(* rows not shown yet further down; the days of the overview are a         *)
(* partition of its window, which only grows; and a review that arrives    *)
(* has no mention, so the two windows of the summary are still those of    *)
(* the database, and what they share cancels.                              *)
(***************************************************************************)
EXTENDS DashboardReads, FiniteSums

-----------------------------------------------------------------------------
(* What the writes leave of a stored review *)

LEMMA ReviewFields ==
    ASSUME DashboardType, NEW i \in Stored
    PROVE  /\ corpus[i] = [created |-> corpus[i].created, rating |-> corpus[i].rating,
                           mention |-> corpus[i].mention]
           /\ corpus[i].created \in Nat
           /\ kind = "summary" => corpus[i].mention \in Keys \cup {None}
           /\ kind # "summary" => corpus[i].rating \in Nat
<1>1. corpus[i] \in Reviews(kind)
  BY DEF DashboardType
<1> QED
  BY <1>1, DashboardAssumption DEF Reviews

LEMMA ArriveShape ==
    ASSUME DashboardType, NEW i, NEW r, Arrive(i, r)
    PROVE  /\ i \notin Stored /\ Stored' = Stored \cup {i} /\ corpus'[i] = r
           /\ \A j \in Stored : corpus'[j] = corpus[j]
  BY DEF Arrive, DashboardType, Stored

LEMMA EditShape ==
    ASSUME DashboardType, NEW i, NEW rating, Edit(i, rating)
    PROVE  /\ i \in Stored /\ Stored' = Stored
           /\ \A j \in Stored : corpus'[j].created = corpus[j].created
<1>1. i \in Stored /\ corpus' = [corpus EXCEPT ![i].rating = rating]
  BY DEF Edit
<1>2. Stored' = Stored
  BY <1>1 DEF Stored
<1>3. \A j \in Stored \ {i} : corpus'[j] = corpus[j]
  BY <1>1 DEF Stored, DashboardType
<1>4. corpus'[i] = [corpus[i] EXCEPT !.rating = rating]
  BY <1>1 DEF Stored, DashboardType
<1>5. corpus'[i].created = corpus[i].created
  BY <1>1, <1>4, ReviewFields
<1> QED
  BY <1>1, <1>2, <1>3, <1>5

LEMMA ClassifyShape ==
    ASSUME DashboardType, NEW i, NEW mention, Classify(i, mention)
    PROVE  /\ i \in Stored /\ Stored' = Stored /\ "analysis" \in between' /\ phase = "second"
           /\ corpus' \in [Stored' -> [created : Times, rating : {Min(Ratings)}, mention : {mention} \cup Keys \cup {None}]]
  BY DEF Classify, DashboardType, Stored, Reviews, Under, Watched

(* Every kind of write keeps a stored review and when it was created. *)
Kept == Stored \subseteq Stored' /\ \A j \in Stored : corpus'[j].created = corpus[j].created

LEMMA CreatedKept ==
    ASSUME Kept, NEW from, NEW to PROVE Created(from, to) \subseteq Created(from, to)'
  BY DEF Kept, Created

-----------------------------------------------------------------------------
(* The types *)

LEMMA DashboardTypeInit == DashboardInit => DashboardType
<1> SUFFICES ASSUME DashboardInit PROVE DashboardType
  OBVIOUS
<1>1. PICK S \in SUBSET Ids : corpus \in [S -> Reviews(kind)]
  BY DEF DashboardInit
<1>2. Stored = S
  BY <1>1 DEF Stored
<1>3. AnyReview \in Filters(kind)
  BY DEF DashboardInit, AnyReview, Filters, Ends
<1>4. Stored \subseteq Ids /\ corpus \in [Stored -> Reviews(kind)]
  BY <1>1, <1>2
<1>5. filter \in Filters(kind)
  BY <1>3 DEF DashboardInit
<1>6. /\ kind \in {"walk", "overview", "summary"}
      /\ phase \in {"idle", "first", "second", "answered", "refused"} /\ page \in Nat \ {0}
  BY DEF DashboardInit
<1>7. between \subseteq {"arrival", "edit", "analysis"} /\ edited \in BOOLEAN
  BY DEF DashboardInit
<1> QED
  BY <1>4, <1>5, <1>6, <1>7, Zenon DEF DashboardType

LEMMA DashboardTypeStep == DashboardType /\ [DashboardNext]_dashboardVars => DashboardType'
<1> SUFFICES ASSUME DashboardType, [DashboardNext]_dashboardVars PROVE DashboardType'
  OBVIOUS
<1> USE DEF DashboardType, Stored, request
<1>1. ASSUME NEW f \in Filters(kind), Open(f) PROVE DashboardType'
  BY <1>1 DEF Open
<1>2. CASE FirstStatement
  BY <1>2 DEF FirstStatement
<1>3. CASE ListRows
  BY <1>3 DEF ListRows
<1>4. CASE SecondStatement
  BY <1>4 DEF SecondStatement
<1>5. CASE FollowNext
  BY <1>5 DEF FollowNext
<1>6. ASSUME NEW i \in Ids, NEW r \in Reviews(kind), Arrive(i, r) PROVE DashboardType'
  <2>1. corpus' \in [Stored' -> Reviews(kind)] /\ Stored' \subseteq Ids
    BY <1>6 DEF Arrive
  <2> QED
    BY <1>6, <2>1 DEF Arrive, Under
<1>7. ASSUME NEW i \in Ids, NEW rating \in Ratings, Edit(i, rating) PROVE DashboardType'
  <2>1. corpus' \in [Stored' -> Reviews(kind)] /\ Stored' \subseteq Ids
    BY <1>7 DEF Edit, Reviews
  <2> QED
    BY <1>7, <2>1 DEF Edit, Under
<1>8. ASSUME NEW i \in Ids, NEW mention \in Keys, Classify(i, mention) PROVE DashboardType'
  <2>1. corpus' \in [Stored' -> Reviews(kind)] /\ Stored' \subseteq Ids
    BY <1>8 DEF Classify, Reviews
  <2> QED
    BY <1>8, <2>1 DEF Classify, Under
<1>9. CASE UNCHANGED dashboardVars
  BY <1>9 DEF dashboardVars
<1> QED
  BY <1>1, <1>2, <1>3, <1>4, <1>5, <1>6, <1>7, <1>8, <1>9 DEF DashboardNext

-----------------------------------------------------------------------------
(* The walk *)

LEMMA MatchingFinite ==
    ASSUME DashboardType, NEW f
    PROVE  Matching(f) \subseteq Stored /\ IsFiniteSet(Matching(f)) /\ IsFiniteSet(Stored)
<1>1. IsFiniteSet(Stored)
  BY DashboardAssumption, FS_Subset DEF DashboardType
<1>2. Matching(f) \subseteq Stored
  BY DEF Matching, Created
<1> QED
  BY <1>1, <1>2, FS_Subset

(* ORDER BY created_at DESC, id DESC is a strict total order. *)
LEMMA BeforeTotal ==
    ASSUME DashboardType, NEW i \in Stored, NEW j \in Stored
    PROVE  /\ ~Before(i, i)
           /\ Before(i, j) => ~Before(j, i)
           /\ i # j => Before(i, j) \/ Before(j, i)
<1>1. i \in Nat /\ j \in Nat
  BY DashboardAssumption DEF DashboardType
<1>2. corpus[i].created \in Nat /\ corpus[j].created \in Nat
  BY ReviewFields
<1> QED
  BY <1>1, <1>2 DEF Before

(* Row n of an ordered list has n - 1 rows before it. *)
LEMMA OrderRank ==
    ASSUME DashboardType, NEW S \in SUBSET Stored, IsFiniteSet(S), NEW o \in Orders(S),
           NEW n \in 1 .. Cardinality(S)
    PROVE  Cardinality({j \in S : Before(j, o[n])}) = n - 1
<1> DEFINE N == Cardinality(S)
           Above == {j \in S : Before(j, o[n])}
           g == [m \in 1 .. n - 1 |-> o[m]]
<1>1. N \in Nat
  BY FS_CardinalityType
<1>2. /\ o \in [1 .. N -> S]
      /\ \A l, m \in 1 .. N : o[l] = o[m] => l = m
      /\ \A s \in S : \E m \in 1 .. N : o[m] = s
      /\ \A l, m \in 1 .. N : l < m => ~Before(o[m], o[l])
  BY DEF Orders, Bijection, Injection, Surjection, IsInjective
<1>3. \A l, m \in 1 .. N : l < m => Before(o[l], o[m])
  BY <1>1, <1>2, BeforeTotal
<1>4. 1 .. n - 1 \subseteq 1 .. N /\ n \in 1 .. N /\ n - 1 \in Nat
  BY <1>1
<1>5. \A m \in 1 .. n - 1 : o[m] \in Above
  BY <1>2, <1>3, <1>4
<1>6. \A s \in Above : \E m \in 1 .. n - 1 : o[m] = s
  <2> TAKE s \in Above
  <2>1. PICK m \in 1 .. N : o[m] = s
    BY <1>2
  <2>2. ~(n < m) /\ m # n
    BY <1>2, <1>4, <2>1, BeforeTotal
  <2> QED
    BY <1>1, <2>1, <2>2
<1>7. g \in Bijection(1 .. n - 1, Above)
  <2>1. g \in [1 .. n - 1 -> Above]
    BY <1>5
  <2>2. \A l, m \in 1 .. n - 1 : g[l] = g[m] => l = m
    BY <1>2, <1>4
  <2>3. \A s \in Above : \E m \in 1 .. n - 1 : g[m] = s
    BY <1>6
  <2> HIDE DEF g, Above
  <2> QED
    BY <2>1, <2>2, <2>3 DEF Bijection, Injection, Surjection, IsInjective
<1> HIDE DEF g, Above
<1>8. ExistsBijection(1 .. n - 1, Above)
  BY <1>7 DEF ExistsBijection
<1>9. Cardinality(Above) = n - 1
  BY <1>4, <1>8, FS_CountingElements
<1> QED
  BY <1>9 DEF Above

(* A page has every row whose place falls into it. *)
LEMMA PageHasRows ==
    ASSUME DashboardType, NEW S \in SUBSET Stored, IsFiniteSet(S), NEW p \in Nat \ {0},
           NEW rows \in Pages(S, p), NEW i \in S,
           (p - 1) * PageSize <= Cardinality({j \in S : Before(j, i)}),
           Cardinality({j \in S : Before(j, i)}) < p * PageSize
    PROVE  i \in rows
<1>1. PICK o \in Orders(S) :
         rows = {o[n] : n \in {n \in DOMAIN o : (p - 1) * PageSize < n /\ n <= p * PageSize}}
  BY DEF Pages
<1>2. DOMAIN o = 1 .. Cardinality(S) /\ \E m \in 1 .. Cardinality(S) : o[m] = i
  BY DEF Orders, Bijection, Surjection, Injection
<1>3. PICK m \in DOMAIN o : o[m] = i
  BY <1>2
<1>4. Cardinality({j \in S : Before(j, i)}) = m - 1
  BY <1>2, <1>3, OrderRank
<1>5. (p - 1) * PageSize \in Nat /\ p * PageSize \in Nat /\ m \in Nat
  BY <1>2, FS_CardinalityType, DashboardAssumption
<1>6. (p - 1) * PageSize < m /\ m <= p * PageSize
  BY <1>4, <1>5
<1> QED
  BY <1>1, <1>3, <1>6

LEMMA RankInMatching ==
    ASSUME DashboardType, NEW i \in Matching(filter)
    PROVE  Rank(i) \in Nat /\ Rank(i) < Cardinality(Matching(filter))
<1> DEFINE M == Matching(filter)  Above == {j \in M : Before(j, i)}
<1>1. IsFiniteSet(M) /\ M \subseteq Stored
  BY MatchingFinite
<1>2. i \notin Above /\ Above \subseteq M
  BY <1>1, BeforeTotal
<1> HIDE DEF M, Above
<1>3. IsFiniteSet(Above) /\ Cardinality(Above) <= Cardinality(M) /\ Cardinality(Above) # Cardinality(M)
  BY <1>1, <1>2, FS_Subset DEF M
<1>4. Cardinality(Above) \in Nat /\ Cardinality(M) \in Nat
  BY <1>1, <1>3, FS_CardinalityType
<1> QED
  BY <1>3, <1>4 DEF Rank, M, Above

(* The last page has been read: everything that matches is above its end. *)
LEMMA LastPage ==
    ASSUME DashboardType, NEW n \in Nat, first = n, page >= TotalPages
    PROVE  n <= page * PageSize
<1> DEFINE pages == (n + PageSize - 1) \div PageSize
<1>1. PageSize \in Nat \ {0} /\ page \in Nat
  BY DashboardAssumption DEF DashboardType
<1>2. pages \in Int /\ n <= pages * PageSize
  BY <1>1
<1>3. TotalPages >= pages /\ TotalPages \in Int
  <2>1. TotalPages = Max({1, pages})
    BY DEF TotalPages
  <2> HIDE DEF pages
  <2>2. \E x \in {1, pages} : \A y \in {1, pages} : x >= y
    BY <1>2
  <2>3. Max({1, pages}) \in {1, pages} /\ \A y \in {1, pages} : Max({1, pages}) >= y
    BY <2>2 DEF Max
  <2> QED
    BY <1>2, <2>1, <2>3
<1>4. pages <= page
  BY <1>1, <1>2, <1>3
<1> HIDE DEF pages
<1>5. pages * PageSize <= page * PageSize
  BY <1>1, <1>2, <1>4
<1> QED
  BY <1>1, <1>2, <1>5

LEMMA PlacesFall ==
    ASSUME DashboardType, DashboardType', Kept, filter' = filter,
           Matching(filter) \subseteq Matching(filter)', NEW i \in Stored
    PROVE  Rank(i) \in Nat /\ Rank(i)' \in Nat /\ Rank(i) <= Rank(i)'
<1> DEFINE Above == {j \in Matching(filter) : Before(j, i)}
           Below == Above'
<1>1. IsFiniteSet(Matching(filter)) /\ Matching(filter) \subseteq Stored
  BY MatchingFinite
<1>2. IsFiniteSet(Matching(filter)')
  <2>1. IsFiniteSet(Stored') /\ Matching(filter)' \subseteq Stored'
    BY DashboardAssumption, FS_Subset DEF DashboardType, Matching, Created
  <2> QED
    BY <2>1, FS_Subset
<1>3. \A j \in Stored : Before(j, i)' <=> Before(j, i)
  BY DEF Before, Kept
<1>4. Above \subseteq Below
  BY <1>1, <1>3
<1>5. IsFiniteSet(Below) /\ IsFiniteSet(Above)
  BY <1>1, <1>2, FS_Subset
<1>6. Rank(i) = Cardinality(Above) /\ Rank(i)' = Cardinality(Below)
  BY DEF Rank
<1> HIDE DEF Above, Below
<1> QED
  BY <1>4, <1>5, <1>6, FS_Subset, FS_CardinalityType

(* A write that takes no review out of the filter keeps every place owed. *)
LEMMA WriteKeepsWalk ==
    ASSUME DashboardType, DashboardType', WalkInv, kind = "walk", Kept, UNCHANGED <<kind, request, owed, shown>>,
           edited' => filter.rating # None, phase # "idle",
           ~edited' => ~edited /\ Matching(filter) \subseteq Matching(filter)',
           ~edited' /\ phase = "second" /\ "arrival" \notin between' =>
               "arrival" \notin between /\ Matching(filter)' = Matching(filter)
    PROVE  WalkInv'
<1> SUFFICES ASSUME ~edited'
             PROVE  /\ owed' \subseteq Matching(filter)'
                    /\ \A i \in owed' \ shown' :
                         Rank(i)' >= (IF phase' = "answered" THEN page' ELSE page' - 1) * PageSize
                    /\ phase' = "second" /\ "arrival" \notin between' =>
                         first' = Cardinality(Matching(filter)')
  BY DEF WalkInv, request
<1>1. /\ owed' = owed /\ shown' = shown /\ phase' = phase /\ page' = page /\ first' = first
      /\ filter' = filter
  BY DEF request
<1>2. ~edited /\ owed \subseteq Matching(filter) /\ Matching(filter) \subseteq Matching(filter)'
  BY DEF WalkInv
<1>3. ASSUME NEW i \in owed \ shown
      PROVE  Rank(i)' >= (IF phase = "answered" THEN page ELSE page - 1) * PageSize
  <2>1. i \in Stored
    BY <1>2, MatchingFinite
  <2>2. Rank(i) \in Nat /\ Rank(i)' \in Nat /\ Rank(i) <= Rank(i)'
    BY <1>1, <1>2, <2>1, PlacesFall
  <2> DEFINE bound == (IF phase = "answered" THEN page ELSE page - 1) * PageSize
  <2>3. Rank(i) >= bound
    BY <1>2 DEF WalkInv
  <2>4. bound \in Int
    BY DashboardAssumption DEF DashboardType
  <2> HIDE DEF bound
  <2>5. Rank(i)' >= bound
    BY <2>2, <2>3, <2>4
  <2> QED
    BY <2>5 DEF bound
<1>4. phase = "second" /\ "arrival" \notin between' => first = Cardinality(Matching(filter)')
  BY <1>2 DEF WalkInv
<1> QED
  BY <1>1, <1>2, <1>3, <1>4

LEMMA ListRowsKeepsWalk ==
    ASSUME DashboardType, WalkInv, ListRows
    PROVE  WalkInv' /\ WalkShowsAll'
<1>1. PICK rows \in Pages(Matching(filter), page) : shown' = shown \cup rows
  BY DEF ListRows
<1>2. /\ kind = "walk" /\ kind' = kind /\ phase = "second" /\ phase' = "answered"
      /\ filter' = filter /\ page' = page /\ first' = first /\ between' = between
      /\ edited' = edited /\ owed' = owed /\ corpus' = corpus
  BY DEF ListRows
<1>3. Matching(filter)' = Matching(filter) /\ \A i : Rank(i)' = Rank(i)
  BY <1>2 DEF Matching, Created, Stored, Rank, Before
<1>4. page \in Nat \ {0} /\ PageSize \in Nat /\ page * PageSize \in Nat
  BY DashboardAssumption DEF DashboardType
<1>5. ASSUME ~edited, NEW i \in owed \ shown'
      PROVE  i \in Matching(filter) /\ Rank(i) \in Nat /\ Rank(i) >= page * PageSize
  <2>1. i \in Matching(filter) /\ i \notin rows /\ Rank(i) >= (page - 1) * PageSize
    BY <1>1, <1>2, <1>5 DEF WalkInv
  <2>2. Rank(i) \in Nat
    BY <2>1, RankInMatching
  <2>3. Matching(filter) \in SUBSET Stored /\ IsFiniteSet(Matching(filter))
    BY MatchingFinite
  <2>4. ~(Rank(i) < page * PageSize)
    <3>1. Rank(i) = Cardinality({j \in Matching(filter) : Before(j, i)})
      BY DEF Rank
    <3> QED
      BY <1>4, <2>1, <2>3, <3>1, PageHasRows
  <2> QED
    BY <1>4, <2>1, <2>2, <2>4
<1>6. WalkInv'
  <2>1. edited => filter.rating # None
    BY <1>2 DEF WalkInv
  <2>2. ~edited => owed \subseteq Matching(filter)
    BY <1>2 DEF WalkInv
  <2> QED
    BY <1>2, <1>3, <1>5, <2>1, <2>2 DEF WalkInv
<1>7. WalkShowsAll'
  <2> SUFFICES ASSUME page >= TotalPages, "arrival" \notin between, ~edited, NEW i \in owed \ shown'
               PROVE  FALSE
    BY <1>2 DEF WalkShowsAll, TotalPages
  <2>1. i \in Matching(filter) /\ Rank(i) \in Nat /\ Rank(i) >= page * PageSize
    BY <1>5
  <2>2. first = Cardinality(Matching(filter)) /\ first \in Nat
    BY <1>2, MatchingFinite, FS_CardinalityType DEF WalkInv
  <2>3. first <= page * PageSize
    BY <2>2, LastPage
  <2>4. Rank(i) < first
    BY <2>1, <2>2, RankInMatching
  <2> QED
    BY <1>4, <2>1, <2>2, <2>3, <2>4
<1> QED
  BY <1>6, <1>7

LEMMA WalkStep ==
    ASSUME DashboardType, DashboardType', WalkInv, WalkShowsAll, [DashboardNext]_dashboardVars
    PROVE  WalkInv' /\ WalkShowsAll'
<1> SUFFICES ASSUME kind = "walk" PROVE WalkInv' /\ WalkShowsAll'
  <2>1. kind' = kind
    BY DEF DashboardNext, dashboardVars, Open, FirstStatement, ListRows, SecondStatement,
           FollowNext, Arrive, Edit, Classify
  <2> QED
    BY <2>1 DEF WalkInv, WalkShowsAll
<1>1. PageSize \in Nat /\ page \in Nat \ {0}
  BY DashboardAssumption DEF DashboardType
<1>2. ASSUME NEW f \in Filters(kind), Open(f) PROVE WalkInv' /\ WalkShowsAll'
  <2>1. /\ page' = 1 /\ ~edited' /\ owed' = Matching(f) /\ filter' = f /\ corpus' = corpus
        /\ phase' \in {"first", "refused"}
    BY <1>2 DEF Open, WalkInv
  <2>2. Matching(filter)' = Matching(f)
    BY <2>1 DEF Matching, Created, Stored
  <2>3. ASSUME NEW i \in owed' PROVE Rank(i)' >= (1 - 1) * PageSize
    <3>1. Rank(i)' \in Nat
      <4>1. Rank(i)' = Cardinality({j \in Matching(f) : Before(j, i)})
        BY <2>1, <2>2 DEF Rank, Before
      <4>2. IsFiniteSet({j \in Matching(f) : Before(j, i)})
        BY MatchingFinite, FS_Subset
      <4> QED
        BY <4>1, <4>2, FS_CardinalityType
    <3> QED
      BY <1>1, <3>1
  <2> QED
    BY <1>1, <2>1, <2>2, <2>3 DEF WalkInv, WalkShowsAll
<1>3. CASE FirstStatement
  <2>1. /\ phase = "first" /\ phase' = "second" /\ first' = Cardinality(Matching(filter))
        /\ UNCHANGED <<corpus, kind, filter, page, edited, owed, shown>>
    BY <1>3 DEF FirstStatement
  <2>2. Matching(filter)' = Matching(filter) /\ \A i : Rank(i)' = Rank(i)
    BY <2>1 DEF Matching, Created, Stored, Rank, Before
  <2> QED
    BY <2>1, <2>2 DEF WalkInv, WalkShowsAll
<1>4. CASE ListRows
  BY <1>4, ListRowsKeepsWalk
<1>5. CASE SecondStatement
  BY <1>5 DEF SecondStatement
<1>6. CASE FollowNext
  <2>1. /\ phase = "answered" /\ phase' = "first" /\ page' = page + 1
        /\ UNCHANGED <<corpus, kind, filter, edited, owed, shown>>
    BY <1>6 DEF FollowNext
  <2>2. Matching(filter)' = Matching(filter) /\ \A i : Rank(i)' = Rank(i)
    BY <2>1 DEF Matching, Created, Stored, Rank, Before
  <2>3. page' - 1 = page
    BY <1>1, <2>1
  <2> QED
    BY <2>1, <2>2, <2>3 DEF WalkInv, WalkShowsAll
<1>7. ASSUME NEW i \in Ids, NEW r \in Reviews(kind), Arrive(i, r) PROVE WalkInv' /\ WalkShowsAll'
  <2>1. /\ UNCHANGED <<kind, request, edited, owed, shown>>
        /\ phase \in {"second", "answered"} /\ Under("arrival")
    BY <1>7 DEF Arrive, Watched
  <2>2. Kept /\ \A j \in Stored : corpus'[j] = corpus[j]
    BY <1>7, ArriveShape DEF Kept
  <2>3. Matching(filter) \subseteq Matching(filter)'
    BY <2>1, <2>2 DEF Matching, Created, Kept, request
  <2>4. phase = "second" => "arrival" \in between'
    BY <2>1 DEF Under
  <2>5. edited => filter.rating # None
    BY DEF WalkInv
  <2>6. WalkInv'
    BY <2>1, <2>2, <2>3, <2>4, <2>5, WriteKeepsWalk
  <2>7. WalkShowsAll'
    BY <2>1, <2>4 DEF WalkShowsAll, Under, request, TotalPages
  <2> QED
    BY <2>6, <2>7
<1>8. ASSUME NEW i \in Ids, NEW rating \in Ratings, Edit(i, rating) PROVE WalkInv' /\ WalkShowsAll'
  <2>1. /\ UNCHANGED <<kind, request, owed, shown>> /\ edited' = (filter.rating # None)
        /\ phase \in {"second", "answered"} /\ Under("edit")
    BY <1>8 DEF Edit, Watched
  <2>2. Kept /\ Stored' = Stored /\ \A j \in Stored : corpus'[j].created = corpus[j].created
    BY <1>8, EditShape DEF Kept
  <2>3. ~edited' => ~edited
    BY <2>1 DEF WalkInv
  <2>4. filter.rating = None => Matching(filter)' = Matching(filter)
    BY <2>1, <2>2 DEF Matching, Created, request
  <2>5. "arrival" \in between => "arrival" \in between'
    BY <2>1 DEF Under
  <2>6. WalkInv'
    BY <2>1, <2>2, <2>3, <2>4, <2>5, WriteKeepsWalk
  <2>7. WalkShowsAll'
    BY <2>1, <2>3, <2>5 DEF WalkShowsAll, request, TotalPages
  <2> QED
    BY <2>6, <2>7
<1>9. ASSUME NEW i \in Ids, NEW mention \in Keys, Classify(i, mention) PROVE WalkInv' /\ WalkShowsAll'
  BY <1>9 DEF Classify
<1>10. CASE UNCHANGED dashboardVars
  <2>1. UNCHANGED <<corpus, kind, phase, filter, page, first, between, edited, owed, shown>>
    BY <1>10 DEF dashboardVars, request
  <2>2. Matching(filter)' = Matching(filter) /\ \A i : Rank(i)' = Rank(i)
    BY <2>1 DEF Matching, Created, Stored, Rank, Before
  <2> QED
    BY <2>1, <2>2 DEF WalkInv, WalkShowsAll, TotalPages
<1> QED
  BY <1>2, <1>3, <1>4, <1>5, <1>6, <1>7, <1>8, <1>9, <1>10 DEF DashboardNext

-----------------------------------------------------------------------------
(* The overview *)

LEMMA CreatedFinite ==
    ASSUME DashboardType, NEW from, NEW to
    PROVE  /\ Created(from, to) \subseteq Stored /\ IsFiniteSet(Created(from, to))
           /\ Cardinality(Created(from, to)) \in Nat
<1>1. IsFiniteSet(Stored)
  BY DashboardAssumption, FS_Subset DEF DashboardType
<1>2. Created(from, to) \subseteq Stored
  BY DEF Created
<1> QED
  BY <1>1, <1>2, FS_Subset, FS_CardinalityType

(* The days of a window partition its reviews. *)
LEMMA DaysAddUp ==
    ASSUME DashboardType, kind = "overview", NEW from, NEW to
    PROVE  LET trend == DailyTrend(from, to)
           IN  /\ SumFunction([d \in DOMAIN trend |-> trend[d].count]) = Cardinality(Created(from, to))
               /\ SumFunction([d \in DOMAIN trend |-> trend[d].stars]) = Stars(Created(from, to))
<1> DEFINE S == Created(from, to)
           trend == DailyTrend(from, to)
           day == [i \in S |-> Day(i)]
           D == {day[i] : i \in S}
           stars == [i \in S |-> corpus[i].rating]
           counts == [d \in D |-> trend[d].count]
           sums == [d \in D |-> trend[d].stars]
<1>1. IsFiniteSet(S) /\ S \subseteq Stored
  BY CreatedFinite
<1>2. \A i \in S : stars[i] \in Int
  <2>1. \A i \in Stored : corpus[i].rating \in Nat
    BY ReviewFields
  <2> HIDE DEF S
  <2>2. \A i \in S : stars[i] = corpus[i].rating
    OBVIOUS
  <2> QED
    BY <1>1, <2>1, <2>2
<1>3. IsFiniteSet(D) /\ \A i \in S : day[i] \in D
  <2> HIDE DEF S, day
  <2> QED
    BY <1>1, FiniteImage
<1>4. ASSUME NEW d \in D PROVE {i \in S : Day(i) = d} = Fiber(day, S, d)
  BY DEF Fiber
<1>5. DOMAIN trend = D /\ \A d \in D : trend[d] = Summarise(Fiber(day, S, d))
  <2>1. D = {Day(i) : i \in S}
    OBVIOUS
  <2>2. trend = [d \in D |-> Summarise({i \in S : Day(i) = d})]
    BY <2>1 DEF DailyTrend
  <2>3. \A d \in D : trend[d] = Summarise({i \in S : Day(i) = d})
    BY <2>2, Zenon
  <2>4. DOMAIN trend = D
    BY <2>2, Zenon
  <2> HIDE DEF trend, D, day, S
  <2> QED
    BY <1>4, <2>3, <2>4, Zenon DEF S
<1>6. \A d \in D : counts[d] = Cardinality(Fiber(day, S, d))
  <2>1. \A d \in D : trend[d].count = Cardinality(Fiber(day, S, d))
    <3> HIDE DEF trend, D, day, S
    <3> QED
      BY <1>5 DEF Summarise
  <2> HIDE DEF trend, D, day, S
  <2> QED
    BY <2>1
<1>7. ASSUME NEW d \in D PROVE sums[d] = SumFunctionOnSet(stars, Fiber(day, S, d))
  <2> DEFINE B == Fiber(day, S, d)  part == [i \in B |-> corpus[i].rating]
  <2>1. B \subseteq S /\ IsFiniteSet(B)
    BY <1>1, FS_Subset DEF Fiber
  <2>2. \A i \in B : stars[i] \in Int /\ part[i] = stars[i]
    BY <1>2, <2>1
  <2>3. SumFunctionOnSet(part, B) = SumFunctionOnSet(stars, B)
    <3> HIDE DEF B, part, stars
    <3> QED
      BY <2>1, <2>2, SumSame
  <2>4. sums[d] = Stars(B)
    <3> HIDE DEF trend, D, day, S, B
    <3>1. trend[d].stars = Stars(B)
      BY <1>5 DEF Summarise, B
    <3> QED
      BY <3>1
  <2>5. Stars(B) = SumFunctionOnSet(part, B)
    BY DEF Stars, SumFunction
  <2> QED
    BY <2>3, <2>4, <2>5
<1>8. /\ SumFunction([d \in DOMAIN trend |-> trend[d].count]) = SumFunctionOnSet(counts, D)
      /\ SumFunction([d \in DOMAIN trend |-> trend[d].stars]) = SumFunctionOnSet(sums, D)
      /\ Stars(S) = SumFunctionOnSet(stars, S)
  BY <1>5 DEF SumFunction, Stars
<1> HIDE DEF S, trend, day, D, stars, counts, sums
<1>9. SumFunctionOnSet(counts, D) = Cardinality(S)
  BY <1>1, <1>3, <1>6, CountOfFibers
<1>10. SumFunctionOnSet(sums, D) = SumFunctionOnSet(stars, S)
  BY <1>1, <1>2, <1>3, <1>7, SumOfFibers
<1> QED
  BY <1>8, <1>9, <1>10 DEF S, trend

LEMMA OverviewStep ==
    ASSUME DashboardType, DashboardType', OverviewInv, OverviewAddsUp, [DashboardNext]_dashboardVars
    PROVE  OverviewInv' /\ OverviewAddsUp'
<1> SUFFICES ASSUME kind = "overview", kind' = "overview" PROVE OverviewInv' /\ OverviewAddsUp'
  <2>1. kind' = kind
    BY DEF DashboardNext, dashboardVars, Open, FirstStatement, ListRows, SecondStatement,
           FollowNext, Arrive, Edit, Classify
  <2> QED
    BY <2>1 DEF OverviewInv, OverviewAddsUp
<1> DEFINE S == Created(ResolvedStart, ResolvedEnd)
<1>1. IsFiniteSet(S) /\ Cardinality(S) \in Nat
  BY CreatedFinite
<1>2. ASSUME NEW f \in Filters(kind), Open(f) PROVE OverviewInv' /\ OverviewAddsUp'
  BY <1>2 DEF Open, OverviewInv, OverviewAddsUp
<1>3. CASE FirstStatement
  <2>1. first' = Summarise(S) /\ phase' = "second" /\ S' = S /\ Summarise(S)' = Summarise(S)
    BY <1>3 DEF FirstStatement, Created, Stored, ResolvedStart, ResolvedEnd, Summarise, Stars
  <2>2. first'.count = Cardinality(S)
    BY <2>1 DEF Summarise
  <2> QED
    BY <1>1, <2>1, <2>2 DEF OverviewInv, OverviewAddsUp
<1>4. CASE ListRows
  BY <1>4 DEF ListRows
<1>5. CASE SecondStatement
  <2>1. /\ phase = "second" /\ phase' = "answered" /\ first' = first /\ between' = between
        /\ second' = DailyTrend(ResolvedStart, ResolvedEnd)
    BY <1>5 DEF SecondStatement
  <2>2. /\ SumFunction([d \in DOMAIN second' |-> second'[d].count]) = Cardinality(S)
        /\ SumFunction([d \in DOMAIN second' |-> second'[d].stars]) = Stars(S)
    BY <2>1, DaysAddUp
  <2>3. first.count <= Cardinality(S) /\ (between = {} => first = Summarise(S))
    BY <2>1 DEF OverviewInv
  <2> QED
    BY <2>1, <2>2, <2>3 DEF OverviewInv, OverviewAddsUp, Summarise
<1>6. CASE FollowNext
  BY <1>6 DEF FollowNext
<1>7. ASSUME Kept, UNCHANGED request, phase = "second", between' # {}
      PROVE  OverviewInv' /\ OverviewAddsUp'
  <2>1. phase' = "second" /\ first' = first /\ filter' = filter
    BY <1>7 DEF request
  <2>2. S \subseteq S'
    BY <1>7, <2>1, CreatedKept DEF ResolvedStart, ResolvedEnd
  <2>3. IsFiniteSet(S') /\ Cardinality(S') \in Nat
    <3>1. IsFiniteSet(Stored') /\ S' \subseteq Stored'
      BY DashboardAssumption, FS_Subset DEF DashboardType, Created
    <3> QED
      BY <3>1, FS_Subset, FS_CardinalityType
  <2>4. Cardinality(S) <= Cardinality(S')
    BY <2>2, <2>3, FS_Subset
  <2>5. first.count \in Nat /\ first.count <= Cardinality(S)
    BY <1>7 DEF OverviewInv
  <2> HIDE DEF S
  <2>6. first.count <= Cardinality(S')
    BY <1>1, <2>3, <2>4, <2>5
  <2> QED
    BY <1>7, <2>1, <2>5, <2>6 DEF OverviewInv, OverviewAddsUp, S
<1>8. ASSUME NEW i \in Ids, NEW r \in Reviews(kind), Arrive(i, r)
      PROVE  OverviewInv' /\ OverviewAddsUp'
  <2>1. Kept
    BY <1>8, ArriveShape DEF Kept
  <2> QED
    BY <1>7, <1>8, <2>1 DEF Arrive, Watched, Under
<1>9. ASSUME NEW i \in Ids, NEW rating \in Ratings, Edit(i, rating)
      PROVE  OverviewInv' /\ OverviewAddsUp'
  <2>1. Kept
    BY <1>9, EditShape DEF Kept
  <2> QED
    BY <1>7, <1>9, <2>1 DEF Edit, Watched, Under
<1>10. ASSUME NEW i \in Ids, NEW mention \in Keys, Classify(i, mention)
       PROVE  OverviewInv' /\ OverviewAddsUp'
  BY <1>10 DEF Classify
<1>11. CASE UNCHANGED dashboardVars
  <2>1. UNCHANGED <<corpus, phase, filter, first, second, between>>
    BY <1>11 DEF dashboardVars, request
  <2>2. S' = S /\ Summarise(S)' = Summarise(S)
    BY <2>1 DEF Created, Stored, ResolvedStart, ResolvedEnd, Summarise, Stars
  <2> QED
    BY <2>1, <2>2 DEF OverviewInv, OverviewAddsUp
<1> QED
  BY <1>2, <1>3, <1>4, <1>5, <1>6, <1>8, <1>9, <1>10, <1>11 DEF DashboardNext

-----------------------------------------------------------------------------
(* The summary *)

(* A review that arrives is in no count of mentions. *)
LEMMA ArrivalUncounted ==
    ASSUME DashboardType, kind = "summary", NEW i, NEW r, Arrive(i, r), NEW from, NEW to
    PROVE  CategorySentimentCounts(from, to)' = CategorySentimentCounts(from, to)
<1> DEFINE S == Created(from, to)
           Told(k) == {j \in S : corpus[j].mention = k}
           Keyed == {corpus[j].mention : j \in S} \ {None}
<1>1. /\ i \notin Stored /\ Stored' = Stored \cup {i} /\ corpus'[i].mention = None
      /\ \A j \in Stored : corpus'[j] = corpus[j]
  BY ArriveShape DEF Arrive
<1>2. S \subseteq Stored /\ S \subseteq S' /\ S' \subseteq S \cup {i}
  BY <1>1 DEF Created
<1>3. Keyed' = Keyed
  <2>1. \A j \in S : corpus'[j].mention = corpus[j].mention
    BY <1>1, <1>2
  <2> HIDE DEF S
  <2> QED
    BY <1>1, <1>2, <2>1
<1>4. ASSUME NEW k, k # None PROVE Told(k)' = Told(k)
  <2>1. \A j \in S : corpus'[j].mention = corpus[j].mention
    BY <1>1, <1>2
  <2> HIDE DEF S
  <2> QED
    BY <1>1, <1>2, <1>4, <2>1
<1>5. CategorySentimentCounts(from, to) = [k \in Keyed |-> Cardinality(Told(k))]
  BY DEF CategorySentimentCounts, Mentions
<1>6. CategorySentimentCounts(from, to)' = [k \in Keyed' |-> Cardinality(Told(k)')]
  BY DEF CategorySentimentCounts, Mentions
<1>7. \A k \in Keyed : k # None
  OBVIOUS
<1> HIDE DEF Keyed, Told
<1> QED
  BY <1>3, <1>4, <1>5, <1>6, <1>7

LEMMA SummaryStep ==
    ASSUME DashboardType, DashboardType', SummaryInv, [DashboardNext]_dashboardVars
    PROVE  SummaryInv'
<1> SUFFICES ASSUME kind = "summary", kind' = "summary" PROVE SummaryInv'
  <2>1. kind' = kind
    BY DEF DashboardNext, dashboardVars, Open, FirstStatement, ListRows, SecondStatement,
           FollowNext, Arrive, Edit, Classify
  <2> QED
    BY <2>1 DEF SummaryInv
<1> DEFINE later == CategorySentimentCounts(Now - Window, Now)
           earlier == CategorySentimentCounts(Now - 2 * Window, Now - Window)
<1> USE DEF SummaryInv
<1>1. ASSUME NEW f \in Filters(kind), Open(f) PROVE SummaryInv'
  BY <1>1 DEF Open
<1>2. CASE FirstStatement
  <2>1. first' = later /\ phase' = "second" /\ corpus' = corpus
    BY <1>2 DEF FirstStatement
  <2>2. later' = later
    BY <2>1 DEF CategorySentimentCounts, Created, Mentions, Stored
  <2> QED
    BY <2>1, <2>2
<1>3. CASE ListRows
  BY <1>3 DEF ListRows
<1>4. CASE SecondStatement
  <2>1. /\ phase = "second" /\ second' = earlier
        /\ UNCHANGED <<corpus, first, between>>
    BY <1>4 DEF SecondStatement
  <2>2. later' = later /\ earlier' = earlier
    BY <2>1 DEF CategorySentimentCounts, Created, Mentions, Stored
  <2> QED
    BY <2>1, <2>2
<1>5. CASE FollowNext
  BY <1>5 DEF FollowNext
<1>6. ASSUME NEW i \in Ids, NEW r \in Reviews(kind), Arrive(i, r) PROVE SummaryInv'
  <2>1. /\ phase = "second" /\ UNCHANGED <<phase, first>> /\ between' = between \cup {"arrival"}
    BY <1>6 DEF Arrive, Watched, Under, request
  <2>2. later' = later
    BY <1>6, ArrivalUncounted
  <2> QED
    BY <2>1, <2>2
<1>7. ASSUME NEW i \in Ids, NEW rating \in Ratings, Edit(i, rating) PROVE SummaryInv'
  BY <1>7 DEF Edit
<1>8. ASSUME NEW i \in Ids, NEW mention \in Keys, Classify(i, mention) PROVE SummaryInv'
  BY <1>8, ClassifyShape
<1>9. CASE UNCHANGED dashboardVars
  <2>1. UNCHANGED <<corpus, phase, first, second, between>>
    BY <1>9 DEF dashboardVars, request
  <2>2. later' = later /\ earlier' = earlier
    BY <2>1 DEF CategorySentimentCounts, Created, Mentions, Stored
  <2> QED
    BY <2>1, <2>2
<1> QED
  BY <1>1, <1>2, <1>3, <1>4, <1>5, <1>6, <1>7, <1>8, <1>9 DEF DashboardNext

(* A key without a row counts zero, and is mentioned by no review. *)
LEMMA CountInWindow ==
    ASSUME DashboardType, NEW from, NEW to, NEW k, k # None
    PROVE  CountIn(CategorySentimentCounts(from, to), k)
              = Cardinality({i \in Created(from, to) : corpus[i].mention = k})
<1> DEFINE S == Created(from, to)  A == {i \in S : corpus[i].mention = k}
           Keyed == {corpus[i].mention : i \in S} \ {None}
           answer == CategorySentimentCounts(from, to)
<1>1. answer = [l \in Keyed |-> Mentions(S, l)]
  BY DEF CategorySentimentCounts
<1>2. Mentions(S, k) = Cardinality(A)
  BY DEF Mentions
<1>3. k \notin Keyed => A = {}
  OBVIOUS
<1>4. DOMAIN answer = Keyed /\ (k \in Keyed => answer[k] = Mentions(S, k))
  BY <1>1, Zenon
<1> HIDE DEF answer, Keyed, A, S
<1>5. CountIn(answer, k) = Cardinality(A)
  BY <1>2, <1>3, <1>4, FS_EmptySet DEF CountIn
<1> QED
  BY <1>5 DEF answer, A, S

(* What the two windows share cancels in their difference. *)
LEMMA BorderCancels ==
    ASSUME DashboardType, NEW k
    PROVE  Cardinality({i \in Created(Now - Window, Now) : corpus[i].mention = k})
              - Cardinality({i \in Created(Now - 2 * Window, Now - Window) : corpus[i].mention = k})
           = Cardinality({i \in Stored : corpus[i].mention = k /\
                corpus[i].created \in {t \in Times : Now - Window < t /\ t <= Now}})
              - Cardinality({i \in Stored : corpus[i].mention = k /\
                corpus[i].created \in {t \in Times : Now - 2 * Window <= t /\ t < Now - Window}})
<1> DEFINE Told == {i \in Stored : corpus[i].mention = k}
           border == {i \in Told : corpus[i].created = Now - Window}
           after == {i \in Stored : corpus[i].mention = k /\
                corpus[i].created \in {t \in Times : Now - Window < t /\ t <= Now}}
           before == {i \in Stored : corpus[i].mention = k /\
                corpus[i].created \in {t \in Times : Now - 2 * Window <= t /\ t < Now - Window}}
           later == {i \in Created(Now - Window, Now) : corpus[i].mention = k}
           earlier == {i \in Created(Now - 2 * Window, Now - Window) : corpus[i].mention = k}
<1>1. /\ Now \in Nat /\ Window \in Nat \ {0} /\ Now # None
      /\ Now - Window # None /\ Now - 2 * Window # None
  BY DashboardAssumption
<1>2. \A i \in Stored : corpus[i].created \in Times /\ corpus[i].created \in Nat
  <2>1. \A i \in Stored : corpus[i] \in Reviews(kind)
    BY DEF DashboardType
  <2> QED
    BY <2>1, DashboardAssumption DEF Reviews
<1>3. later = border \cup after
  BY <1>1, <1>2 DEF Created
<1>4. earlier = border \cup before
  BY <1>1, <1>2 DEF Created
<1>5. border \cap after = {} /\ border \cap before = {}
  BY <1>1, <1>2
<1>6. IsFiniteSet(border) /\ IsFiniteSet(after) /\ IsFiniteSet(before)
  <2>1. IsFiniteSet(Stored)
    BY DashboardAssumption, FS_Subset DEF DashboardType
  <2>2. border \subseteq Stored /\ after \subseteq Stored /\ before \subseteq Stored
    OBVIOUS
  <2> QED
    BY <2>1, <2>2, FS_Subset
<1> HIDE DEF border, after, before, later, earlier
<1>7. Cardinality(later) = Cardinality(border) + Cardinality(after)
  BY <1>3, <1>5, <1>6, CountUnion
<1>8. Cardinality(earlier) = Cardinality(border) + Cardinality(before)
  BY <1>4, <1>5, <1>6, CountUnion
<1>9. Cardinality(border) \in Nat /\ Cardinality(after) \in Nat /\ Cardinality(before) \in Nat
  BY <1>6, FS_CardinalityType
<1>10. Cardinality(later) - Cardinality(earlier) = Cardinality(after) - Cardinality(before)
  BY <1>7, <1>8, <1>9
<1> QED
  BY <1>10 DEF after, before, later, earlier

LEMMA SummaryFollows == DashboardType /\ SummaryInv => SummaryIsTheDifference
<1> SUFFICES ASSUME DashboardType, SummaryInv, kind = "summary", phase = "answered",
                    between \subseteq {"arrival"}
             PROVE  SummaryIsTheDifference
  BY DEF SummaryIsTheDifference
<1> DEFINE In(k, T) == Cardinality({i \in Stored : corpus[i].mention = k /\ corpus[i].created \in T})
           Net(k) == In(k, {t \in Times : Now - Window < t /\ t <= Now})
                        - In(k, {t \in Times : Now - 2 * Window <= t /\ t < Now - Window})
<1>1. /\ first = CategorySentimentCounts(Now - Window, Now)
      /\ second = CategorySentimentCounts(Now - 2 * Window, Now - Window)
  BY DEF SummaryInv
<1>2. ASSUME NEW k, k # None PROVE Delta(k) = Net(k) /\ Delta(k) \in Int
  <2> DEFINE later == {i \in Created(Now - Window, Now) : corpus[i].mention = k}
             earlier == {i \in Created(Now - 2 * Window, Now - Window) : corpus[i].mention = k}
  <2>1. CountIn(first, k) = Cardinality(later) /\ CountIn(second, k) = Cardinality(earlier)
    BY <1>1, <1>2, CountInWindow
  <2>2. Cardinality(later) \in Nat /\ Cardinality(earlier) \in Nat
    BY CreatedFinite, FS_Subset, FS_CardinalityType
  <2>3. Cardinality(later) - Cardinality(earlier) = Net(k)
    BY BorderCancels
  <2> HIDE DEF later, earlier, Net
  <2> QED
    BY <2>1, <2>2, <2>3 DEF Delta
<1>3. \A k : k \notin Moved => Delta(k) = 0
  BY DEF Delta, Moved, CountIn
<1>4. Moved \subseteq Keys /\ IsFiniteSet(Moved)
  <2> DEFINE later == Created(Now - Window, Now)
             earlier == Created(Now - 2 * Window, Now - Window)
             told == [i \in Stored |-> corpus[i].mention]
             All == {told[i] : i \in Stored}
  <2>1. DOMAIN first = {corpus[i].mention : i \in later} \ {None}
    BY <1>1 DEF CategorySentimentCounts
  <2>2. DOMAIN second = {corpus[i].mention : i \in earlier} \ {None}
    BY <1>1 DEF CategorySentimentCounts
  <2>3. later \subseteq Stored /\ earlier \subseteq Stored /\ IsFiniteSet(Stored)
    BY CreatedFinite, MatchingFinite
  <2>4. All \subseteq Keys \cup {None}
    BY ReviewFields
  <2>5. Moved \subseteq All \ {None}
    BY <2>1, <2>2, <2>3 DEF Moved
  <2>6. IsFiniteSet(All)
    <3> HIDE DEF told
    <3> QED
      BY <2>3, FiniteImage
  <2> HIDE DEF All
  <2> QED
    BY <2>4, <2>5, <2>6, FS_Subset
<1>5. \A k \in Keys : k # None
  BY DashboardAssumption
<1> HIDE DEF Net
<1>6. \A k \in Keys : Net(k) > 0 <=> k \in Increases
  BY <1>2, <1>3, <1>5 DEF Increases
<1>7. \A k \in Keys : Net(k) < 0 <=> k \in Decreases
  BY <1>2, <1>3, <1>5 DEF Decreases
<1>8. ASSUME NEW T \in Biggest(Increases, Delta), NEW k \in Keys \ T, Cardinality(T) < TopN
      PROVE  Net(k) <= 0
  <2>1. T \subseteq Increases /\ Cardinality(T) = Min({TopN, Cardinality(Increases)})
    BY DEF Biggest
  <2>2. IsFiniteSet(Increases) /\ Cardinality(Increases) \in Nat /\ TopN \in Nat
    BY <1>4, FS_Subset, FS_CardinalityType, DashboardAssumption DEF Increases
  <2> DEFINE two == {TopN, Cardinality(Increases)}
  <2>3. Min(two) \in two
    <3>1. \E x \in two : \A y \in two : x <= y
      BY <2>2
    <3> HIDE DEF two
    <3> QED
      BY <3>1 DEF Min
  <2>4. Cardinality(T) = Cardinality(Increases)
    BY <1>8, <2>1, <2>2, <2>3
  <2>5. T = Increases
    BY <2>1, <2>2, <2>4, FS_Subset
  <2>6. ~(Net(k) > 0)
    BY <1>6, <2>5
  <2>7. Net(k) \in Int
    BY <1>2, <1>5
  <2> QED
    BY <2>6, <2>7
<1>9. \A k \in Moved : Delta(k) = Net(k)
  BY <1>2, <1>4, <1>5
<1> QED
  BY <1>6, <1>7, <1>8, <1>9 DEF SummaryIsTheDifference, Net

-----------------------------------------------------------------------------
(* The theorems *)

LEMMA DashboardInitially == DashboardInit => DashboardInv
<1> SUFFICES ASSUME DashboardInit PROVE DashboardInv
  OBVIOUS
<1>1. /\ phase = "idle" /\ page = 1 /\ edited = FALSE /\ owed = {}
  BY DEF DashboardInit
<1>2. WalkInv /\ WalkShowsAll /\ OverviewInv /\ OverviewAddsUp /\ SummaryInv
  BY <1>1 DEF WalkInv, WalkShowsAll, OverviewInv, OverviewAddsUp, SummaryInv
<1> QED
  BY <1>2, DashboardTypeInit DEF DashboardInv

(* The invariant behind the three: of each kind of request, what its first  *)
(* statement's answer still says of the rows its second will read.          *)
THEOREM DashboardInvariant == DashboardSpec => []DashboardInv
<1>1. DashboardInv /\ [DashboardNext]_dashboardVars => DashboardInv'
  <2> SUFFICES ASSUME DashboardInv, [DashboardNext]_dashboardVars PROVE DashboardInv'
    OBVIOUS
  <2>1. DashboardType'
    BY DashboardTypeStep DEF DashboardInv
  <2>2. WalkInv' /\ WalkShowsAll'
    BY <2>1, WalkStep DEF DashboardInv
  <2>3. OverviewInv' /\ OverviewAddsUp'
    BY <2>1, OverviewStep DEF DashboardInv
  <2>4. SummaryInv'
    BY <2>1, SummaryStep DEF DashboardInv
  <2> QED
    BY <2>1, <2>2, <2>3, <2>4 DEF DashboardInv
<1> QED
  BY <1>1, DashboardInitially, PTL DEF DashboardSpec

(* A reader who follows Next to its end has been shown every review that    *)
(* matched when the walk began, whatever arrived meanwhile, unless it came  *)
(* between the count and the rows of the last page or an edit took a review *)
(* out of a rating filter (ReviewReader.list_page, the pager of page.tsx).  *)
THEOREM WalkIsComplete == DashboardSpec => []WalkShowsAll
<1>1. DashboardInv => WalkShowsAll
  BY DEF DashboardInv
<1> QED
  BY <1>1, DashboardInvariant, PTL

(* The days of the overview add up to its headline, or to more when reviews *)
(* arrived between the two statements (OverviewService.get_overview).       *)
THEOREM OverviewIsConsistent == DashboardSpec => []OverviewAddsUp
<1>1. DashboardInv => OverviewAddsUp
  BY DEF DashboardInv
<1> QED
  BY <1>1, DashboardInvariant, PTL

(* The movements of the summary are the mentions after the border of its    *)
(* two windows less those before it (TrendsService.get_summary).            *)
THEOREM SummaryIsExact == DashboardSpec => []SummaryIsTheDifference
<1>1. DashboardInv => SummaryIsTheDifference
  BY SummaryFollows DEF DashboardInv
<1> QED
  BY <1>1, DashboardInvariant, PTL
=============================================================================
