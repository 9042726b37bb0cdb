--------------------------- MODULE DashboardReads ---------------------------
(***************************************************************************)
(* The read path of the dashboard: the review list and its pager, the      *)
(* overview and the trend summary.  Each answer is composed of two SELECTs *)
(* of one request (repositories/reviews.py, repositories/trends.py), and   *)
(* under READ COMMITTED each sees a snapshot of its own: ingestion inserts *)
(* and edits reviews between them, and between the requests of a walk.     *)
(*                                                                         *)
(* One client makes requests of one kind, fixed by the behaviour, and of   *)
(* the database only what that kind reads varies.  Ids are ordered as the  *)
(* uuids of reviews are; Now is the clock of the request, and a review may *)
(* be created after it.  A mention is what the current analysis of a       *)
(* review says, a (category, sentiment) pair or nothing; the job that      *)
(* writes it does not exist yet, and is external.                          *)
(***************************************************************************)
EXTENDS Integers, Sequences, FiniteSets, FiniteSetsExt, Functions

CONSTANTS
    Ids, Times, Now,
    DayLength,        \* a day of date_trunc, in units of Times
    Window,           \* DEFAULT_WINDOW and SUMMARY_WINDOW, in units of Times
    Dates,            \* the dates a client filters by
    Ratings, Keys,
    PageSize, TopN,
    None

ASSUME DashboardAssumption ==
    /\ Ids \subseteq Nat /\ IsFiniteSet(Ids) /\ Ratings \subseteq Nat
    /\ Times \subseteq Nat /\ Now \in Times /\ Dates \subseteq Times
    /\ {DayLength, Window, PageSize, TopN} \subseteq Nat \ {0}
    /\ None \notin Keys \cup Int

VARIABLES
    corpus,       \* reviews: id -> created, rating, mention; a function on the stored ids
    kind,         \* which answer this behaviour asks for
    phase,        \* of the request: idle, first, second, answered, refused
    filter,       \* rating and dates asked for
    page,
    first, second,  \* what the statements returned; the rows of a walk are in shown
    between,      \* history: kinds of write since the first statement
    edited,       \* history: a review was edited in a walk filtered by rating
    owed, shown   \* history: matching ids when the walk began, ids shown since

request == <<phase, filter, page, first, second>>
dashboardVars == <<corpus, kind, request, between, edited, owed, shown>>

AnyReview == [rating |-> None, from |-> None, to |-> None]

-----------------------------------------------------------------------------
(* The conditions of the statements *)

Stored == DOMAIN corpus

(* Both ends are included. *)
Created(from, to) ==
    {i \in Stored : /\ from # None => corpus[i].created >= from
                    /\ to # None => corpus[i].created <= to}

Matching(f) ==
    {i \in Created(f.from, f.to) : f.rating # None => corpus[i].rating = f.rating}

Before__no_tie_break(i, j) == corpus[i].created > corpus[j].created

(* ORDER BY created_at DESC, id DESC *)
Before(i, j) ==
    \/ corpus[i].created > corpus[j].created
    \/ corpus[i].created = corpus[j].created /\ i > j

(* Every order of S the ORDER BY allows: rows that tie come in any. *)
Orders(S) ==
    {o \in Bijection(1 .. Cardinality(S), S) :
        \A m, n \in 1 .. Cardinality(S) : m < n => ~Before(o[n], o[m])}

(* OFFSET and LIMIT of page p. *)
Pages(S, p) ==
    {{o[n] : n \in {n \in DOMAIN o : (p - 1) * PageSize < n /\ n <= p * PageSize}} :
        o \in Orders(S)}

Stars(S)     == SumFunction([i \in S |-> corpus[i].rating])
Summarise(S) == [count |-> Cardinality(S), stars |-> Stars(S)]
Day(i)       == corpus[i].created \div DayLength

DailyTrend__end_excluded(from, to) ==
    LET S == {i \in Created(from, to) : corpus[i].created < to}
    IN  [d \in {Day(i) : i \in S} |-> Summarise({i \in S : Day(i) = d})]

(* A row per day that had a review. *)
DailyTrend(from, to) ==
    LET S == Created(from, to)
    IN  [d \in {Day(i) : i \in S} |-> Summarise({i \in S : Day(i) = d})]

Mentions(S, k) == Cardinality({i \in S : corpus[i].mention = k})

CategorySentimentCounts__half_open(from, to) ==
    LET S == {i \in Created(from, to) : corpus[i].created < to}
    IN  [k \in {corpus[i].mention : i \in S} \ {None} |-> Mentions(S, k)]

(* A row per category and sentiment mentioned. *)
CategorySentimentCounts(from, to) ==
    LET S == Created(from, to)
    IN  [k \in {corpus[i].mention : i \in S} \ {None} |-> Mentions(S, k)]

-----------------------------------------------------------------------------
(* Requests *)

Ends == Dates \cup {None}

(* What a kind of request can read, and be asked for: a walk by rating or   *)
(* by dates, not both (a bound: conditions are conjuncts of each other).    *)
Reviews(k) ==
    [created : Times,
     rating : IF k = "summary" THEN {Min(Ratings)} ELSE Ratings,
     mention : IF k = "summary" THEN Keys \cup {None} ELSE {None}]

Filters(k) ==
    CASE k = "walk"     -> {f \in [rating : Ratings \cup {None}, from : Ends, to : Ends] :
                               f.rating = None \/ (f.from = None /\ f.to = None)}
      [] k = "overview" -> [rating : {None}, from : Ends, to : Ends]
      [] OTHER          -> {AnyReview}

DashboardInit ==
    /\ kind \in {"walk", "overview", "summary"}
    /\ \E S \in SUBSET Ids : corpus \in [S -> Reviews(kind)]
    /\ phase = "idle" /\ filter = AnyReview /\ page = 1
    /\ first = None /\ second = None
    /\ between = {} /\ edited = FALSE /\ owed = {} /\ shown = {}

(* The request is validated; "start_date must not be after end_date". *)
Open(f) ==
    /\ phase = "idle" /\ f \in Filters(kind)
    /\ LET invalid == f.from # None /\ f.to # None /\ f.from > f.to
       IN  phase' = IF invalid THEN "refused" ELSE "first"
    /\ filter' = f
    /\ owed' = IF kind = "walk" THEN Matching(f) ELSE {}
    /\ UNCHANGED <<corpus, kind, page, first, second, between, edited, shown>>

(* The window of the overview: what was not asked for is now, and a week. *)
ResolvedEnd   == IF filter.to = None THEN Now ELSE filter.to
ResolvedStart == IF filter.from = None THEN ResolvedEnd - Window ELSE filter.from

FirstStatement ==
    /\ phase = "first"
    /\ phase' = "second" /\ between' = {}
    /\ first' =
         CASE kind = "walk" -> Cardinality(Matching(filter))
           [] kind = "overview" -> Summarise(Created(ResolvedStart, ResolvedEnd))
           [] kind = "summary" -> CategorySentimentCounts(Now - Window, Now)
    /\ UNCHANGED <<corpus, kind, filter, page, second, edited, owed, shown>>

ListRows ==
    /\ kind = "walk" /\ phase = "second"
    /\ \E rows \in Pages(Matching(filter), page) : shown' = shown \cup rows
    /\ phase' = "answered"
    /\ UNCHANGED <<corpus, kind, filter, page, first, second, between, edited, owed>>

(* daily_trend of the overview; the earlier window of the summary. *)
SecondStatement ==
    /\ kind # "walk" /\ phase = "second"
    /\ second' = IF kind = "overview" THEN DailyTrend(ResolvedStart, ResolvedEnd)
                 ELSE CategorySentimentCounts(Now - 2 * Window, Now - Window)
    /\ phase' = "answered"
    /\ UNCHANGED <<corpus, kind, filter, page, first, between, edited, owed, shown>>

(* max(1, ceil(total / page_size)) of the web page. *)
TotalPages == Max({1, (first + PageSize - 1) \div PageSize})

(* The reader follows Next, which is there while pages are left. *)
FollowNext ==
    /\ kind = "walk" /\ phase = "answered" /\ page < TotalPages
    /\ phase' = "first" /\ page' = page + 1
    /\ UNCHANGED <<corpus, kind, filter, first, second, between, edited, owed, shown>>

-----------------------------------------------------------------------------
(* What goes on meanwhile: ingestion commits a run, an analysis is written. *)
(* Only writes between two statements whose answers are compared matter.    *)

Watched == phase = "second" \/ (kind = "walk" /\ phase = "answered")

Under(write) == between' = IF phase = "second" THEN between \cup {write} ELSE between

(* created_at is Google's, and a backfill brings reviews of any age. *)
Arrive(i, r) ==
    /\ Watched /\ i \notin Stored
    /\ r \in Reviews(kind) /\ r.mention = None
    /\ corpus' = [j \in Stored \cup {i} |-> IF j = i THEN r ELSE corpus[j]]
    /\ Under("arrival")
    /\ UNCHANGED <<kind, request, edited, owed, shown>>

(* upsert writes back everything but created_at. *)
Edit(i, rating) ==
    /\ Watched /\ kind # "summary" /\ i \in Stored
    /\ rating # corpus[i].rating
    /\ corpus' = [corpus EXCEPT ![i].rating = rating]
    /\ edited' = (filter.rating # None) /\ Under("edit")
    /\ UNCHANGED <<kind, request, owed, shown>>

Classify(i, mention) ==
    /\ Watched /\ kind = "summary" /\ i \in Stored
    /\ mention # corpus[i].mention
    /\ corpus' = [corpus EXCEPT ![i].mention = mention]
    /\ Under("analysis")
    /\ UNCHANGED <<kind, request, edited, owed, shown>>

DashboardNext ==
    \/ \E f \in Filters(kind) : Open(f)
    \/ FirstStatement \/ ListRows \/ SecondStatement \/ FollowNext
    \/ \E i \in Ids :
         \/ \E r \in Reviews(kind) : Arrive(i, r)
         \/ \E rating \in Ratings : Edit(i, rating)
         \/ \E mention \in Keys : Classify(i, mention)

DashboardSpec == DashboardInit /\ [][DashboardNext]_dashboardVars

-----------------------------------------------------------------------------
(* The movements of the summary, from the two answers (get_summary). *)

CountIn(answer, k) == IF k \in DOMAIN answer THEN answer[k] ELSE 0

(* A key of either period moves. *)
Moved == DOMAIN first \cup DOMAIN second
Delta(k) == CountIn(first, k) - CountIn(second, k)

Increases == {k \in Moved : Delta(k) > 0}
Decreases == {k \in Moved : Delta(k) < 0}

(* sorted(...)[:TOP_N]: the sort is stable over a set, so ties fall anyhow. *)
Biggest(S, Size(_)) ==
    {T \in SUBSET S :
        /\ Cardinality(T) = Min({TopN, Cardinality(S)})
        /\ \A k \in T, l \in S \ T : Size(k) >= Size(l)}

-----------------------------------------------------------------------------
(* Properties *)

(* A reader who follows Next to its end has been shown every review that    *)
(* matched when the walk began, whatever ingestion inserted above, below or *)
(* between the pages: an insert can repeat a row, never hide one.  Two      *)
(* things can, and are excluded: an arrival between the count and the rows  *)
(* of the last page, and an edit that takes a review out of a rating filter *)
(* (ReviewReader.list_page, the pager of app/reviews/page.tsx).             *)
WalkShowsAll ==
    (/\ kind = "walk" /\ phase = "answered" /\ page >= TotalPages
     /\ "arrival" \notin between /\ ~edited)
        => owed \subseteq shown

(* The overview's headline and the days under it tell one story: the days   *)
(* never add up to fewer reviews than the count read before them, and to    *)
(* the same reviews and the same stars if nothing was written in between    *)
(* (OverviewService.get_overview).                                          *)
OverviewAddsUp ==
    kind = "overview" /\ phase = "answered" =>
        LET count == SumFunction([d \in DOMAIN second |-> second[d].count])
            stars == SumFunction([d \in DOMAIN second |-> second[d].stars])
        IN  /\ first.count <= count
            /\ between = {} => first = [count |-> count, stars |-> stars]

(* The border instant belongs to both windows of the summary, and so to     *)
(* neither: what is reported as a movement is exactly the mentions after    *)
(* the border less those before it, a category that vanished or appeared    *)
(* included ("both are real movements, not gaps"), and the TOP_N biggest of *)
(* each sign (TrendsService.get_summary).                                   *)
SummaryIsTheDifference ==
    kind = "summary" /\ phase = "answered" /\ between \subseteq {"arrival"} =>
        LET In(k, T) == Cardinality({i \in Stored : corpus[i].mention = k /\ corpus[i].created \in T})
            Net(k) == In(k, {t \in Times : Now - Window < t /\ t <= Now})
                        - In(k, {t \in Times : Now - 2 * Window <= t /\ t < Now - Window})
        IN  /\ \A k \in Keys : Net(k) > 0 <=> k \in Increases
            /\ \A k \in Keys : Net(k) < 0 <=> k \in Decreases
            /\ \A T \in Biggest(Increases, Delta) : \A k \in Keys \ T :
                 Cardinality(T) < TopN => Net(k) <= 0
            /\ \A k \in Moved : Delta(k) = Net(k)

-----------------------------------------------------------------------------
(* Why they hold *)

DashboardType ==
    /\ kind \in {"walk", "overview", "summary"}
    /\ Stored \subseteq Ids /\ corpus \in [Stored -> Reviews(kind)]
    /\ phase \in {"idle", "first", "second", "answered", "refused"}
    /\ filter \in Filters(kind) /\ page \in Nat \ {0}
    /\ between \subseteq {"arrival", "edit", "analysis"} /\ edited \in BOOLEAN

(* The place of a review in the walk: how many match and come before it. *)
Rank(i) == Cardinality({j \in Matching(filter) : Before(j, i)})

(* Arrivals only push a review down: one not shown yet is on this page or   *)
(* below it, and below it once the page has been read.                      *)
WalkInv ==
    kind = "walk" =>
        /\ phase = "idle" => page = 1 /\ ~edited
        /\ edited => filter.rating # None
        /\ ~edited =>
             /\ owed \subseteq Matching(filter)
             /\ \A i \in owed \ shown :
                  Rank(i) >= (IF phase = "answered" THEN page ELSE page - 1) * PageSize
             /\ phase = "second" /\ "arrival" \notin between =>
                  first = Cardinality(Matching(filter))

(* A review already counted stays in the window. *)
OverviewInv ==
    kind = "overview" /\ phase = "second" =>
        LET S == Created(ResolvedStart, ResolvedEnd)
        IN  /\ first.count \in Nat /\ first.count <= Cardinality(S)
            /\ between = {} => first = Summarise(S)

(* A review that arrives mentions nothing yet: both answers are still what  *)
(* the statements would return.                                             *)
SummaryInv ==
    kind = "summary" /\ between \subseteq {"arrival"} =>
        /\ phase \in {"second", "answered"} =>
             first = CategorySentimentCounts(Now - Window, Now)
        /\ phase = "answered" =>
             second = CategorySentimentCounts(Now - 2 * Window, Now - Window)

DashboardInv ==
    /\ DashboardType
    /\ WalkInv /\ WalkShowsAll
    /\ OverviewInv /\ OverviewAddsUp
    /\ SummaryInv
=============================================================================
