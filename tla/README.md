# A verification project for reviewSignal

TLA+ modules of the parts of reviewSignal where the order of events decides
whether the result is right, TLC runs over small instances of them, and TLAPS
proofs of what holds for every instance. The code is a FastAPI application
(`apps/api`), a synchronous RQ worker (`workers`), PostgreSQL, Redis, and a
Next.js front end (`apps/web`). Line numbers in `PROJECT.json` refer to the
repository at the commit this project lies beside.

## 1. The system

PostgreSQL holds all state; Redis/RQ only transports jobs. An API request
commits a row of `jobs` and hands its id to RQ (`queue.enqueue`); a worker
process takes it and calls `runner.run_job`, which brackets a handler with
transactions on that row. Handlers talk to Google, to a local model or to the
database, each in transactions of its own. So nothing in the system is atomic
beyond one transaction, and the interesting behaviour is what happens between
two of them.

| component | state | operations | interacts with | what is hard | what makes it correct |
| --- | --- | --- | --- | --- | --- |
| **Job queue and lifecycle** `queue.py`, `runner.py`, `main.py` | the `jobs` row (status, attempt_count, error), RQ's registries | enqueue; run_job's begin, success, failure, permanent failure; RQ's retry, scheduling, abandonment | every handler; RQ in Redis | two stores written one after the other; redelivery; a worker that dies or is only believed dead; two executions of one job | the row and RQ do not contradict each other; never more runs than `max_attempts` as long as executions do not overlap; redelivery ends; every job settles |
| **Review ingestion** `services/ingestion.py`, `repositories/{reviews,sync_runs}.py`, `integrations/` | `reviews`, `sync_runs` | backfill, incremental, page fetch and mapping, upsert, finish, fail | Google's review list, which changes under the walk | edits move reviews between pages; failed and dead runs; the watermark; overlap | a successful run is complete up to its start; a row only moves forward; the run's label and counts tell the truth |
| **Google credential** `services/google_{token,connection}.py`, `repositories/credentials.py`, `jobs/ingest.py` | the one row of `source_credentials` | connect, disconnect, select location, resolve and refresh the token, reject | Google's token endpoint; ingestion; discovery requests | nobody locks the row; a refresh waits on the network between read and write | a token outlives the job it is given to; disconnecting leaves nothing; only an authorization connects |
| **Evaluation job** `jobs/evaluation.py`, `repositories/evaluation_runs.py` | `evaluation_runs` | guard, score, record, judge the conflict | job queue; metric functions | guard stale when the insert happens; two reasons for one error | one run per job; a normal return means it is recorded; no false alarm |
| **Taxonomy generation** `services/taxonomy_generation.py`, `ai/ollama.py`, `jobs/taxonomy.py` | `taxonomy_versions`, `taxonomy_nodes`, `model_runs` | sample, ask twice, record rejection, store | Ollama; job queue | numbering by max + 1; a commit before an exception; redelivery | numbers without gap or duplicate; run and version together; the rejection survives |
| **Evaluation metrics** `ai/evaluation/` | the five lists of `run_evaluation` | one turn per benchmark item; precision, recall, accuracy, Brier score and calibration error over the lists | evaluation job | bucket edges, labels only one side knows, items without any, averages over nothing | the families count the same predictions; a perfect score means a perfect predictor |
| **Dashboard read path** `services/{trends,overview,insights,reviews,taxonomy,evaluation}.py` | none | queries and aggregation, some in two statements | all tables; ingestion writes between the statements | windows that touch, a pager over a list that grows, ties, a tree from flat rows | pages hide nothing; days and headline agree; a summary is the difference of two windows; the tree is the one stored |
| **Session and OAuth state** `core/auth.py`, `api/v1/{auth,google}.py`, `middleware.ts` | signed cookies | log in, log out, start and finish the OAuth round trip | browser, credential | expiry, one use of a state | a callback completes only what this browser started |
| **Settings, system, health** | key/value rows | single statements | - | little | - |
| **Database schema** `db/models.py`, `migrations/` | tables, constraints, the revision applied | seven revisions up and down, over rows the program stored | every repository | a script meets rows that the older schema cannot hold; keys a compiler drops silently; `ON DELETE` | every script applies; the revision determines the schema; the head is `db/models.py` |
| **Web front end, developer tools** | none | fetch, format | API | no state of its own | not modelled |

## 2. The modules

| module | models | main correspondence |
| --- | --- | --- |
| `JobQueue` | `enqueue`, `run_job`, RQ as its consumers see it | `rows` = the jobs table, `redis` = per job RQ's hash (`transport`, `retriesLeft`), its ids in the queue, its entry in the scheduled registry and the entries of dead workers, `pc/task/attempt` = line, job and captured attempt number per worker, `left/registered` = the worker's own copy of the retries left and whether RQ still lists its execution |
| `JobLifecycle` | what the docstring of `runner.py` promises of the row alone | the abstract specification `JobQueue` is checked to implement (`LifecycleSpec`: INSTANCE with `status` and `attempts` of the table, everything of RQ and the workers hidden) |
| `SyncIngestion` | `IngestionService`, `upsert`, the watermark | `src` = the source's current versions, `stored`, `runs` = the tables, the other variables are the locals of `_run` per process |
| `GoogleCredential` | every reader and writer of `source_credentials` | `row`, and per process the row as it was read (`snap`), the answer in flight and the job's deadline |
| `EvaluationRecording` | `evaluation_run` under redelivery | `byJob`, `orphaned` = rows of `evaluation_runs` with and without `job_id` |
| `TaxonomyGeneration` | `taxonomy_generate` under redelivery | `versions`, `accepted`, `rejected` = the two tables, `number` = the version number in hand |
| `EvaluationMetrics` | `run_evaluation` and `ai/evaluation/metrics` | the variables are its five lists, the metrics operators over them with the source's names |
| `DatabaseModels` | `db/models.py` | a table is its columns, required columns, unique sets and foreign keys |
| `SchemaMigrations` | `migrations/versions`, `env.py`, pruning | `db` = schema, tables with a row, nullable columns that are filled; a revision is two sequences of statements, `Outcomes` what PostgreSQL makes of one; `SchemaOf(n)` is the schema of revision `n` in closed form, `MigrationInv` the inductive invariant |
| `DashboardReads` | review list and its pager, overview, trend summary | `corpus` = the reviews, `first`, `second` = what the two statements of a request returned |
| `TaxonomyTree` | `_unique_slug`, `_store_nodes`, `list_nodes`, `_build_tree` | `rows` = `taxonomy_nodes`, `listing` = their order in a query, `attached` = `children_by_parent` |
| `MC*` | - | constants and symmetry for TLC; `MCEvaluation` puts `EvaluationRecording` beside `EvaluationMetrics`, `MCDatabase` the three modules above beside each other, a behaviour being one of either |
| `FiniteSums` | - | induction over numbers and lemmas about sums over finite sets, which the proofs about metrics, dashboard, taxonomy tree and migrations share |
| `JobQueue_proofs`, `SyncIngestion_proofs`, `GoogleCredential_proofs`, `Evaluation_proofs`, `Taxonomy_proofs`, `DashboardReads_proofs`, `SchemaMigrations_proofs` | - | theorems, see section 4; `Taxonomy_proofs` is about `TaxonomyGeneration` and `TaxonomyTree`, `Evaluation_proofs` is about `EvaluationRecording` and `EvaluationMetrics`, `JobQueue_proofs` also about `JobLifecycle` |

Conventions. A step is a transaction or a request to another system. Where a
transaction reads, works with what it read and writes, and another process can
commit in between, it is two steps (`...Read`, `...Commit`; `Absorb`,
`CommitPage`). SQLAlchemy writes the columns whose value differs from the one
read: `Assign`, `Written` and line `reopened` of `JobQueue` are that rule, not
the assignment as it stands in the code. A definition named `X__slip` is `X`
with one plausible mistake; no specification uses it, it serves to show that
a property can fail.

### Composition

`JobQueue` leaves the handler open (it returns, raises or raises permanently),
so its results hold for every handler. `EvaluationRecording` and
`TaxonomyGeneration` leave the schedule open (any execution may start on any
job that RQ may still deliver, overlap another and die), so theirs hold for
every queue. `SyncIngestion` starts runs at any time for the same reason. The
assumption of one side is the guarantee of the other. `DashboardReads` composes
its readers with the writes ingestion commits (`Arrive`, `Edit`), and
`SchemaMigrations` its scripts with the rows any part of the program stores.

## 3. The runs

| run | question | bounds and why they are enough |
| --- | --- | --- |
| `JobQueue_scheduled` | Do row and queue agree, is a terminal status final, does the row follow `JobLifecycle`, does every job settle? | two jobs with 2 and 3 attempts, two workers: first, middle and last attempt all occur, and jobs and workers outnumber neither each other |
| `JobQueue_faults` | Does the attempts budget hold while executions do not overlap, and does redelivery end when they do? | one job with 3 attempts, two workers; 2 failed transactions, 1 crash, 1 lost heartbeat, 1 lost hand-off: a heartbeat lost once makes two executions of one job, each with its own copy of the retries left, that raise, return, die and commit in either order |
| `JobQueue_no_scheduler` | Does every job settle as `main.py` deploys the worker? **No** | as `JobQueue_scheduled` |
| `Sync_walk` | Is the watermark sound, is a row never taken back, does the analysis status follow the text? | two reviews on pages of one, so that every edit changes pages; four contents: a text, none, one without a rating, a malformed one; six stamps for posts, edits and two runs, so the second stops at the watermark of the first or starts again after it failed; a failing step and a crash |
| `Sync_two_workers` | Are labels and counts of overlapping runs true, does each run end? | two slots, two runs, one fault, one crash |
| `Sync_partial` | Did a `partial` run store something? **Not always** | one fault |
| `Credential_overlap` | Is the skew enough, does only an authorization connect? | two admin requests, one job, two grants, five units of time with a lifetime of four, one unit each for a job, an answer and a commit and a skew of three: a token is issued, nears its end, is reused and would end under the job. With a skew of two it does: a reconnection without `expires_in` keeps the expiry of a refresh that committed between its SELECT and its UPDATE |
| `Credential_disconnect` | Does disconnecting leave nothing behind? **No** | one admin request, a job, a discovery call |
| `Evaluation_job` | One run per job, no false alarm? Do the metric families agree, do buckets partition, is a perfect score perfect? | three executions of two jobs; a conflict takes two, pruning the job under a third execution the rest. Two items over two categories and two sentiments, predictions of up to two aspects, confidences 1/4, 1/2 and 1 in two buckets: a value on the inner edge, on the outer edge and on none; items without label and labels of one side only occur |
| `Taxonomy_overlap` | Numbers, runs and rejections | two jobs, three executions, three versions; jobs that settled may be delivered again |
| `Taxonomy_redelivery` | One version per job? **No** | one execution at a time, no redelivery but that of a job that has not settled |
| `Database` | Does every migration apply up and down, is the head the models, does pruning spare history? What does an answer of two statements guarantee? Is the tree the model's reply? | migrations: all seven revisions, at most one row in each of ten tables that keys or NULLs relate (no row refers to one of `review_aspects` or `taxonomy_changes`, which stay empty), enough for each precondition of a script to fail if the script were wrong. Requests: three reviews, times 0..3 with the request at 2, pages of two, one kind of request per behaviour, windows of one, two dates, the largest mover only (`TopN = 1`): two pages, equal times, the border instant and a time after the request all occur. Tree: two categories with two children each out of three names of which one is another with a suffix |

### What the failing runs show

* `JobQueue_no_scheduler`: `main.py:15` starts a worker without a scheduler and
  nothing else starts one. All retry intervals are positive (`queue.py:25`), RQ
  parks such a retry in its scheduled registry, and nobody moves it back. The
  first ordinary failure of a job with attempts left is its last event; the
  row stays `failed`. `docs/subsystems.md:86` promises retry and dead letter.
* `Sync_partial`: `_fail` labels by counts that include the page it has just
  rolled back, so a run that kept nothing can say `partial` with rows created.
* `Credential_disconnect`: `_refresh` writes the token it was granted without
  looking at the row again; the admin disconnected meanwhile, and ciphertext
  stays behind a `disconnected` row.
* `Taxonomy_redelivery`: a crash after the handler's commit and before
  `_record_success` makes RQ deliver the job again, and a second candidate is
  stored. `jobs/taxonomy.py:3-6` considers only a crash before the commit.

More observations came out of the same models with other constants. They
are not runs. In `JobQueue`, once RQ has taken a live worker's job for abandoned
(a heartbeat lost), the requeued execution and the old one both retry, each from
the count it loaded: with `max_attempts = 3` and one lost heartbeat
`attempt_count` reaches 6, a job may be queued twice, and one dead-lettered for
exhausted attempts may be run again. That is why `AttemptsBudget` and
`ExhaustedStaysDown` are said of jobs whose heartbeats were kept
(`NeverOvertaken`), and `QueueDrains` of all. In `GoogleCredential` a
reconnection that took longer from SELECT to COMMIT than the skew allows could
leave its token beside a later refresh's expiry, and a job would be given a token
about to end; nothing in the code bounds that transaction. With `Skew = 1` (the worker's clock ahead of Google's)
`WatermarkComplete` fails, because `_absorb` compares a time of one clock with a
time of the other. With two `Slots` (one worker runs in `docker-compose.yml`, so
this takes a second one) it fails because `upsert` has no guard on `updated_at`
and the slower sync writes the older version; and `AnalysisAgrees` fails: one
sync stores that a text was removed and sets `skipped`; the other, which read the
row before, stores a new text and sets `pending`, which is what it had read and so
is not written, and a text stays with `skipped`. After a crash in the last attempt of a job
nothing in `JobQueue` ever changes `running` again. And `WalkShowsAll` and
`OverviewAddsUp` name in their premises what does break an answer: an arrival
between the count and the rows of the last page, and an edit that takes a review
out of a rating filter, can each hide one review from a walk.

### Fairness

`JobQueue`: weak fairness of the hand-off after the row's commit, of delivery,
of a worker's own steps, of RQ's clean-up of abandoned jobs, and of the
scheduler when there is one: processes that loop. None of a crash, a lost
heartbeat, a failed transaction, a lost hand-off, or a submission.
`SyncIngestion`: weak fairness of `Walk(s)`, the loop of `_run`; none of edits,
failures, crashes or the start of a run. The source is finite and `MaxTime`
bounds the edits during a walk; with unboundedly many edits a walk may in
principle be pushed back for ever, as the code allows. `JobLifecycle` states weak
fairness of `Start` and `End` per job. The other modules state safety only and
assume no fairness. Deadlock checking is off where the system may come
to rest: all jobs finished, or the bounds on runs and stamps spent.

## 4. What is proved

| theorem | statement | argument |
| --- | --- | --- |
| `JobQueue_proofs!TypeCorrect` | `Spec => []TypeOK` | per action |
| `JobQueue_proofs!QueueInvariant` | `Spec => []QueueInv` | see below |
| `JobQueue_proofs!AttemptsWithinBudget` | `attempt_count` never exceeds `max_attempts`, for a job no heartbeat of which was lost | from `QueueInv` |
| `JobQueue_proofs!ExhaustedIsFinalForQueue` | such a job, dead-lettered as exhausted, is never queued again | inductive relative to `QueueInv` |
| `JobQueue_proofs!FaultlessAgreement`, `FaultlessTerminal` | `RowAgreesWithQueue`, `TerminalIsFinal` | `Story` is inductive; assumes `Faultless` |
| `JobQueue_proofs!FollowsLifecycle` | every initial state and step of `JobQueue` is one of `JobLifecycle` or a stutter | from `Story`, per action; assumes `Faultless` |
| `SyncIngestion_proofs!TypeCorrect` | `Spec => []TypeOK` | per action |
| `SyncIngestion_proofs!SuccessCountsAreExact`, `FailedRunsKeptNothing` | the counts and the label `failed` are true | `CountInv` is inductive |
| `SyncIngestion_proofs!OneSlotAnalysisAgrees`, `OneSlotWritesNews` | a row waits for analysis iff it has a text; a row only moves forward | `PageInv`; assumes `OneSlot` |
| `SyncIngestion_proofs!OneSlotInvariant`, `OneSlotWatermark` | the watermark is sound | `OneSlotInv`; assumes `OneSlot` and `Skew = 0` |
| `Evaluation_proofs!RecordingInvariant`, `OneRunPerJobHolds`, `ReturnLeavesRun`, `ConflictIsJudgedRight` | one run per job; a return means recorded; the re-raised error means the job is gone | `RecordingInv` is inductive |
| `Taxonomy_proofs!StorageInvariant`, `NumbersAreContiguous`, `RunAndVersionTogether` | numbers are `1..n`, successful model runs and versions correspond | `NumberingInv` with cardinalities |
| `Taxonomy_proofs!RejectionIsTraced` | a job failed by a rejected reply left its rejected run | `TraceInv` |
| `GoogleCredential_proofs!CredentialInvariant`, `SkewIsEnough`, `LateRefreshConnectsNothing` | the token outlives the job; only an authorization connects | `CredentialInv` |
| `Evaluation_proofs!ScoringInvariant` | the five lists of `run_evaluation` keep three counts equal | `ScoringInv` is inductive, one turn of the loop |
| `Evaluation_proofs!FamiliesDescribeOneSet` | the three metric families count the same predictions | pairs of item and label, counted in two ways |
| `Evaluation_proofs!BucketsArePartition` | every prediction is in exactly the bucket the docstring says | arithmetic of `bisect_right` on the edges |
| `Evaluation_proofs!CalibrationIsBounded` | the squared calibration error is at most the Brier score | Cauchy-Schwarz, once over buckets and once in each |
| `Evaluation_proofs!PerfectIsPerfect` | perfect scores mean a perfect predictor, and conversely | a mean of one has no term below one |
| `DashboardReads_proofs!DashboardInvariant`, `WalkIsComplete` | a reader who follows the pager to its end has been shown every review, with the exceptions the property names | `DashInv` is inductive |
| `DashboardReads_proofs!OverviewIsConsistent` | the days add up to the headline, or to more if reviews arrived between the two statements | fibers of the review dates |
| `DashboardReads_proofs!SummaryIsExact` | the trend summary is the difference of two windows | what both statements counted, less the border instant |
| `Taxonomy_proofs!TreeInvariant`, `TreeShowsReply` | the tree shown is the reply: every name, in order, under its category; a version is refused only for a name as long as the column | `TreeInv` is inductive |
| `SchemaMigrations_proofs!MigrationInvariant` | the schema is that of the revision; a filled reference has its row | `MigrationInv` is inductive |
| `SchemaMigrations_proofs!RevisionDeterminesSchema` | no way up and down the chain changes the schema of a revision | the upgrades on an empty database reach `SchemaOf` |
| `SchemaMigrations_proofs!HeadIsModels` | the head is `db/models.py` | `SchemaOf(7) = Models`, field by field |
| `SchemaMigrations_proofs!MigrationsApply` | no script is refused, whatever the rows | one trace per script |
| `SchemaMigrations_proofs!HistoryIsSpared` | pruning takes nothing retained; a job can be pruned from revision 5 on | the keys on prunable tables |

All hold for every value of the constants that satisfies the named assumptions:
any finite number of jobs, workers, executions and requests, any fault budget,
any timing with `JobTimeout + RequestTimeout + CommitTimeout <= ExpirySkew` and
`JobTimeout < Lifetime` (180 s + 30 s + up to 90 s against 300 s, and 180 s
against an hour),
any taxonomy, benchmark and sequence of predictions, any corpus, page size and
window, any reply with any names, rows in any of the tables. The assumptions of these last modules say that
categories and sentiments are finite sets, that `None` is no key and no number,
and that a name is a sequence of words.
Three theorems need more than the modules assume, and say so in their statement:
`Faultless` (no failing transaction, crash or lost heartbeat; hand-offs to Redis
may still be lost, and a scheduler may run or not), `OneSlot` (one sync at a
time) and `Skew = 0` (clocks that agree). Section 3 says what happens without.

**The attempts budget.** That attempts stay within the limit is not inductive: an
execution that has read `attempt_count` may commit it much later.
`WithinBudget` adds to the attempts in the row, and to those captured by an
execution, the deliveries still possible (an execution that has not read yet,
RQ's retries, the job itself if it waits), and this sum never exceeds
`max_attempts`. Every step moves a unit from one summand to another.
`OneDelivery` says that RQ knows a job in one place at most (waiting, left behind
by a dead worker, or in one worker, whose copy of the count is up to date).
Crashes, failed transactions and lost hand-offs keep both; a lost heartbeat
breaks `OneDelivery` at once, and RQ has no check that would restore it, so both
are said of jobs that are `NeverOvertaken`.

**The row and the queue.** Without faults a job waits, runs in exactly one
worker, or is done with (`JobStory`, `WorkerStory`). The row counts attempts,
RQ counts retries left, and the two always add up to `max_attempts`, with one
more for a delivery not counted yet (`Ahead`, `Spent`). So run_job sees its last
attempt exactly when RQ has no retry left, which is `RowAgreesWithQueue`; and
since no second worker holds the job, what a step reads from the row is what it
writes over, which makes every commit one of `JobLifecycle`'s.

**The walk.** `CountInv` ties what a run has counted to what it has written
and to the page it holds, for each step a sync can be at; a rolled-back page is
still counted, which is why nothing is claimed of `partial`. With one sync,
`PageInv` orders the three copies of a review: the row is not ahead of the page,
nor the page of the source (`Behind`: older, or the same). `WalkInv` says of
every review the run must have when it succeeds (`Due`) that it lies ahead of
the cursor, or in the page in hand as it is, or behind the page and older than
all of it. An edit that moves a review to the front stamps it after the run's start, so it
is no longer due, and it only pushes others away from the cursor, never over it.
A walk may stop early for two reasons: no page follows, or a review of the page
is not newer than the watermark; then what lies behind is older still, and the
successful run that gave the watermark has already stored it.

**The credential.** `token_expires_at` is dated by the process that received
the answer, so it may lie up to one request timeout after the real end. And the
two columns may come from different processes: Google's answer may lack the
token, its lifetime, or both, and SQLAlchemy does not write a column that was
NULL as read and is NULL again, so what another process committed in between
stays. `ExpiryInv` says that even then the expiry is at most `Late` after the
token's end, `Late` being a request and the commit of its answer. `UpsertInv` is
what a reconnection on its way must guarantee for that: its own token is at most
`Late` old, so no expiry in the row can be later than that, and its own expiry is
not far beyond any token stored since it read NULL. `DeadlineInv` then bounds
a job's end by the end of its token: at load by the skew, after a refresh by the
lifetime. The last link is the queue's, not the credential's: a job resolves its
token once (`jobs/ingest.py`), although `google_token.py:4-6` calls refreshing
mid-run a requirement, and it is RQ's 180 s limit that ends it in time.

**The evaluation run.** `ConflictHasReason` remembers why an insert was
refused: the job's run exists, or the job does not. Pruning turns the first
into the second, and the second read separates them.

**The numbering.** `HeldNumber`: a number in hand was the next one when it was
read, so it is taken by now or still the next one.

**Sums and counts.** The provers cannot instantiate an induction theorem, which
takes an operator, so `FiniteSums` proves the one induction it needs for a *set*
`P` of numbers (`CountUp`, from the well-founded order of `Nat`) and reaches
everything else with it: that the recursion behind `FoldFunction` has a function
that satisfies it, that a sum does not depend on the order of its terms, that it
adds and multiplies out, is monotone, and that counting a set by the values of a
function on it (`Fiber`) gives its cardinality.

**The metrics.** `run_evaluation` appends to its lists in an order that depends
on the sets of an item, so the invariant speaks of lengths and hits only: as many
sentiments as category hits, as many confidences as predicted labels, as many
correct verdicts as agreeing sentiments. `classification.py` then counts true
positives per label and per item, which are the same pairs of item and label.
The calibration error is bounded by the Brier score because the weighted mean of
a square is at least the square of the mean; the buckets may be any number, as
long as every prediction is in one. A macro F1 of one is a micro F1 of one because
the mean runs over every label that gold or prediction names: no term exceeds
one, so none is below it, and a category invented or missed would be.

**The pager.** Offsets count positions, so the invariant ranks a review by how
many others come before it (`created_at`, then `id`). An arrival in front moves
every rank behind it by one, which shows a review twice but hides none; a review
leaves a filter only by an edit. A page holds the ranks of its offsets, and the
walk ends when the total read with a page says no rank lies behind it (`WalkInv`).

**The tree.** `Planned` is the order of the two loops of `_store_nodes`. It is a
flattened sequence, so first there is a proof that flattening gives every place
of every category once, in order. Then each row stored is the node of its place,
its parent the row of its category (`RowsFollowPlan`), the listing sorts by depth
and place (`ListingInOrder`), and what `_build_tree` has attached is what it has
met, under its own parent, in order (`AttachedInOrder`): a parent has the smaller
depth, so it is met first, and two siblings never tie. `UniqueSlug` finds a free
suffix because there are more candidates than rows, and one that is free cannot
collide, so only the length of a name can refuse a version.

**The migrations.** `DataTables`, the tables that may hold a row, is the one
constant. A script is run statement by statement: `Outcomes` is a recursive
function of its length, and `Trace` says that a sequence of databases, each the
accepted effect of the next statement on the one before, ends in its one
outcome. The two scripts of the baseline, of 14 statements each, are followed by
induction over the tables: a table is created after the ones its keys refer to,
and dropped before them. The later scripts are one to three statements on one
or two tables. Whether PostgreSQL accepts a statement depends on the rows in
two ways: a new key must find the rows referred to, and `SET NOT NULL` no NULL.
The first is why `MigrationInv` carries more than the schema. `Fit` says that a filled reference has its row at *every*
revision: before `e2b7c4a91f36` no key enforces that for
`model_runs.taxonomy_version_id` or `taxonomy_versions.generation_model_run_id`,
but the program stores ids it has read, and neither table is ever pruned.
`evaluation_runs.job_id` cannot be filled before its column exists. A prune keeps
`Fit` because a reference to a prunable table has its key at every revision that
has the column, and each kind of key then clears, removes or refuses. The
cascade of a prune is a recursive function as well; it ends after one round,
because the only cascading key on a prunable table is that of
`insight_actions`, and nothing refers to those.

Left to TLC: everything with fairness (`Settles`, `QueueDrains`, `RunEnds`, the
liveness part of `LifecycleSpec`) and ENABLED, which the prover does not handle.
Every other property of a passing run is proved. No module uses a RECURSIVE
operator.

## 5. What is abstracted or left out

* RQ and Redis: a job's hash, its places in the queue and the registries, moved
  by the transitions a consumer observes, each in one step. RQ's own crashes
  while moving a job are the crash of the worker. That a worker acts on the copy
  of the hash it loaded, and does not ask whether its execution is still listed,
  is taken from RQ 2, which is not part of the repository.
* A review's rating, reviewer, reply and text are one `text`; that an upsert
  compares each of them is `Differs`. Two contents stand for what the mapping
  drops or refuses. HTTP status codes, URLs, quotas: any request may fail.
* Encryption, scopes, account ids: a token is a grant and an end.
* Prompts, slugs and the contents of a taxonomy: any reply may satisfy the
  schema or not. A name longer than its column is an ordinary failure.
* Evaluation metrics: exact rationals instead of floats, so rounding is out; a
  confidence is one of a few fractions; the file format and the registry lookup
  of predictors are left out.
* Dashboard: a review has at most one mention, the clock of a request is fixed,
  and a behaviour asks for one kind of answer. Answers of one statement
  (insights, evaluation runs, rating and category trends, detail routes) are one
  snapshot, and are not modelled. The job that writes classifications does not exist in the
  code yet; what the summary reads of it is external.
* Schema: column types, server defaults, check constraints and plain indexes
  are left out; a table has one row or none.
* Sessions and the OAuth state: a signed expiry or one string in a cookie,
  compared once per request. The server keeps nothing, so no two steps share a
  state, and a model would restate the comparison.
* Settings, system, health: single statements. Web front end: fetches and
  formats, except the pager, which is in `DashboardReads`. Developer tools touch
  no running system.

## 6. What is left

* The composition of `JobQueue` with the ingestion handler, for two durations:
  a `SourceNotConnectedError` is retried though nothing can change until an
  admin reconnects, and a backfill longer than RQ's time limit starts from the
  first page on each attempt.
* The routes in front of `GoogleCredential!Exchange`: which browser may complete
  an authorization.
