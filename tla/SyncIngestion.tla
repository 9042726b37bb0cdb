---------------------------- MODULE SyncIngestion ----------------------------
(***************************************************************************)
(* IngestionService (services/ingestion.py) over a source that keeps       *)
(* changing: a sync run walks the source page by page, newest change       *)
(* first, upserts what it reads and stops at the start time of the last    *)
(* successful run.  Whether `reviews` ends up complete depends on edits    *)
(* that move reviews between pages during the walk, on runs that fail,     *)
(* crash or overlap, and on comparing two clocks.                          *)
(*                                                                         *)
(* A slot is a process executing at most one sync job at a time.  Its      *)
(* steps are the code's transactions and source requests; the transaction  *)
(* that stores a page is split at the point where upsert has read the      *)
(* existing rows and its writes are not committed yet.                     *)
(*                                                                         *)
(* Time advances by one with every stamp (an edit at the source, the start *)
(* of a run), so that no two stamps of one clock are equal.                *)
(***************************************************************************)
EXTENDS Integers, FiniteSets

CONSTANTS
    Reviews,            \* reviews of the connected location
    Slots,              \* processes that may execute a sync job
    Contents,           \* what a version of a review may hold: texts, and ...
    NoText,             \* ... no comment,
    Unrated,            \* ... no usable starRating, which the mapping drops,
    Malformed,          \* ... no createTime or a bad date, which it refuses
    PageSize,
    Skew,               \* how far the worker's clock is ahead of the source's
    MaxTime, MaxRuns,   \* bounds on stamps and on sync runs
    MaxFaults, MaxCrashes

ASSUME SyncAssumption ==
    /\ IsFiniteSet(Reviews) /\ IsFiniteSet(Slots)
    /\ NoText # Unrated /\ NoText # Malformed /\ Unrated # Malformed
    /\ PageSize \in Nat \ {0}
    /\ Skew \in Nat /\ MaxTime \in Nat /\ MaxRuns \in Nat
    /\ MaxFaults \in Nat /\ MaxCrashes \in Nat

VARIABLES
    now,        \* time of the last stamp
    src,        \* the source: current version of every review
    stored,     \* the reviews table
    runs,       \* the sync_runs table
    pc, mode, stop, run, cursor, got, last, seen, outcome,  \* per slot: _run's locals
    faults, crashes

source == <<now, src>>
slot   == <<pc, mode, stop, run, cursor, got, last, seen, outcome>>
vars   == <<source, stored, runs, slot, faults, crashes>>

RunIds == 1..MaxRuns

(* at = 0 is a review not posted yet, a row that does not exist. *)
Version == [at : Nat, text : Contents \cup {NoText}]
Row     == [at : Nat, text : (Contents \cup {NoText}) \ {Unrated, Malformed},
            analysis : {"pending", "skipped"}]
Run     == [status : {"none", "running", "success", "partial", "failed"},
            started : Nat, stored : Nat, kept : Nat]
Empty   == [x \in {} |-> x]

NotPosted == [at |-> 0, text |-> NoText]
NoRow     == [at |-> 0, text |-> NoText, analysis |-> "skipped"]
NoRun     == [status |-> "none", started |-> 0, stored |-> 0, kept |-> 0]

Init ==
    /\ now = 0
    /\ src = [r \in Reviews |-> NotPosted]
    /\ stored = [r \in Reviews |-> NoRow]
    /\ runs = [k \in RunIds |-> NoRun]
    /\ pc = [s \in Slots |-> "idle"]
    /\ mode = [s \in Slots |-> "backfill"]
    /\ stop = [s \in Slots |-> 0]
    /\ run = [s \in Slots |-> 0]
    /\ cursor = [s \in Slots |-> 0]
    /\ got = [s \in Slots |-> Empty]
    /\ last = [s \in Slots |-> FALSE]
    /\ seen = [s \in Slots |-> Empty]
    /\ outcome = [s \in Slots |-> 0]
    /\ faults = 0 /\ crashes = 0

-----------------------------------------------------------------------------
(* The source (Google Business Profile), external: a review is posted or    *)
(* edited, which stamps its updateTime; it is listed by updateTime desc,    *)
(* and a page token stands for a position in that list.                     *)

Edit(r, text) ==
    /\ now < MaxTime
    /\ now' = now + 1
    /\ src' = [src EXCEPT ![r] = [at |-> now', text |-> text]]
    /\ UNCHANGED <<stored, runs, slot, faults, crashes>>

Posted      == {r \in Reviews : src[r].at > 0}
Newer(r)    == {q \in Posted : src[q].at >= src[r].at}
Position(r) == Cardinality(Newer(r))

Page(from)   == {r \in Posted : Position(r) > from /\ Position(r) <= from + PageSize}
IsLast(from) == \A r \in Posted : Position(r) <= from + PageSize

NextCursor__stuck(from) == from

(* iter_pages asks for the page after the one it got. *)
NextCursor(from) == from + PageSize

-----------------------------------------------------------------------------
(* Variants named Definition__slip carry one plausible slip each; no        *)
(* specification uses them.                                                 *)
Mappable__lenient(v) == v.text # Malformed

Mappable(v) == v.text \notin {Unrated, Malformed}

Goto(s, line) == pc' = [pc EXCEPT ![s] = line]

(* incremental reads the last successful run's start; backfill has none. *)
LastSuccessful__any ==
    {runs[k].started : k \in {i \in RunIds : runs[i].status \in {"success", "partial"}}}

LastSuccessful ==
    {runs[k].started : k \in {i \in RunIds : runs[i].status = "success"}}

Watermark(m) ==
    IF m = "backfill" \/ LastSuccessful = {} THEN 0
    ELSE CHOOSE t \in LastSuccessful : \A u \in LastSuccessful : u <= t

ReadWatermark(s, m) ==
    /\ pc[s] = "idle"
    /\ \E k \in RunIds : runs[k].status = "none"
    /\ mode' = [mode EXCEPT ![s] = m]
    /\ stop' = [stop EXCEPT ![s] = Watermark(m)]
    /\ Goto(s, "start")
    /\ UNCHANGED <<source, stored, runs, run, cursor, got, last, seen, outcome, faults, crashes>>

(* SyncRunRepository.start and its commit. *)
StartRun(s) ==
    /\ pc[s] = "start"
    /\ now < MaxTime
    /\ \E k \in RunIds :
        /\ runs[k].status = "none"
        /\ \A i \in 1..(k - 1) : runs[i].status # "none"
        /\ run' = [run EXCEPT ![s] = k]
        /\ now' = now + 1
        /\ runs' = [runs EXCEPT ![k] =
                [status |-> "running", started |-> now' + Skew, stored |-> 0, kept |-> 0]]
    /\ cursor' = [cursor EXCEPT ![s] = 0]
    /\ outcome' = [outcome EXCEPT ![s] = 0]
    /\ Goto(s, "fetch")
    /\ UNCHANGED <<src, stored, mode, stop, got, last, seen, faults, crashes>>

(* fetch_page maps every entry: one that is malformed raises, one without a *)
(* rating is dropped from the page.                                         *)
FetchPage(s) ==
    /\ pc[s] = "fetch"
    /\ IF \E r \in Page(cursor[s]) : src[r].text = Malformed
       THEN /\ Goto(s, "failing")
            /\ UNCHANGED <<got, last>>
       ELSE /\ got' = [got EXCEPT ![s] =
                        [r \in {q \in Page(cursor[s]) : Mappable(src[q])} |-> src[r]]]
            /\ last' = [last EXCEPT ![s] = IsLast(cursor[s])]
            /\ Goto(s, "absorb")
    /\ UNCHANGED <<source, stored, runs, mode, stop, run, cursor, seen, outcome, faults, crashes>>

(* _absorb goes through a page until it meets the watermark. *)
News(s)      == {r \in DOMAIN got[s] : got[s][r].at > stop[s]}
Exhausted(s) == \E r \in DOMAIN got[s] : got[s][r].at <= stop[s]

Differs(row, v) == row.text # v.text \/ row.at # v.at
Counted__all(s, S) == Cardinality(S)

Counted(s, S)   == Cardinality({r \in S : Differs(stored[r], got[s][r])})

(* upsert reads each existing row and counts what it is about to do. *)
Absorb(s) ==
    /\ pc[s] = "absorb"
    /\ seen' = [seen EXCEPT ![s] = [r \in News(s) |-> stored[r]]]
    /\ outcome' = [outcome EXCEPT ![s] = @ + Counted(s, News(s))]
    /\ Goto(s, "commit")
    /\ UNCHANGED <<source, stored, runs, mode, stop, run, cursor, got, last, faults, crashes>>

AnalysisOf(text) == IF text = NoText THEN "skipped" ELSE "pending"

Written__old_analysis(row, old, v) ==
    [at |-> v.at, text |-> v.text,
     analysis |-> IF old = NoRow THEN AnalysisOf(v.text) ELSE row.analysis]

Written__old_time(row, old, v) ==
    [at |-> IF old = NoRow THEN v.at ELSE row.at, text |-> v.text,
     analysis |-> AnalysisOf(v.text)]

(* An insert, or an UPDATE of the columns that differ from the row as read. *)
Written(row, old, v) ==
    IF old = NoRow
    THEN [at |-> v.at, text |-> v.text, analysis |-> AnalysisOf(v.text)]
    ELSE [at       |-> IF v.at # old.at THEN v.at ELSE row.at,
          text     |-> IF v.text # old.text THEN v.text ELSE row.text,
          analysis |-> IF v.text # old.text /\ AnalysisOf(v.text) # old.analysis
                       THEN AnalysisOf(v.text) ELSE row.analysis]

(* Two transactions inserted the same source_review_id. *)
Duplicate(s) == \E r \in DOMAIN seen[s] : seen[s][r] = NoRow /\ stored[r] # NoRow

(* The rows the page changes, judged by what was read of them. *)
Changes(s) == {r \in DOMAIN seen[s] : Differs(seen[s][r], got[s][r])}

(* The page's commit; save_cursor is part of it. *)
CommitPage(s) ==
    /\ pc[s] = "commit"
    /\ IF Duplicate(s)
       THEN /\ Goto(s, "failing")
            /\ UNCHANGED <<stored, runs, cursor>>
       ELSE /\ stored' = [r \in Reviews |-> IF r \in Changes(s)
                    THEN Written(stored[r], seen[s][r], got[s][r]) ELSE stored[r]]
            /\ runs' = [runs EXCEPT ![run[s]].kept = @ + Cardinality(Changes(s))]
            /\ cursor' = [cursor EXCEPT ![s] = NextCursor(@)]
            /\ Goto(s, IF Exhausted(s) \/ last[s] THEN "finish" ELSE "fetch")
    /\ got' = [got EXCEPT ![s] = Empty]
    /\ seen' = [seen EXCEPT ![s] = Empty]
    /\ UNCHANGED <<source, mode, stop, run, last, outcome, faults, crashes>>

(* The slot's locals are gone when its job returns, raises or dies. *)
Leave(s) ==
    /\ Goto(s, "idle")
    /\ mode' = [mode EXCEPT ![s] = "backfill"]
    /\ stop' = [stop EXCEPT ![s] = 0]
    /\ run' = [run EXCEPT ![s] = 0]
    /\ cursor' = [cursor EXCEPT ![s] = 0]
    /\ got' = [got EXCEPT ![s] = Empty]
    /\ last' = [last EXCEPT ![s] = FALSE]
    /\ seen' = [seen EXCEPT ![s] = Empty]
    /\ outcome' = [outcome EXCEPT ![s] = 0]

EndRun__finished_at(s, status) ==
    runs' = [runs EXCEPT ![run[s]].status = status, ![run[s]].stored = outcome[s],
                         ![run[s]].started = now + Skew]

EndRun(s, status) ==
    runs' = [runs EXCEPT ![run[s]].status = status, ![run[s]].stored = outcome[s]]

Finish(s) ==
    /\ pc[s] = "finish"
    /\ EndRun(s, "success")
    /\ Leave(s)
    /\ UNCHANGED <<source, stored, faults, crashes>>

Fail__always_failed(s) ==
    /\ pc[s] = "failing"
    /\ EndRun(s, "failed")
    /\ Leave(s)
    /\ UNCHANGED <<source, stored, faults, crashes>>

(* _fail: roll back, then label the run by what was counted. *)
Fail(s) ==
    /\ pc[s] = "failing"
    /\ EndRun(s, IF outcome[s] > 0 THEN "partial" ELSE "failed")
    /\ Leave(s)
    /\ UNCHANGED <<source, stored, faults, crashes>>

-----------------------------------------------------------------------------
(* A request is refused, or a transaction raises, inside _run's try block.  *)
(* Reviews of the page handled before the exception are already counted.    *)
StepFails(s) ==
    /\ faults < MaxFaults
    /\ \/ pc[s] \in {"fetch", "commit"} /\ UNCHANGED outcome
       \/ /\ pc[s] = "absorb"
          /\ \E S \in SUBSET News(s) : outcome' = [outcome EXCEPT ![s] = @ + Counted(s, S)]
    /\ faults' = faults + 1
    /\ Goto(s, "failing")
    /\ got' = [got EXCEPT ![s] = Empty]
    /\ seen' = [seen EXCEPT ![s] = Empty]
    /\ UNCHANGED <<source, stored, runs, mode, stop, run, cursor, last, crashes>>

(* The database refuses the run's own row: nothing catches it. *)
RecordFails(s) ==
    /\ faults < MaxFaults
    /\ pc[s] \in {"start", "finish", "failing"}
    /\ faults' = faults + 1
    /\ Leave(s)
    /\ UNCHANGED <<source, stored, runs, crashes>>

Crash(s) ==
    /\ crashes < MaxCrashes
    /\ pc[s] # "idle"
    /\ crashes' = crashes + 1
    /\ Leave(s)
    /\ UNCHANGED <<source, stored, runs, faults>>

-----------------------------------------------------------------------------
Walk(s) ==
    \/ StartRun(s) \/ FetchPage(s) \/ Absorb(s) \/ CommitPage(s) \/ Finish(s) \/ Fail(s)

Next ==
    \/ \E r \in Reviews, text \in Contents : Edit(r, text)
    \/ \E s \in Slots :
        \/ \E m \in {"backfill", "incremental"} : ReadWatermark(s, m)
        \/ Walk(s)
        \/ StepFails(s) \/ RecordFails(s) \/ Crash(s)

(* A worker that executes a sync job keeps executing it. *)
Spec == Init /\ [][Next]_vars /\ \A s \in Slots : WF_vars(Walk(s))

-----------------------------------------------------------------------------
(* Properties *)

Active(s) == pc[s] \notin {"idle", "start"}

PageOK(s) ==
    /\ Active(s) => run[s] \in RunIds
    /\ pc[s] # "commit" => seen[s] = Empty
    /\ DOMAIN got[s] \subseteq Reviews /\ DOMAIN seen[s] \subseteq DOMAIN got[s]
    /\ \A r \in DOMAIN got[s] : got[s][r] \in Version /\ Mappable(got[s][r])
    /\ \A r \in DOMAIN seen[s] : seen[s][r] \in Row

TypeOK ==
    /\ now \in Nat
    /\ src \in [Reviews -> Version]
    /\ stored \in [Reviews -> Row]
    /\ runs \in [RunIds -> Run]
    /\ pc \in [Slots -> {"idle", "start", "fetch", "absorb", "commit", "finish", "failing"}]
    /\ mode \in [Slots -> {"backfill", "incremental"}]
    /\ stop \in [Slots -> Nat] /\ cursor \in [Slots -> Nat] /\ outcome \in [Slots -> Nat]
    /\ run \in [Slots -> Nat] /\ last \in [Slots -> BOOLEAN]
    /\ \A s \in Slots : PageOK(s)
    /\ faults \in Nat /\ crashes \in Nat

(* The row of r is the source's current version of r. *)
Current(r) == stored[r].at = src[r].at /\ stored[r].text = src[r].text

(* After a successful run that started at t, every storable review whose    *)
(* last change is not after t is stored in that version: the next           *)
(* incremental run, which stops at t, can miss nothing (the watermark rule  *)
(* of IngestionService.incremental), whatever was edited during the walk    *)
(* and whatever failed or crashed before.                                   *)
WatermarkComplete ==
    \A k \in RunIds : runs[k].status = "success" =>
        \A r \in Posted : Mappable(src[r]) /\ src[r].at <= runs[k].started => Current(r)

(* A row only changes to a strictly newer version of the review: syncing    *)
(* again over unchanged data writes nothing, and no late page takes a       *)
(* review back (ReviewRepository.upsert has no guard on updated_at).        *)
OnlyNewsIsWritten ==
    [][\A r \in Reviews : stored'[r] # stored[r] => stored'[r].at > stored[r].at]_vars

(* A stored review waits for analysis iff it has a text, through every      *)
(* appearance, disappearance and rewriting of the text (upsert).            *)
AnalysisAgrees == \A r \in Reviews : stored[r].analysis = AnalysisOf(stored[r].text)

(* The counts a successful run reports are the rows it really wrote.        *)
SuccessCountsExact ==
    \A k \in RunIds : runs[k].status = "success" => runs[k].stored = runs[k].kept

(* A run reported `failed` left nothing behind: pages it committed before   *)
(* the failure make it `partial` (_fail).                                   *)
FailedKeptNothing ==
    \A k \in RunIds : runs[k].status = "failed" => runs[k].kept = 0

(* The converse, "A run that stored something before failing is partial":   *)
(* a run reported `partial` kept something.                                 *)
PartialKeptSomething ==
    \A k \in RunIds : runs[k].status = "partial" => runs[k].kept > 0

(* Every run ends, although edits move reviews between pages under it,      *)
(* unless its process dies or its row cannot be written.                    *)
RunEnds ==
    \A k \in RunIds : runs[k].status = "running" ~>
        runs[k].status # "running" \/ \A s \in Slots : run[s] # k

-----------------------------------------------------------------------------
(* What makes the properties inductive.                                    *)

(* The counts, for any number of slots: a run belongs to one slot, and      *)
(* between two pages what it counted is what it kept.                       *)
CountOK(s) ==
    /\ Active(s) => runs[run[s]].status = "running"
    /\ pc[s] \in {"fetch", "absorb", "finish"} => runs[run[s]].kept = outcome[s]
    /\ pc[s] = "commit" => runs[run[s]].kept + Cardinality(Changes(s)) = outcome[s]
    /\ pc[s] = "failing" => runs[run[s]].kept <= outcome[s]

CountInv ==
    /\ \A s, t \in Slots : Active(s) /\ Active(t) /\ run[s] = run[t] => s = t
    /\ \A s \in Slots : CountOK(s)

(* The rest is about one slot.  A row is never ahead of the source, nor of  *)
(* the page in hand, and what a commit read of a row is still there.        *)
Behind(old, new) == old.at <= new.at /\ (old.at = new.at => old.text = new.text)

PageInv ==
    /\ \A r \in Reviews : src[r].at <= now /\ Behind(stored[r], src[r])
    /\ \A s \in Slots : \A r \in DOMAIN got[s] :
            0 < got[s][r].at /\ Behind(stored[r], got[s][r]) /\ Behind(got[s][r], src[r])
    /\ \A s \in Slots : pc[s] = "commit" =>
            DOMAIN seen[s] = News(s) /\ \A r \in News(s) : seen[s][r] = stored[r]

(* The start times of runs are past, and a run stops at a successful one's. *)
StampInv ==
    /\ \A k \in RunIds : runs[k].started <= now + Skew
    /\ \A s \in Slots : stop[s] = 0 \/ stop[s] \in LastSuccessful

(* What run k of slot s has to have stored when it succeeds, and not yet.   *)
Due(s) ==
    {r \in Posted : Mappable(src[r]) /\ src[r].at <= runs[run[s]].started /\ ~Current(r)}

(* A review that is due lies ahead of the cursor, or, once a page is read,  *)
(* in that page in its current version, or behind it and older than all of  *)
(* it, so that neither the last page nor the watermark ends the walk early. *)
WalkInv ==
    \A s \in Slots : Active(s) =>
        /\ \A k \in RunIds : runs[k].started <= runs[run[s]].started
        /\ runs[run[s]].started <= now + Skew
        /\ pc[s] = "fetch" => \A r \in Due(s) : Position(r) > cursor[s]
        /\ pc[s] \in {"absorb", "commit"} => \A r \in Due(s) :
              \/ r \in DOMAIN got[s] /\ got[s][r] = src[r]
              \/ /\ ~last[s] /\ Position(r) > cursor[s] + PageSize
                 /\ \A q \in DOMAIN got[s] : src[r].at < got[s][q].at
        /\ pc[s] = "finish" => Due(s) = {}

OneSlotInv == TypeOK /\ CountInv /\ PageInv /\ StampInv /\ WalkInv
=============================================================================
