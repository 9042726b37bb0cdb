------------------------ MODULE SyncIngestion_proofs ------------------------
(***************************************************************************)
(* Theorems about SyncIngestion.  The counts a run reports are proved for  *)
(* any number of overlapping syncs and any faults; the watermark, the      *)
(* direction of time in a row and the analysis status for one sync at a    *)
(* time, as docker-compose.yml runs it, and the watermark for clocks that  *)
(* agree; README.md says what happens without each assumption.             *)
(***************************************************************************)
EXTENDS SyncIngestion, FiniteSetTheorems, WellFoundedInduction, TLAPS

USE DEF source, slot, vars, RunIds

(* A local that holds a value for every slot: TypeOK says what these values *)
(* are, this that there are no others.                                      *)
PerSlot(f) == f = [s \in Slots |-> f[s]]

(* Runs start in the past, by the worker's clock. *)
Past == \A k \in RunIds : runs[k].started <= now + Skew

Typed == TypeOK /\ PerSlot(got) /\ PerSlot(seen) /\ Past

-----------------------------------------------------------------------------
(* Lemmas about the operators                                              *)

(* A set of stamps has a latest one, so that the newest successful run is   *)
(* defined whenever there is one.                                           *)
LEMMA LatestExists ==
    ASSUME NEW B \in Nat, NEW S \in SUBSET (0 .. B), S # {}
    PROVE  \E t \in S : \A u \in S : u <= t
<1> DEFINE T == {B - x : x \in S}
<1>1. \A x \in S : x \in Nat /\ x <= B /\ B - x \in Nat
  OBVIOUS
<1>2. T \subseteq Nat
  BY <1>1
<1>3. T # {}
  OBVIOUS
<1>4. PICK d \in T : \A e \in T : ~(<<e, d>> \in OpToRel(<, Nat))
  BY <1>2, <1>3, WFMin, NatLessThanWellFounded, Zenon
<1>5. \A e \in T : ~(e < d)
  BY <1>2, <1>4, Zenon DEF OpToRel
<1>6. PICK t \in S : d = B - t
  OBVIOUS
<1>7. \A u \in S : ~(B - u < B - t)
  BY <1>5, <1>6
<1>8. \A u \in S : u <= t
  BY <1>1, <1>7
<1> QED
  BY <1>8

(* The reviews of a page in hand, and those of it that are new, are finitely*)
(* many, so that what is counted is a number.                               *)
LEMMA NewsIsFinite ==
    ASSUME Typed, NEW s \in Slots
    PROVE  /\ News(s) \subseteq DOMAIN got[s] /\ IsFiniteSet(News(s))
           /\ \A S \in SUBSET News(s) : Counted(s, S) \in Nat
<1>1. DOMAIN got[s] \subseteq Reviews
  BY DEF Typed, TypeOK, PageOK
<1>2. News(s) \subseteq DOMAIN got[s] /\ IsFiniteSet(News(s))
  BY <1>1, FS_Subset, SyncAssumption DEF News
<1>3. \A S \in SUBSET News(s) : IsFiniteSet({r \in S : Differs(stored[r], got[s][r])})
  BY <1>2, FS_Subset
<1> QED
  BY <1>2, <1>3, FS_CardinalityType DEF Counted

LEMMA ChangesIsFinite ==
    ASSUME Typed, NEW s \in Slots
    PROVE  IsFiniteSet(Changes(s)) /\ Cardinality(Changes(s)) \in Nat /\ Changes(s) \subseteq Reviews
<1>1. Changes(s) \subseteq Reviews
  BY DEF Typed, TypeOK, PageOK, Changes
<1> QED
  BY <1>1, FS_Subset, FS_CardinalityType, SyncAssumption

(* What is written of a mappable version over a row is a row.               *)
LEMMA WrittenIsRow ==
    ASSUME NEW row \in Row, NEW old, NEW v \in Version, Mappable(v)
    PROVE  Written(row, old, v) \in Row
<1>1. v.at \in Nat /\ v.text \in (Contents \cup {NoText}) \ {Unrated, Malformed}
  BY DEF Version, Mappable
<1>2. AnalysisOf(v.text) \in {"pending", "skipped"}
  BY DEF AnalysisOf
<1>3. /\ row.at \in Nat /\ row.text \in (Contents \cup {NoText}) \ {Unrated, Malformed}
      /\ row.analysis \in {"pending", "skipped"}
  BY DEF Row
<1> HIDE DEF AnalysisOf
<1> QED
  BY <1>1, <1>2, <1>3 DEF Written, Row

(* What a run stops at is zero or the start of a successful run.            *)
LEMMA WatermarkIsStart ==
    ASSUME Typed, NEW m
    PROVE  /\ Watermark(m) \in Nat
           /\ Watermark(m) = 0 \/ Watermark(m) \in LastSuccessful
<1>1. now + Skew \in Nat /\ LastSuccessful \subseteq 0 .. (now + Skew)
  BY SyncAssumption DEF Typed, TypeOK, LastSuccessful, Run, Past
<1>2. LastSuccessful # {} => \E t \in LastSuccessful : \A u \in LastSuccessful : u <= t
  BY <1>1, LatestExists
<1>3. CASE LastSuccessful = {}
  BY <1>3 DEF Watermark
<1>4. CASE LastSuccessful # {}
  <2> DEFINE max == CHOOSE t \in LastSuccessful : \A u \in LastSuccessful : u <= t
  <2>1. max \in LastSuccessful
    BY <1>2, <1>4
  <2>2. Watermark(m) \in {0, max}
    BY DEF Watermark
  <2> HIDE DEF max
  <2> QED
    BY <1>1, <2>1, <2>2
<1> QED
  BY <1>3, <1>4

-----------------------------------------------------------------------------
(* Types                                                                   *)

USE DEF Active

(* A slot whose locals stay has the page it had, and so has one that clears *)
(* its page inside a run or leaves the run.                                 *)
LEMMA SamePage ==
    ASSUME Typed, NEW s \in Slots,
           pc'[s] = pc[s] \/ pc'[s] \in {"idle", "start"} \/ (Active(s) /\ run'[s] = run[s]),
           Active(s) => run'[s] = run[s] \/ pc'[s] = "idle",
           \/ got'[s] = got[s] /\ seen'[s] = seen[s] /\ (pc'[s] = pc[s] \/ pc[s] # "commit")
           \/ got'[s] = Empty /\ seen'[s] = Empty
    PROVE  PageOK(s)'
<1>1. DOMAIN Empty = {}
  BY DEF Empty
<1>2. PageOK(s)
  BY DEF Typed, TypeOK
<1> QED
  BY <1>1, <1>2 DEF PageOK

(* A job's end leaves its slot as it was before the job.                    *)
LEMMA LeaveTyped ==
    ASSUME Typed, NEW s \in Slots, Leave(s), UNCHANGED <<source, stored>>,
           faults' \in Nat, crashes' \in Nat, runs' \in [RunIds -> Run], Past'
    PROVE  Typed'
<1>1. /\ pc' = [pc EXCEPT ![s] = "idle"] /\ got' = [got EXCEPT ![s] = Empty]
      /\ seen' = [seen EXCEPT ![s] = Empty] /\ run' = [run EXCEPT ![s] = 0]
  BY DEF Leave, Goto
<1>2. \A t \in Slots : /\ t # s => pc'[t] = pc[t] /\ got'[t] = got[t] /\ seen'[t] = seen[t]
                                    /\ run'[t] = run[t]
                       /\ t = s => pc'[t] = "idle" /\ got'[t] = Empty /\ seen'[t] = Empty
  BY <1>1 DEF Typed, TypeOK, PerSlot
<1>3. \A t \in Slots : PageOK(t)'
  <2>1. ASSUME NEW t \in Slots, t # s PROVE PageOK(t)'
    BY <1>2, <2>1, SamePage
  <2>2. pc'[s] = "idle" /\ got'[s] = Empty /\ seen'[s] = Empty /\ DOMAIN Empty = {}
    BY <1>2 DEF Empty
  <2>3. PageOK(s)'
    BY <2>2 DEF PageOK
  <2> QED
    BY <2>1, <2>3
<1>4. PerSlot(got)' /\ PerSlot(seen)'
  BY <1>1 DEF Typed, PerSlot
<1> QED
  BY <1>1, <1>3, <1>4 DEF Typed, TypeOK, Leave

(* A step inside a run that clears the page, or leaves it, and goes on.     *)
LEMMA StepTyped ==
    ASSUME Typed, NEW s \in Slots, NEW line \in {"fetch", "finish", "failing"},
           Active(s), pc' = [pc EXCEPT ![s] = line],
           UNCHANGED <<source, mode, stop, run, last>>,
           \/ UNCHANGED <<got, seen>> /\ pc[s] # "commit"
           \/ got' = [got EXCEPT ![s] = Empty] /\ seen' = [seen EXCEPT ![s] = Empty],
           stored' \in [Reviews -> Row], runs' \in [RunIds -> Run], Past',
           cursor' \in [Slots -> Nat], outcome' \in [Slots -> Nat],
           faults' \in Nat, crashes' \in Nat
    PROVE  Typed'
<1>1. \A t \in Slots : /\ t # s => pc'[t] = pc[t]
                       /\ t = s => pc'[t] = line /\ pc'[t] # "commit"
                       /\ \/ /\ got'[t] = got[t] /\ seen'[t] = seen[t]
                             /\ pc'[t] = pc[t] \/ pc[t] # "commit"
                          \/ got'[t] = Empty /\ seen'[t] = Empty
  BY DEF Typed, TypeOK, PerSlot
<1>2. \A t \in Slots : PageOK(t)'
  <2>1. ASSUME NEW t \in Slots, t # s PROVE PageOK(t)'
    BY <1>1, <2>1, SamePage
  <2>2. PageOK(s)'
    BY <1>1, SamePage
  <2> QED
    BY <2>1, <2>2
<1>3. PerSlot(got)' /\ PerSlot(seen)'
  BY DEF Typed, PerSlot
<1> QED
  BY <1>2, <1>3 DEF Typed, TypeOK

LEMMA TypedInit == Init => Typed
<1> SUFFICES ASSUME Init PROVE Typed
  OBVIOUS
<1>1. NotPosted \in Version /\ NoRow \in Row /\ NoRun \in Run
  BY SyncAssumption DEF NotPosted, NoRow, NoRun, Version, Row, Run
<1>2. \A s \in Slots : PageOK(s)
  BY DEF Init, PageOK, Empty
<1>3. Past
  BY SyncAssumption DEF Init, Past, NoRun
<1> QED
  BY <1>1, <1>2, <1>3 DEF Init, Typed, TypeOK, PerSlot

LEMMA EditTyped ==
    ASSUME Typed, NEW r \in Reviews, NEW text \in Contents, Edit(r, text)
    PROVE  Typed'
<1>1. [at |-> now', text |-> text] \in Version /\ now' \in Nat
  BY DEF Edit, Typed, TypeOK, Version
<1>2. src' \in [Reviews -> Version]
  BY <1>1 DEF Edit, Typed, TypeOK
<1>3. \A s \in Slots : PageOK(s)'
  BY DEF Edit, Typed, TypeOK, PageOK
<1>4. Past'
  BY SyncAssumption DEF Edit, Typed, TypeOK, Past, Run
<1> QED
  BY <1>1, <1>2, <1>3, <1>4 DEF Edit, Typed, TypeOK, PerSlot

LEMMA StartTyped ==
    ASSUME Typed, NEW s \in Slots,
           StartRun(s) \/ \E m \in {"backfill", "incremental"} : ReadWatermark(s, m)
    PROVE  Typed'
<1> USE DEF Goto
<1>2. ASSUME NEW m \in {"backfill", "incremental"}, ReadWatermark(s, m) PROVE Typed'
  <2>1. stop' \in [Slots -> Nat]
    BY <1>2, WatermarkIsStart DEF ReadWatermark, Typed, TypeOK
  <2>2. \A t \in Slots : PageOK(t)'
    BY <1>2, SamePage DEF ReadWatermark, Typed, TypeOK
  <2> QED
    BY <1>2, <2>1, <2>2 DEF ReadWatermark, Typed, TypeOK, PerSlot, Past
<1>3. ASSUME StartRun(s) PROVE Typed'
  <2>1. PICK k \in RunIds :
            /\ run' = [run EXCEPT ![s] = k]
            /\ now' = now + 1
            /\ runs' = [runs EXCEPT ![k] =
                 [status |-> "running", started |-> now' + Skew, stored |-> 0, kept |-> 0]]
    BY <1>3 DEF StartRun
  <2>2. runs' \in [RunIds -> Run] /\ now' \in Nat
    BY <2>1, SyncAssumption DEF Typed, TypeOK, Run
  <2>3. \A t \in Slots : PageOK(t)'
    <3>1. \A t \in Slots : t # s => pc'[t] = pc[t] /\ run'[t] = run[t]
      BY <1>3, <2>1 DEF StartRun, Typed, TypeOK
    <3>2. \A t \in Slots : t # s => PageOK(t)'
      BY <1>3, <3>1, SamePage DEF StartRun
    <3>3. run'[s] \in RunIds
      BY <2>1 DEF Typed, TypeOK
    <3>4. PageOK(s)'
      BY <1>3, <3>3 DEF StartRun, PageOK, Typed, TypeOK
    <3> QED
      BY <3>2, <3>4
  <2>4. Past'
    <3>1. \A i \in RunIds : runs[i].started \in Nat /\ runs[i].started <= now + Skew
      BY DEF Typed, TypeOK, Past, Run
    <3>2. \A i \in RunIds : runs'[i].started = runs[i].started \/ runs'[i].started = now' + Skew
      BY <2>1 DEF Typed, TypeOK
    <3> QED
      BY <2>1, <3>1, <3>2, SyncAssumption DEF Typed, TypeOK, Past
  <2> QED
    BY <1>3, <2>1, <2>2, <2>3, <2>4 DEF StartRun, Typed, TypeOK, PerSlot
<1> QED
  BY <1>2, <1>3

LEMMA FetchTyped ==
    ASSUME Typed, NEW s \in Slots, FetchPage(s)
    PROVE  Typed'
<1> USE DEF Goto
<1>1. CASE \E r \in Page(cursor[s]) : src[r].text = Malformed
  BY <1>1, StepTyped DEF FetchPage, Typed, TypeOK, Past
<1>2. CASE ~\E r \in Page(cursor[s]) : src[r].text = Malformed
  <2> DEFINE fetched == {q \in Page(cursor[s]) : Mappable(src[q])}
             new == [r \in fetched |-> src[r]]
  <2>1. fetched \subseteq Reviews
    BY DEF Page, Posted
  <2>2. /\ got' = [got EXCEPT ![s] = new]
        /\ last' \in [Slots -> BOOLEAN]
        /\ pc' = [pc EXCEPT ![s] = "absorb"]
        /\ seen' = seen
    BY <1>2 DEF FetchPage, Typed, TypeOK, IsLast
  <2>3. PerSlot(got)' /\ PerSlot(seen)'
    BY <2>2 DEF Typed, PerSlot
  <2>4. \A t \in Slots : PageOK(t)'
    <3>1. \A t \in Slots : t # s => PageOK(t)'
      BY <2>2, SamePage DEF FetchPage, Typed, TypeOK, PerSlot
    <3>2. got'[s] = new /\ seen'[s] = Empty /\ run'[s] \in RunIds
      BY <2>2 DEF FetchPage, Typed, TypeOK, PerSlot, PageOK
    <3>3. /\ DOMAIN got'[s] \subseteq Reviews
          /\ \A r \in DOMAIN got'[s] : got'[s][r] \in Version /\ Mappable(got'[s][r])
      BY <2>1, <3>2 DEF Typed, TypeOK
    <3> QED
      BY <3>1, <3>2, <3>3 DEF PageOK, Empty
  <2> HIDE DEF new
  <2> QED
    BY <2>2, <2>3, <2>4 DEF FetchPage, Typed, TypeOK, Past
<1> QED
  BY <1>1, <1>2

LEMMA AbsorbTyped ==
    ASSUME Typed, NEW s \in Slots, Absorb(s)
    PROVE  Typed'
<1> DEFINE read == [r \in News(s) |-> stored[r]]
<1>1. Counted(s, News(s)) \in Nat /\ News(s) \subseteq DOMAIN got[s] /\ News(s) \subseteq Reviews
  BY NewsIsFinite DEF Typed, TypeOK, PageOK
<1>2. /\ seen' = [seen EXCEPT ![s] = read]
      /\ outcome' = [outcome EXCEPT ![s] = @ + Counted(s, News(s))]
      /\ pc' = [pc EXCEPT ![s] = "commit"]
      /\ got' = got /\ run' = run
  BY DEF Absorb, Goto
<1>3. \A t \in Slots : PageOK(t)'
  <2>1. \A t \in Slots : t # s => pc'[t] = pc[t] /\ seen'[t] = seen[t]
    BY <1>2 DEF Typed, TypeOK, PerSlot
  <2>2. \A t \in Slots : t # s => PageOK(t)'
    BY <1>2, <2>1, SamePage
  <2>3. seen'[s] = read /\ run[s] \in RunIds /\ pc'[s] = "commit"
    BY <1>2 DEF Typed, TypeOK, PerSlot, PageOK, Absorb
  <2>4. DOMAIN read = News(s) /\ \A r \in News(s) : read[r] \in Row
    BY <1>1 DEF Typed, TypeOK
  <2> HIDE DEF read
  <2>5. PageOK(s)
    BY DEF Typed, TypeOK
  <2> QED
    BY <1>1, <1>2, <2>2, <2>3, <2>4, <2>5 DEF PageOK
<1>4. PerSlot(got)' /\ PerSlot(seen)'
  BY <1>2 DEF Typed, PerSlot
<1> HIDE DEF read
<1>5. outcome' \in [Slots -> Nat]
  BY <1>1, <1>2 DEF Typed, TypeOK
<1> QED
  BY <1>2, <1>3, <1>4, <1>5 DEF Absorb, Typed, TypeOK, Past

LEMMA CommitTyped ==
    ASSUME Typed, NEW s \in Slots, CommitPage(s)
    PROVE  Typed'
<1>1. /\ stored' \in [Reviews -> Row] /\ cursor' \in [Slots -> Nat]
      /\ runs' \in [RunIds -> Run] /\ Past'
  <2>1. CASE Duplicate(s)
    BY <2>1 DEF CommitPage, Typed, TypeOK, Past
  <2>2. CASE ~Duplicate(s)
    <3>1. \A r \in Changes(s) : got[s][r] \in Version /\ Mappable(got[s][r])
      BY DEF Typed, TypeOK, PageOK, Changes
    <3>2. \A r \in Changes(s) \cap Reviews : Written(stored[r], seen[s][r], got[s][r]) \in Row
      BY <3>1, WrittenIsRow DEF Typed, TypeOK
    <3>3. stored' \in [Reviews -> Row]
      <4>1. stored' = [r \in Reviews |-> IF r \in Changes(s)
                          THEN Written(stored[r], seen[s][r], got[s][r]) ELSE stored[r]]
        BY <2>2 DEF CommitPage
      <4>2. stored \in [Reviews -> Row]
        BY DEF Typed, TypeOK
      <4> QED
        BY <3>2, <4>1, <4>2
    <3>4. cursor' \in [Slots -> Nat]
      <4>1. cursor' = [cursor EXCEPT ![s] = cursor[s] + PageSize]
        BY <2>2 DEF CommitPage, NextCursor
      <4>2. cursor \in [Slots -> Nat] /\ PageSize \in Nat
        BY SyncAssumption DEF Typed, TypeOK
      <4> QED
        BY <4>1, <4>2
    <3>5. Cardinality(Changes(s)) \in Nat
      BY ChangesIsFinite
    <3>6. runs' = [runs EXCEPT ![run[s]].kept = @ + Cardinality(Changes(s))] /\ now' = now
      BY <2>2 DEF CommitPage
    <3>7. runs \in [RunIds -> Run] /\ run[s] \in RunIds
      BY DEF CommitPage, Typed, TypeOK, PageOK
    <3>8. /\ runs' \in [RunIds -> Run]
          /\ \A k \in RunIds : runs'[k].started = runs[k].started
      BY <3>5, <3>6, <3>7 DEF Run
    <3>9. Past'
      BY <3>6, <3>8 DEF Typed, Past
    <3> QED
      BY <3>3, <3>4, <3>8, <3>9
  <2> QED
    BY <2>1, <2>2
<1>2. \E line \in {"fetch", "finish", "failing"} : pc' = [pc EXCEPT ![s] = line]
  BY DEF CommitPage, Goto
<1>3. /\ Active(s) /\ outcome' = outcome /\ faults' = faults /\ crashes' = crashes
      /\ UNCHANGED <<source, mode, stop, run, last>>
      /\ got' = [got EXCEPT ![s] = Empty] /\ seen' = [seen EXCEPT ![s] = Empty]
  BY DEF CommitPage
<1>4. outcome' \in [Slots -> Nat] /\ faults' \in Nat /\ crashes' \in Nat
  BY <1>3 DEF Typed, TypeOK
<1> QED
  BY <1>1, <1>2, <1>3, <1>4, StepTyped

(* One step of the proof per action.                                        *)
LEMMA TypedStep == Typed /\ [Next]_vars => Typed'
<1> SUFFICES ASSUME Typed, [Next]_vars PROVE Typed'
  OBVIOUS
<1>1. ASSUME NEW r \in Reviews, NEW text \in Contents, Edit(r, text) PROVE Typed'
  BY <1>1, EditTyped
<1>2. ASSUME NEW s \in Slots, NEW m \in {"backfill", "incremental"}, ReadWatermark(s, m)
      PROVE  Typed'
  BY <1>2, StartTyped
<1>3. ASSUME NEW s \in Slots, StartRun(s) PROVE Typed'
  BY <1>3, StartTyped
<1>4. ASSUME NEW s \in Slots, FetchPage(s) PROVE Typed'
  BY <1>4, FetchTyped
<1>5. ASSUME NEW s \in Slots, Absorb(s) PROVE Typed'
  BY <1>5, AbsorbTyped
<1>6. ASSUME NEW s \in Slots, CommitPage(s) PROVE Typed'
  BY <1>6, CommitTyped
<1>7. ASSUME NEW s \in Slots, NEW end \in {"success", "partial", "failed"}, EndRun(s, end),
             Leave(s), UNCHANGED <<source, stored, faults, crashes>>
      PROVE  Typed'
  <2>1. /\ runs' = [runs EXCEPT ![run[s]].status = end, ![run[s]].stored = outcome[s]]
        /\ outcome[s] \in Nat /\ runs \in [RunIds -> Run] /\ now' = now
    BY <1>7 DEF EndRun, Typed, TypeOK
  <2>2. runs' \in [RunIds -> Run] /\ \A k \in RunIds : runs'[k].started = runs[k].started
    BY <2>1 DEF Run
  <2>3. Past' /\ faults' \in Nat /\ crashes' \in Nat
    BY <1>7, <2>2 DEF Past, Typed, TypeOK
  <2> QED
    BY <1>7, <2>2, <2>3, LeaveTyped
<1>8. ASSUME NEW s \in Slots, Finish(s) \/ Fail(s) PROVE Typed'
  BY <1>7, <1>8 DEF Finish, Fail
<1>9. ASSUME NEW s \in Slots, StepFails(s) PROVE Typed'
  <2>1. outcome' \in [Slots -> Nat]
    <3>1. outcome \in [Slots -> Nat] /\ \A S \in SUBSET News(s) : Counted(s, S) \in Nat
      BY NewsIsFinite DEF Typed, TypeOK
    <3>2. \/ outcome' = outcome
          \/ \E S \in SUBSET News(s) : outcome' = [outcome EXCEPT ![s] = @ + Counted(s, S)]
      BY <1>9 DEF StepFails
    <3> QED
      BY <3>1, <3>2
  <2>2. /\ Active(s) /\ faults' \in Nat /\ crashes' \in Nat /\ Past'
        /\ stored' \in [Reviews -> Row] /\ runs' \in [RunIds -> Run] /\ cursor' \in [Slots -> Nat]
    BY <1>9 DEF StepFails, Typed, TypeOK, Past
  <2> QED
    BY <1>9, <2>1, <2>2, StepTyped DEF StepFails, Goto
<1>10. ASSUME NEW s \in Slots, RecordFails(s) \/ Crash(s) PROVE Typed'
  <2>1. /\ UNCHANGED <<source, stored, runs>> /\ Leave(s)
        /\ faults' \in Nat /\ crashes' \in Nat /\ Past'
    <3>1. CASE RecordFails(s)
      BY <3>1 DEF RecordFails, Typed, TypeOK, Past
    <3>2. CASE Crash(s)
      BY <3>2 DEF Crash, Typed, TypeOK, Past
    <3> QED
      BY <1>10, <3>1, <3>2
  <2> QED
    BY <2>1, LeaveTyped DEF Typed, TypeOK
<1>11. CASE UNCHANGED vars
  BY <1>11 DEF Typed, TypeOK, PerSlot, Past, PageOK
<1> QED
  BY <1>1, <1>2, <1>3, <1>4, <1>5, <1>6, <1>8, <1>9, <1>10, <1>11 DEF Next, Walk

LEMMA AlwaysTyped == Spec => []Typed
  BY TypedInit, TypedStep, PTL DEF Spec

(* Types of the tables and of every sync's locals: in particular a page in  *)
(* hand holds only what the mapping accepts, and only that is ever stored.  *)
THEOREM TypeCorrect == Spec => []TypeOK
<1>1. Typed => TypeOK
  BY DEF Typed
<1> QED
  BY <1>1, AlwaysTyped, PTL

-----------------------------------------------------------------------------
(* The counts of a run, for any number of overlapping syncs.               *)

Counts == Typed /\ CountInv /\ SuccessCountsExact /\ FailedKeptNothing

(* A step of slot s leaves the other slots' counts alone: it changes no run *)
(* of theirs and takes none of theirs.                                      *)
LEMMA CountFrame ==
    ASSUME Counts, Typed', NEW s \in Slots,
           \A t \in Slots \ {s} :
                /\ pc'[t] = pc[t] /\ run'[t] = run[t] /\ outcome'[t] = outcome[t]
                /\ got'[t] = got[t] /\ seen'[t] = seen[t]
                /\ Active(t) => runs'[run[t]] = runs[run[t]] /\ (Active(s)' => run[t] # run'[s]),
           CountOK(s)',
           \A k \in RunIds :
                \/ runs'[k] = runs[k]
                \/ runs'[k].status = "success" => runs'[k].stored = runs'[k].kept,
           \A k \in RunIds :
                \/ runs'[k] = runs[k]
                \/ runs'[k].status = "failed" => runs'[k].kept = 0
    PROVE  Counts'
<1>1. \A t \in Slots \ {s} : CountOK(t)'
  <2> SUFFICES ASSUME NEW t \in Slots \ {s} PROVE CountOK(t)'
    OBVIOUS
  <2>1. CountOK(t) /\ Changes(t)' = Changes(t)
    BY DEF Counts, CountInv, Changes
  <2>2. pc'[t] = pc[t] /\ run'[t] = run[t] /\ outcome'[t] = outcome[t]
    OBVIOUS
  <2>3. Active(t) => runs'[run[t]] = runs[run[t]]
    OBVIOUS
  <2>4. CASE Active(t)
    BY <2>1, <2>2, <2>3, <2>4 DEF CountOK
  <2>5. CASE ~Active(t)
    BY <2>2, <2>5 DEF CountOK
  <2> QED
    BY <2>4, <2>5
<1>2. ASSUME NEW t \in Slots, NEW u \in Slots, Active(t)', Active(u)', run'[t] = run'[u]
      PROVE  t = u
  BY <1>2 DEF Counts, CountInv
<1>3. CountInv'
  BY <1>1, <1>2 DEF CountInv
<1> QED
  BY <1>3 DEF Counts, SuccessCountsExact, FailedKeptNothing

(* Ending a run: counted is kept when the walk is finished, and a run that  *)
(* counted nothing kept nothing.                                            *)
LEMMA EndCounts ==
    ASSUME Counts, Typed', NEW s \in Slots, Finish(s) \/ Fail(s)
    PROVE  Counts'
<1>1. /\ Active(s) /\ run[s] \in RunIds /\ CountOK(s)
      /\ runs \in [RunIds -> Run] /\ outcome[s] \in Nat
  BY DEF Finish, Fail, Counts, CountInv, Typed, TypeOK, PageOK
<1>2. PICK end \in {"success", "partial", "failed"} :
        /\ EndRun(s, end) /\ Leave(s)
        /\ end = "success" => pc[s] = "finish"
        /\ end = "failed" => pc[s] = "failing" /\ ~(outcome[s] > 0)
  BY DEF Finish, Fail
<1>3. \A t \in Slots \ {s} :
        /\ pc'[t] = pc[t] /\ run'[t] = run[t] /\ outcome'[t] = outcome[t]
        /\ got'[t] = got[t] /\ seen'[t] = seen[t]
  BY <1>2 DEF Leave, Goto, Counts, Typed, TypeOK, PerSlot
<1>4. pc'[s] = "idle"
  BY <1>2 DEF Leave, Goto, Counts, Typed, TypeOK
<1>5. /\ \A k \in RunIds \ {run[s]} : runs'[k] = runs[k]
      /\ runs'[run[s]].status = end /\ runs'[run[s]].stored = outcome[s]
      /\ runs'[run[s]].kept = runs[run[s]].kept
  BY <1>1, <1>2 DEF EndRun, Run
<1>6. \A t \in Slots \ {s} : Active(t) => run[t] \in RunIds \ {run[s]}
  BY <1>1 DEF Counts, CountInv, Typed, TypeOK, PageOK
<1>7. CountOK(s)'
  BY <1>4 DEF CountOK
<1>8. end = "success" => runs'[run[s]].stored = runs'[run[s]].kept
  BY <1>1, <1>2, <1>5 DEF CountOK
<1>9. end = "failed" => runs'[run[s]].kept = 0
  BY <1>1, <1>2, <1>5 DEF CountOK, Run
<1> QED
  BY <1>3, <1>4, <1>5, <1>6, <1>7, <1>8, <1>9, CountFrame

(* Starting a run: its number was nobody's.                                 *)
LEMMA StartCounts ==
    ASSUME Counts, Typed', NEW s \in Slots, StartRun(s)
    PROVE  Counts'
<1>1. PICK k \in RunIds :
        /\ runs[k].status = "none"
        /\ run' = [run EXCEPT ![s] = k]
        /\ runs' = [runs EXCEPT ![k] =
             [status |-> "running", started |-> now' + Skew, stored |-> 0, kept |-> 0]]
  BY DEF StartRun
<1>2. \A t \in Slots \ {s} :
        /\ pc'[t] = pc[t] /\ run'[t] = run[t] /\ outcome'[t] = outcome[t]
        /\ got'[t] = got[t] /\ seen'[t] = seen[t]
  BY <1>1 DEF StartRun, Goto, Counts, Typed, TypeOK
<1>3. \A t \in Slots : Active(t) => run[t] \in RunIds /\ run[t] # k
  BY <1>1 DEF Counts, CountInv, CountOK, Typed, TypeOK, PageOK
<1>4. /\ pc'[s] = "fetch" /\ run'[s] = k /\ outcome'[s] = 0
      /\ runs'[k].status = "running" /\ runs'[k].kept = 0
      /\ \A i \in RunIds \ {k} : runs'[i] = runs[i]
  BY <1>1 DEF StartRun, Goto, Counts, Typed, TypeOK
<1>5. CountOK(s)'
  BY <1>4 DEF CountOK
<1> QED
  BY <1>2, <1>3, <1>4, <1>5, CountFrame

(* The page's commit keeps exactly what was counted when it was read.       *)
LEMMA CommitCounts ==
    ASSUME Counts, Typed', NEW s \in Slots, CommitPage(s)
    PROVE  Counts'
<1>1. /\ pc[s] = "commit" /\ run[s] \in RunIds /\ CountOK(s)
      /\ runs \in [RunIds -> Run] /\ outcome[s] \in Nat
      /\ Cardinality(Changes(s)) \in Nat
      /\ runs[run[s]].kept \in Nat
  BY ChangesIsFinite DEF CommitPage, Counts, CountInv, Typed, TypeOK, PageOK, Run
<1>2. \A t \in Slots \ {s} :
        /\ pc'[t] = pc[t] /\ run'[t] = run[t] /\ outcome'[t] = outcome[t]
        /\ got'[t] = got[t] /\ seen'[t] = seen[t]
  BY DEF CommitPage, Goto, Counts, Typed, TypeOK, PerSlot
<1>3. \A t \in Slots \ {s} : Active(t) => run[t] \in RunIds \ {run[s]}
  BY <1>1 DEF Counts, CountInv, Typed, TypeOK, PageOK
<1>4. run'[s] = run[s] /\ outcome'[s] = outcome[s] /\ pc'[s] \in {"fetch", "finish", "failing"}
  BY DEF CommitPage, Goto, Counts, Typed, TypeOK
<1>5. runs[run[s]].kept + Cardinality(Changes(s)) = outcome[s] /\ runs[run[s]].status = "running"
  BY <1>1 DEF CountOK
<1>6. CASE Duplicate(s)
  <2>1. runs' = runs /\ pc'[s] = "failing"
    BY <1>6 DEF CommitPage, Goto, Counts, Typed, TypeOK
  <2>2. CountOK(s)'
    BY <1>1, <1>4, <1>5, <2>1 DEF CountOK
  <2> QED
    BY <1>2, <1>3, <1>4, <2>1, <2>2, CountFrame
<1>7. CASE ~Duplicate(s)
  <2>1. runs' = [runs EXCEPT ![run[s]].kept = @ + Cardinality(Changes(s))] /\ pc'[s] # "failing"
    BY <1>7 DEF CommitPage, Goto, Counts, Typed, TypeOK
  <2>2. /\ runs'[run[s]].kept = outcome[s] /\ runs'[run[s]].status = "running"
        /\ \A k \in RunIds \ {run[s]} : runs'[k] = runs[k]
    BY <1>1, <1>5, <2>1 DEF Run
  <2>3. CountOK(s)'
    BY <1>4, <2>1, <2>2 DEF CountOK
  <2> QED
    BY <1>2, <1>3, <1>4, <2>2, <2>3, CountFrame
<1> QED
  BY <1>6, <1>7

(* A step that changes no run and starts none.                              *)
LEMMA SameRunsCount ==
    ASSUME Counts, Typed', NEW s \in Slots, runs' = runs,
           \A t \in Slots \ {s} :
                /\ pc'[t] = pc[t] /\ run'[t] = run[t] /\ outcome'[t] = outcome[t]
                /\ got'[t] = got[t] /\ seen'[t] = seen[t],
           Active(s)' => Active(s) /\ run'[s] = run[s],
           CountOK(s)'
    PROVE  Counts'
<1>1. \A t \in Slots \ {s} : Active(t) => (Active(s)' => run[t] # run'[s])
  BY DEF Counts, CountInv
<1> QED
  BY <1>1, CountFrame

LEMMA LeaveCounts ==
    ASSUME Counts, Typed', NEW s \in Slots, Leave(s), runs' = runs
    PROVE  Counts'
<1>1. \A t \in Slots \ {s} :
        /\ pc'[t] = pc[t] /\ run'[t] = run[t] /\ outcome'[t] = outcome[t]
        /\ got'[t] = got[t] /\ seen'[t] = seen[t]
  BY DEF Leave, Goto, Counts, Typed, TypeOK, PerSlot
<1>2. pc'[s] = "idle"
  BY DEF Leave, Goto, Counts, Typed, TypeOK
<1>3. CountOK(s)'
  BY <1>2 DEF CountOK
<1> QED
  BY <1>1, <1>2, <1>3, SameRunsCount

(* What upsert counts is what the page's commit will change.                *)
LEMMA AbsorbCounts ==
    ASSUME Counts, Typed', NEW s \in Slots, Absorb(s)
    PROVE  Counts'
<1> DEFINE read == [r \in News(s) |-> stored[r]]
<1>1. \A t \in Slots \ {s} :
        /\ pc'[t] = pc[t] /\ run'[t] = run[t] /\ outcome'[t] = outcome[t]
        /\ got'[t] = got[t] /\ seen'[t] = seen[t]
  BY DEF Absorb, Goto, Counts, Typed, TypeOK, PerSlot
<1>2. /\ pc[s] = "absorb" /\ pc'[s] = "commit" /\ run'[s] = run[s] /\ runs' = runs
      /\ outcome'[s] = outcome[s] + Counted(s, News(s))
      /\ seen'[s] = read /\ got'[s] = got[s]
  BY DEF Absorb, Goto, Counts, Typed, TypeOK, PerSlot
<1>3. CountOK(s)
  BY DEF Counts, CountInv
<1>4. Changes(s)' = {r \in News(s) : Differs(stored[r], got[s][r])}
  <2>1. Changes(s)' = {r \in DOMAIN read : Differs(read[r], got[s][r])}
    BY <1>2 DEF Changes
  <2> QED
    BY <2>1
<1>5. Cardinality(Changes(s)') = Counted(s, News(s))
  BY <1>4 DEF Counted
<1> HIDE DEF read
<1>6. CountOK(s)'
  BY <1>2, <1>3, <1>5 DEF CountOK
<1> QED
  BY <1>1, <1>2, <1>6, SameRunsCount

LEMMA FailCounts ==
    ASSUME Counts, Typed', NEW s \in Slots, StepFails(s)
    PROVE  Counts'
<1>1. \A t \in Slots \ {s} :
        /\ pc'[t] = pc[t] /\ run'[t] = run[t] /\ outcome'[t] = outcome[t]
        /\ got'[t] = got[t] /\ seen'[t] = seen[t]
  BY DEF StepFails, Goto, Counts, Typed, TypeOK, PerSlot
<1>2. /\ pc[s] \in {"fetch", "absorb", "commit"} /\ pc'[s] = "failing"
      /\ run'[s] = run[s] /\ runs' = runs
  BY DEF StepFails, Goto, Counts, Typed, TypeOK
<1>3. CountOK(s) /\ runs[run[s]].kept \in Nat /\ outcome[s] \in Nat /\ Cardinality(Changes(s)) \in Nat
  BY <1>2, ChangesIsFinite DEF Counts, CountInv, Typed, TypeOK, PageOK, Run
<1>4. outcome'[s] \in Nat /\ outcome[s] <= outcome'[s]
  <2>1. CASE outcome' = outcome
    BY <1>3, <2>1
  <2>2. ASSUME NEW S \in SUBSET News(s), outcome' = [outcome EXCEPT ![s] = @ + Counted(s, S)]
        PROVE  outcome'[s] \in Nat /\ outcome[s] <= outcome'[s]
    <3>1. Counted(s, S) \in Nat
      BY NewsIsFinite DEF Counts
    <3>2. outcome'[s] = outcome[s] + Counted(s, S)
      BY <2>2 DEF Counts, Typed, TypeOK
    <3> QED
      BY <1>3, <3>1, <3>2
  <2> QED
    BY <2>1, <2>2 DEF StepFails
<1>5. runs[run[s]].kept <= outcome[s] /\ runs[run[s]].status = "running"
  BY <1>2, <1>3 DEF CountOK
<1>6. CountOK(s)'
  BY <1>2, <1>3, <1>4, <1>5 DEF CountOK
<1> QED
  BY <1>1, <1>2, <1>6, SameRunsCount

LEMMA FetchCounts ==
    ASSUME Counts, Typed', NEW s \in Slots,
           FetchPage(s) \/ \E m \in {"backfill", "incremental"} : ReadWatermark(s, m)
    PROVE  Counts'
<1>1. \A t \in Slots \ {s} :
        /\ pc'[t] = pc[t] /\ run'[t] = run[t] /\ outcome'[t] = outcome[t]
        /\ got'[t] = got[t] /\ seen'[t] = seen[t]
  BY DEF FetchPage, ReadWatermark, Goto, Counts, Typed, TypeOK, PerSlot
<1>2. CountOK(s) /\ (Active(s) => runs[run[s]].kept \in Nat)
  BY DEF Counts, CountInv, Typed, TypeOK, PageOK, Run
<1>3. /\ run'[s] = run[s] /\ runs' = runs /\ outcome'[s] = outcome[s]
      /\ \/ pc[s] = "fetch" /\ pc'[s] \in {"absorb", "failing"}
         \/ pc[s] = "idle" /\ pc'[s] = "start"
  BY DEF FetchPage, ReadWatermark, Goto, Counts, Typed, TypeOK
<1>4. CountOK(s)'
  BY <1>2, <1>3 DEF CountOK
<1> QED
  BY <1>1, <1>3, <1>4, SameRunsCount

LEMMA CountsInit == Init => Counts
<1> SUFFICES ASSUME Init PROVE Counts
  OBVIOUS
<1>1. Typed /\ CountInv
  BY TypedInit DEF Init, CountInv, CountOK
<1>2. SuccessCountsExact /\ FailedKeptNothing
  BY DEF Init, NoRun, SuccessCountsExact, FailedKeptNothing
<1> QED
  BY <1>1, <1>2 DEF Counts

LEMMA CountsStep == Counts /\ [Next]_vars => Counts'
<1> SUFFICES ASSUME Counts, [Next]_vars PROVE Counts'
  OBVIOUS
<1>0. Typed'
  BY TypedStep DEF Counts
<1>1. ASSUME NEW r \in Reviews, NEW text \in Contents, Edit(r, text) PROVE Counts'
  <2>1. UNCHANGED <<runs, slot>>
    BY <1>1 DEF Edit
  <2>2. CountInv' /\ SuccessCountsExact' /\ FailedKeptNothing'
    BY <2>1 DEF Counts, CountInv, CountOK, Changes, SuccessCountsExact, FailedKeptNothing
  <2> QED
    BY <1>0, <2>2 DEF Counts
<1>2. ASSUME NEW s \in Slots, NEW m \in {"backfill", "incremental"}, ReadWatermark(s, m)
      PROVE  Counts'
  BY <1>0, <1>2, FetchCounts
<1>3. ASSUME NEW s \in Slots, StartRun(s) PROVE Counts'
  BY <1>0, <1>3, StartCounts
<1>4. ASSUME NEW s \in Slots, FetchPage(s) PROVE Counts'
  BY <1>0, <1>4, FetchCounts
<1>5. ASSUME NEW s \in Slots, Absorb(s) PROVE Counts'
  BY <1>0, <1>5, AbsorbCounts
<1>6. ASSUME NEW s \in Slots, CommitPage(s) PROVE Counts'
  BY <1>0, <1>6, CommitCounts
<1>7. ASSUME NEW s \in Slots, Finish(s) \/ Fail(s) PROVE Counts'
  BY <1>0, <1>7, EndCounts
<1>8. ASSUME NEW s \in Slots, StepFails(s) PROVE Counts'
  BY <1>0, <1>8, FailCounts
<1>9. ASSUME NEW s \in Slots, RecordFails(s) \/ Crash(s) PROVE Counts'
  <2>1. Leave(s) /\ runs' = runs
    BY <1>9 DEF RecordFails, Crash
  <2> QED
    BY <1>0, <2>1, LeaveCounts
<1>10. CASE UNCHANGED vars
  <2>1. CountInv' /\ SuccessCountsExact' /\ FailedKeptNothing'
    BY <1>10 DEF Counts, CountInv, CountOK, Changes, SuccessCountsExact, FailedKeptNothing
  <2> QED
    BY <1>0, <2>1 DEF Counts
<1> QED
  BY <1>1, <1>2, <1>3, <1>4, <1>5, <1>6, <1>7, <1>8, <1>9, <1>10 DEF Next, Walk

LEMMA AlwaysCounts == Spec => []Counts
  BY CountsInit, CountsStep, PTL DEF Spec

(* The counts a successful run reports are the rows it wrote, however many  *)
(* syncs overlap and whatever fails (IngestionService._absorb, _run).       *)
THEOREM SuccessCountsAreExact == Spec => []SuccessCountsExact
<1>1. Counts => SuccessCountsExact
  BY DEF Counts
<1> QED
  BY <1>1, AlwaysCounts, PTL

(* A run reported `failed` kept nothing of what it read (_fail).            *)
THEOREM FailedRunsKeptNothing == Spec => []FailedKeptNothing
<1>1. Counts => FailedKeptNothing
  BY DEF Counts
<1> QED
  BY <1>1, AlwaysCounts, PTL

-----------------------------------------------------------------------------
(* Rows, when one slot executes syncs.                                     *)

OneSlot == \A s, t \in Slots : s = t

Rows == Typed /\ PageInv /\ AnalysisAgrees

(* What a slot has at hand when nothing is.                                 *)
LEMMA NoPage == DOMAIN Empty = {}
  BY DEF Empty

(* The conjuncts of PageInv about the page in hand.                         *)
PageOf(s) ==
    /\ \A r \in DOMAIN got[s] :
            0 < got[s][r].at /\ Behind(stored[r], got[s][r]) /\ Behind(got[s][r], src[r])
    /\ pc[s] = "commit" =>
            DOMAIN seen[s] = News(s) /\ \A r \in News(s) : seen[s][r] = stored[r]

(* A step of the only slot leaves the source and, but for a commit, the     *)
(* table as they are.                                                       *)
LEMMA SameRows ==
    ASSUME Rows, OneSlot, Typed', NEW s \in Slots, UNCHANGED <<source, stored>>, PageOf(s)'
    PROVE  Rows'
<1>1. PageInv'
  BY DEF Rows, PageInv, PageOf, OneSlot
<1>2. AnalysisAgrees'
  BY DEF Rows, AnalysisAgrees
<1> QED
  BY <1>1, <1>2 DEF Rows

(* A step that takes no page, and drops the one in hand or keeps it.        *)
LEMMA SamePageRows ==
    ASSUME Rows, OneSlot, Typed', NEW s \in Slots, UNCHANGED <<source, stored>>,
           pc'[s] # "commit", got'[s] \in {got[s], Empty}
    PROVE  Rows'
<1>1. \A r \in DOMAIN got[s] :
            0 < got[s][r].at /\ Behind(stored[r], got[s][r]) /\ Behind(got[s][r], src[r])
  BY DEF Rows, PageInv
<1>2. PageOf(s)'
  <2>1. CASE got'[s] = got[s]
    BY <1>1, <2>1 DEF PageOf
  <2>2. CASE got'[s] = Empty
    BY <2>2, NoPage DEF PageOf
  <2> QED
    BY <2>1, <2>2
<1> QED
  BY <1>2, SameRows

LEMMA EditRows ==
    ASSUME Rows, Typed', NEW r \in Reviews, NEW text \in Contents, Edit(r, text)
    PROVE  Rows'
<1>1. /\ now \in Nat /\ now' = now + 1 /\ src' = [src EXCEPT ![r] = [at |-> now', text |-> text]]
      /\ UNCHANGED <<stored, slot>>
      /\ src \in [Reviews -> Version] /\ stored \in [Reviews -> Row]
  BY DEF Edit, Rows, Typed, TypeOK
<1>2. \A q \in Reviews : src[q].at \in Nat /\ stored[q].at \in Nat
  BY <1>1 DEF Version, Row
<1>3. \A q \in Reviews : src[q].at <= now /\ Behind(stored[q], src[q])
  BY DEF Rows, PageInv
<1>4. \A q \in Reviews : src'[q] = IF q = r THEN [at |-> now + 1, text |-> text] ELSE src[q]
  BY <1>1
<1>5. ASSUME NEW old, old.at \in Nat, NEW q \in Reviews, Behind(old, src[q])
      PROVE  Behind(old, src'[q])
  BY <1>1, <1>2, <1>3, <1>4, <1>5 DEF Behind
<1>6. \A q \in Reviews : src'[q].at <= now' /\ Behind(stored'[q], src'[q])
  BY <1>1, <1>2, <1>3, <1>4, <1>5
<1>7. ASSUME NEW s \in Slots, NEW q \in DOMAIN got[s] PROVE Behind(got[s][q], src'[q])
  <2>1. got[s][q].at \in Nat /\ q \in Reviews
    BY DEF Rows, Typed, TypeOK, PageOK, Version
  <2> QED
    BY <1>5, <2>1 DEF Rows, PageInv
<1>8. PageInv'
  BY <1>1, <1>6, <1>7 DEF Rows, PageInv, News
<1>9. AnalysisAgrees'
  BY <1>1 DEF Rows, AnalysisAgrees
<1> QED
  BY <1>8, <1>9 DEF Rows

LEMMA FetchRows ==
    ASSUME Rows, OneSlot, Typed', NEW s \in Slots, FetchPage(s)
    PROVE  Rows'
<1>1. UNCHANGED <<source, stored>> /\ pc'[s] # "commit"
  BY DEF FetchPage, Goto, Rows, Typed, TypeOK
<1>2. CASE \E r \in Page(cursor[s]) : src[r].text = Malformed
  BY <1>1, <1>2, SamePageRows DEF FetchPage
<1>3. CASE ~\E r \in Page(cursor[s]) : src[r].text = Malformed
  <2> DEFINE new == [r \in {q \in Page(cursor[s]) : Mappable(src[q])} |-> src[r]]
  <2>1. got'[s] = new
    BY <1>3 DEF FetchPage, Rows, Typed, PerSlot
  <2>2. \A r \in DOMAIN new : r \in Reviews /\ new[r] = src[r] /\ 0 < src[r].at
    BY DEF Page, Posted, Rows, Typed, TypeOK, Version
  <2> HIDE DEF new
  <2>3. \A r \in DOMAIN new : Behind(stored[r], new[r]) /\ Behind(new[r], src[r])
    <3>1. \A r \in Reviews : Behind(stored[r], src[r]) /\ src[r].at \in Nat
      BY DEF Rows, PageInv, Typed, TypeOK, Version
    <3> QED
      BY <2>2, <3>1 DEF Behind
  <2>4. PageOf(s)'
    BY <1>1, <2>1, <2>2, <2>3 DEF PageOf
  <2> QED
    BY <1>1, <2>4, SameRows
<1> QED
  BY <1>2, <1>3

LEMMA AbsorbRows ==
    ASSUME Rows, OneSlot, Typed', NEW s \in Slots, Absorb(s)
    PROVE  Rows'
<1> DEFINE read == [r \in News(s) |-> stored[r]]
<1>1. seen'[s] = read /\ UNCHANGED <<source, stored, stop, got>>
  BY DEF Absorb, Rows, Typed, PerSlot
<1>2. News(s)' = News(s)
  BY <1>1 DEF News
<1>3. DOMAIN seen'[s] = News(s) /\ \A r \in News(s) : seen'[s][r] = stored[r]
  BY <1>1
<1>4. PageOf(s)'
  BY <1>1, <1>2, <1>3 DEF PageOf, Rows, PageInv
<1> QED
  BY <1>1, <1>4, SameRows

(* The page's commit takes each row it changes to the version in hand, which*)
(* is strictly newer.                                                       *)
LEMMA CommitWrites ==
    ASSUME Rows, NEW s \in Slots, CommitPage(s), NEW r \in Reviews, stored'[r] # stored[r]
    PROVE  /\ r \in News(s) /\ got[s][r].at > stored[r].at
           /\ stored'[r].at = got[s][r].at /\ stored'[r].text = got[s][r].text
           /\ stored'[r].analysis = AnalysisOf(got[s][r].text)
<1>1. stored' = [q \in Reviews |-> IF q \in Changes(s)
                   THEN Written(stored[q], seen[s][q], got[s][q]) ELSE stored[q]]
  BY DEF CommitPage
<1>2. r \in Changes(s) /\ stored'[r] = Written(stored[r], seen[s][r], got[s][r])
  BY <1>1
<1>3. r \in News(s) /\ r \in DOMAIN got[s] /\ seen[s][r] = stored[r]
  BY <1>2 DEF Changes, Rows, PageInv, CommitPage, News
<1>4. Differs(stored[r], got[s][r]) /\ Behind(stored[r], got[s][r])
  BY <1>2, <1>3 DEF Changes, Rows, PageInv
<1>5. stored[r].at \in Nat /\ got[s][r].at \in Nat /\ stored[r].analysis = AnalysisOf(stored[r].text)
  BY <1>3 DEF Rows, Typed, TypeOK, PageOK, Row, Version, AnalysisAgrees
<1>6. got[s][r].at # stored[r].at /\ got[s][r].at > stored[r].at
  BY <1>4, <1>5 DEF Differs, Behind
<1>7. stored'[r] = Written(stored[r], stored[r], got[s][r])
  BY <1>2, <1>3
<1>8. CASE stored[r] = NoRow
  BY <1>3, <1>6, <1>7, <1>8 DEF Written
<1>9. CASE stored[r] # NoRow
  BY <1>3, <1>5, <1>6, <1>7, <1>9 DEF Written
<1> QED
  BY <1>8, <1>9

LEMMA CommitRows ==
    ASSUME Rows, OneSlot, Typed', NEW s \in Slots, CommitPage(s)
    PROVE  Rows'
<1>1. src' = src /\ now' = now /\ got'[s] = Empty /\ pc'[s] # "commit"
  BY DEF CommitPage, Goto, Rows, Typed, TypeOK, PerSlot
<1>2. ASSUME NEW r \in Reviews PROVE Behind(stored'[r], src[r])
  <2>1. CASE stored'[r] = stored[r]
    BY <2>1 DEF Rows, PageInv
  <2>2. CASE stored'[r] # stored[r]
    <3>1. r \in DOMAIN got[s] /\ stored'[r].at = got[s][r].at /\ stored'[r].text = got[s][r].text
      BY <2>2, CommitWrites DEF News
    <3> QED
      BY <3>1 DEF Rows, PageInv, Behind
  <2> QED
    BY <2>1, <2>2
<1>3. PageInv'
  BY <1>1, <1>2, NoPage DEF OneSlot, PageInv, Rows
<1>4. AnalysisAgrees'
  <2> SUFFICES ASSUME NEW r \in Reviews PROVE stored'[r].analysis = AnalysisOf(stored'[r].text)
    BY DEF AnalysisAgrees
  <2>1. CASE stored'[r] = stored[r]
    BY <2>1 DEF Rows, AnalysisAgrees
  <2>2. CASE stored'[r] # stored[r]
    BY <2>2, CommitWrites
  <2> QED
    BY <2>1, <2>2
<1> QED
  BY <1>3, <1>4 DEF Rows

LEMMA RowsInit == Init => Rows
<1> SUFFICES ASSUME Init PROVE Rows
  OBVIOUS
<1>1. PageInv
  BY NoPage DEF Init, PageInv, Behind, NoRow, NotPosted
<1>2. AnalysisAgrees
  BY DEF Init, AnalysisAgrees, AnalysisOf, NoRow
<1> QED
  BY <1>1, <1>2, TypedInit DEF Rows

LEMMA RowsStep == ASSUME OneSlot, Rows, [Next]_vars PROVE Rows'
<1>0. Typed'
  BY TypedStep DEF Rows
<1>1. ASSUME NEW r \in Reviews, NEW text \in Contents, Edit(r, text) PROVE Rows'
  BY <1>0, <1>1, EditRows
<1>2. ASSUME NEW s \in Slots, NEW m \in {"backfill", "incremental"}, ReadWatermark(s, m)
      PROVE  Rows'
  BY <1>0, <1>2, SamePageRows DEF ReadWatermark, Goto, Rows, Typed, TypeOK
<1>3. ASSUME NEW s \in Slots, StartRun(s) PROVE Rows'
  <2>1. /\ UNCHANGED <<src, stored, got>> /\ now' = now + 1 /\ now \in Nat
        /\ pc' = [pc EXCEPT ![s] = "fetch"]
    BY <1>3 DEF StartRun, Goto, Rows, Typed, TypeOK
  <2>2. \A q \in Reviews : src[q].at \in Nat /\ src[q].at <= now
    BY DEF Rows, PageInv, Typed, TypeOK, Version
  <2>3. \A q \in Reviews : src[q].at <= now'
    BY <2>1, <2>2
  <2>4. pc'[s] # "commit"
    BY <2>1 DEF Rows, Typed, TypeOK
  <2>5. PageInv' /\ AnalysisAgrees'
    BY <2>1, <2>3, <2>4 DEF Rows, PageInv, AnalysisAgrees, OneSlot
  <2> QED
    BY <1>0, <2>5 DEF Rows
<1>4. ASSUME NEW s \in Slots, FetchPage(s) PROVE Rows'
  BY <1>0, <1>4, FetchRows
<1>5. ASSUME NEW s \in Slots, Absorb(s) PROVE Rows'
  BY <1>0, <1>5, AbsorbRows
<1>6. ASSUME NEW s \in Slots, CommitPage(s) PROVE Rows'
  BY <1>0, <1>6, CommitRows
<1>7. ASSUME NEW s \in Slots, Leave(s), UNCHANGED <<source, stored>> PROVE Rows'
  <2>1. pc'[s] # "commit" /\ got'[s] = Empty
    BY <1>7 DEF Leave, Goto, Rows, Typed, TypeOK, PerSlot
  <2> QED
    BY <1>0, <1>7, <2>1, SamePageRows
<1>8. ASSUME NEW s \in Slots, Finish(s) \/ Fail(s) \/ RecordFails(s) \/ Crash(s) PROVE Rows'
  BY <1>7, <1>8 DEF Finish, Fail, RecordFails, Crash
<1>9. ASSUME NEW s \in Slots, StepFails(s) PROVE Rows'
  <2>1. pc'[s] # "commit" /\ got'[s] = Empty /\ UNCHANGED <<source, stored>>
    BY <1>9 DEF StepFails, Goto, Rows, Typed, TypeOK, PerSlot
  <2> QED
    BY <1>0, <2>1, SamePageRows
<1>10. CASE UNCHANGED vars
  <2>1. PageInv' /\ AnalysisAgrees'
    BY <1>10 DEF Rows, PageInv, AnalysisAgrees, News
  <2> QED
    BY <1>0, <2>1 DEF Rows
<1> QED
  BY <1>1, <1>2, <1>3, <1>4, <1>5, <1>6, <1>8, <1>9, <1>10 DEF Next, Walk

LEMMA AlwaysRows == ASSUME OneSlot PROVE Spec => []Rows
<1>1. Rows /\ [Next]_vars => Rows'
  BY RowsStep
<1> QED
  BY <1>1, RowsInit, PTL DEF Spec

(* With one sync at a time, a stored review waits for analysis exactly when *)
(* it has a text (ReviewRepository.upsert).                                 *)
THEOREM OneSlotAnalysisAgrees == ASSUME OneSlot PROVE Spec => []AnalysisAgrees
<1>1. Rows => AnalysisAgrees
  BY DEF Rows
<1> QED
  BY <1>1, AlwaysRows, PTL

(* With one sync at a time, a row is only ever replaced by a strictly newer *)
(* version, although upsert compares no times.                              *)
THEOREM OneSlotWritesNews == ASSUME OneSlot PROVE Spec => OnlyNewsIsWritten
<1>1. Rows /\ [Next]_vars =>
          [\A r \in Reviews : stored'[r] # stored[r] => stored'[r].at > stored[r].at]_vars
  <2> SUFFICES ASSUME Rows, [Next]_vars, NEW r \in Reviews, stored'[r] # stored[r]
               PROVE  stored'[r].at > stored[r].at
    OBVIOUS
  <2>1. \E s \in Slots : CommitPage(s)
    BY DEF Next, Walk, Edit, ReadWatermark, StartRun, FetchPage, Absorb, Finish, Fail, StepFails,
           RecordFails, Crash
  <2> QED
    BY <2>1, CommitWrites
<1> QED
  BY <1>1, AlwaysRows, PTL DEF Spec, OnlyNewsIsWritten

-----------------------------------------------------------------------------
(* The watermark, when one slot executes syncs and the clocks agree.       *)

Complete == Rows /\ StampInv /\ WalkInv /\ WatermarkComplete

(* Positions count reviews, from 1, and an older review comes later.        *)
LEMMA PositionFacts ==
    ASSUME Typed, NEW r \in Posted
    PROVE  /\ IsFiniteSet(Newer(r)) /\ Position(r) \in Nat /\ Position(r) > 0
           /\ \A q \in Posted : src[q].at <= src[r].at => Position(r) <= Position(q)
<1>1. \A q \in Posted : q \in Reviews /\ src[q].at \in Nat
  BY DEF Typed, TypeOK, Posted, Version
<1>2. \A q \in Posted : IsFiniteSet(Newer(q)) /\ Cardinality(Newer(q)) \in Nat
  <2>1. \A q \in Posted : Newer(q) \subseteq Reviews
    BY <1>1 DEF Newer
  <2> QED
    BY <2>1, FS_Subset, FS_CardinalityType, SyncAssumption
<1>3. r \in Newer(r)
  BY <1>1 DEF Newer
<1>4. Cardinality(Newer(r)) # 0
  BY <1>2, <1>3, FS_EmptySet
<1>5. ASSUME NEW q \in Posted, src[q].at <= src[r].at PROVE Position(r) <= Position(q)
  <2>1. Newer(r) \subseteq Newer(q)
    BY <1>1, <1>5 DEF Newer
  <2> QED
    BY <1>2, <2>1, FS_Subset DEF Position
<1> QED
  BY <1>2, <1>4, <1>5 DEF Position

(* An edit moves other reviews away from the cursor, never towards it.      *)
LEMMA EditMovesAway ==
    ASSUME Rows, Typed', NEW r \in Reviews, NEW text \in Contents, Edit(r, text),
           NEW q \in Posted, q # r
    PROVE  q \in Posted' /\ Position(q) \in Nat /\ Position(q)' \in Nat /\ Position(q) <= Position(q)'
<1>1. /\ now \in Nat /\ now' = now + 1 /\ src' = [src EXCEPT ![r] = [at |-> now', text |-> text]]
      /\ src \in [Reviews -> Version]
  BY DEF Edit, Rows, Typed, TypeOK
<1>2. \A p \in Reviews : /\ src[p].at \in Nat /\ src[p].at <= now
                         /\ p # r => src'[p] = src[p]
                         /\ p = r => src'[p].at = now + 1
  BY <1>1 DEF Version, Rows, PageInv
<1>3. q \in Reviews /\ q \in Posted' /\ src'[q] = src[q]
  BY <1>2 DEF Posted
<1>4. ASSUME NEW p \in Newer(q) PROVE p \in Newer(q)'
  <2>1. p \in Reviews /\ src[p].at > 0 /\ src[p].at >= src[q].at
    BY DEF Newer, Posted
  <2>2. src'[p].at >= src[p].at /\ src'[p].at \in Nat
    BY <1>1, <1>2, <2>1
  <2> QED
    BY <1>2, <1>3, <2>1, <2>2 DEF Newer, Posted
<1>5. IsFiniteSet(Newer(q)') /\ Newer(q)' \subseteq Reviews
  <2>1. Newer(q)' \subseteq Reviews
    BY DEF Newer, Posted
  <2> QED
    BY <2>1, FS_Subset, SyncAssumption
<1>6. Newer(q) \subseteq Newer(q)'
  BY <1>4
<1>7. IsFiniteSet(Newer(q)) /\ Cardinality(Newer(q)) <= Cardinality(Newer(q)')
  BY <1>5, <1>6, FS_Subset
<1>8. Cardinality(Newer(q)) \in Nat /\ Cardinality(Newer(q)') \in Nat
  BY <1>5, <1>7, FS_CardinalityType
<1>9. Position(q)' = Cardinality(Newer(q)')
  BY DEF Position
<1> QED
  BY <1>3, <1>7, <1>8, <1>9 DEF Position

LEMMA EditCompletes ==
    ASSUME Complete, Skew = 0, Rows', NEW r \in Reviews, NEW text \in Contents, Edit(r, text)
    PROVE  Complete'
<1>1. /\ now \in Nat /\ now' = now + 1 /\ src' = [src EXCEPT ![r] = [at |-> now', text |-> text]]
      /\ UNCHANGED <<stored, runs, slot>> /\ src \in [Reviews -> Version] /\ Typed /\ Rows
      /\ cursor \in [Slots -> Nat]
  BY DEF Edit, Complete, Rows, Typed, TypeOK
<1>2. \A k \in RunIds : runs[k].started \in Nat /\ runs[k].started <= now
  BY <1>1 DEF Typed, TypeOK, Past, Run
<1>3. StampInv'
  BY <1>1, <1>2 DEF Complete, StampInv, LastSuccessful
<1>4. ASSUME NEW q \in Posted', NEW k \in RunIds, src'[q].at <= runs[k].started
      PROVE  /\ q # r /\ src'[q] = src[q] /\ q \in Posted
             /\ Current(q)' <=> Current(q)
             /\ Position(q) \in Nat /\ Position(q)' \in Nat /\ Position(q) <= Position(q)'
  <2>1. q \in Reviews /\ (q = r => src'[q].at = now + 1)
    BY <1>1 DEF Posted
  <2>2. q # r
    BY <1>1, <1>2, <1>4, <2>1
  <2>3. src'[q] = src[q] /\ q \in Posted
    BY <1>1, <2>1, <2>2 DEF Posted
  <2> QED
    BY <1>1, <2>2, <2>3, EditMovesAway DEF Rows, Current
<1>5. WatermarkComplete'
  <2> SUFFICES ASSUME NEW k \in RunIds, runs'[k].status = "success", NEW q \in Posted',
                      Mappable(src'[q]), src'[q].at <= runs'[k].started
               PROVE  Current(q)'
    BY DEF WatermarkComplete
  <2> QED
    BY <1>1, <1>4 DEF Complete, WatermarkComplete
<1>6. WalkInv'
  <2> SUFFICES ASSUME NEW s \in Slots, Active(s)
               PROVE  /\ pc[s] = "fetch" => \A q \in Due(s)' : Position(q)' > cursor[s]
                      /\ pc[s] \in {"absorb", "commit"} => \A q \in Due(s)' :
                            \/ q \in DOMAIN got[s] /\ got[s][q] = src'[q]
                            \/ /\ ~last[s] /\ Position(q)' > cursor[s] + PageSize
                               /\ \A p \in DOMAIN got[s] : src'[q].at < got[s][p].at
                      /\ pc[s] = "finish" => Due(s)' = {}
    <3>1. \A s \in Slots : Active(s) => run[s] \in RunIds
      BY <1>1 DEF Typed, TypeOK, PageOK
    <3>2. \A s \in Slots : Active(s) => runs[run[s]].started <= now' + Skew
      BY <1>1, <1>2, <3>1
    <3> QED
      BY <1>1, <3>2 DEF Complete, WalkInv
  <2>1. run[s] \in RunIds /\ cursor[s] \in Nat /\ PageSize \in Nat
    BY <1>1, SyncAssumption DEF Typed, TypeOK, PageOK
  <2>2. ASSUME NEW q \in Due(s)'
        PROVE  /\ q \in Due(s) /\ src'[q] = src[q]
               /\ Position(q) \in Nat /\ Position(q)' \in Nat /\ Position(q) <= Position(q)'
    <3>1. q \in Posted' /\ Mappable(src'[q]) /\ src'[q].at <= runs[run[s]].started /\ ~Current(q)'
      BY <1>1 DEF Due
    <3>2. /\ q # r /\ src'[q] = src[q] /\ q \in Posted
          /\ Current(q)' <=> Current(q)
          /\ Position(q) \in Nat /\ Position(q)' \in Nat /\ Position(q) <= Position(q)'
      BY <1>4, <2>1, <3>1
    <3> QED
      BY <3>1, <3>2 DEF Due
  <2>3. CASE pc[s] = "fetch"
    <3>1. \A q \in Due(s) : Position(q) > cursor[s]
      BY <2>3 DEF Complete, WalkInv
    <3> QED
      BY <2>1, <2>2, <2>3, <3>1
  <2>4. CASE pc[s] \in {"absorb", "commit"}
    <3> SUFFICES ASSUME NEW q \in Due(s)'
                 PROVE  \/ q \in DOMAIN got[s] /\ got[s][q] = src'[q]
                        \/ /\ ~last[s] /\ Position(q)' > cursor[s] + PageSize
                           /\ \A p \in DOMAIN got[s] : src'[q].at < got[s][p].at
      BY <2>4
    <3>1. \/ q \in DOMAIN got[s] /\ got[s][q] = src[q]
          \/ /\ ~last[s] /\ Position(q) > cursor[s] + PageSize
             /\ \A p \in DOMAIN got[s] : src[q].at < got[s][p].at
      BY <2>2, <2>4 DEF Complete, WalkInv
    <3> QED
      BY <2>1, <2>2, <3>1
  <2>5. CASE pc[s] = "finish"
    <3>1. Due(s) = {}
      BY <2>5 DEF Complete, WalkInv
    <3> QED
      BY <2>2, <2>5, <3>1
  <2>6. CASE pc[s] \notin {"fetch", "absorb", "commit", "finish"}
    BY <2>6
  <2> QED
    BY <2>3, <2>4, <2>5, <2>6
<1> QED
  BY <1>3, <1>5, <1>6 DEF Complete

(* A step that writes no row and makes no run a success or a later one.     *)
LEMMA SameTablesComplete ==
    ASSUME Complete, OneSlot, Rows', NEW s \in Slots, UNCHANGED <<src, stored>>,
           \A k \in RunIds : runs'[k].status = "success" =>
                runs[k].status = "success" /\ runs'[k].started = runs[k].started,
           stop'[s] = 0 \/ stop'[s] \in LastSuccessful', WalkInv'
    PROVE  Complete'
<1>1. StampInv'
  BY DEF Rows, Typed, Past, StampInv, OneSlot
<1>2. WatermarkComplete'
  BY DEF Complete, WatermarkComplete, Posted, Current
<1> QED
  BY <1>1, <1>2 DEF Complete

(* The end of a job, or of a walk that failed.                              *)
LEMMA StoppedComplete ==
    ASSUME Complete, OneSlot, Rows', NEW s \in Slots, UNCHANGED <<source, stored>>,
           \/ pc' = [pc EXCEPT ![s] = "idle"] /\ stop' = [stop EXCEPT ![s] = 0]
           \/ /\ pc' = [pc EXCEPT ![s] = "failing"] /\ Active(s)
              /\ UNCHANGED <<run, runs, stop>>,
           \/ runs' = runs
           \/ \E end \in {"partial", "failed"} : EndRun(s, end) /\ run[s] \in RunIds
    PROVE  Complete'
<1>1. Typed
  BY DEF Complete, Rows
<1>2. \A k \in RunIds : runs'[k].status = "success" =>
            runs[k].status = "success" /\ runs'[k].started = runs[k].started
  <2>1. ASSUME NEW end \in {"partial", "failed"}, EndRun(s, end), run[s] \in RunIds,
               NEW k \in RunIds, runs'[k].status = "success"
        PROVE  runs[k].status = "success" /\ runs'[k].started = runs[k].started
    <3>1. runs' = [runs EXCEPT ![run[s]].status = end, ![run[s]].stored = outcome[s]]
      BY <2>1 DEF EndRun
    <3>2. runs \in [RunIds -> Run]
      BY <1>1 DEF Typed, TypeOK
    <3>3. k # run[s]
      BY <2>1, <3>1, <3>2 DEF Run
    <3> QED
      BY <2>1, <3>1, <3>2, <3>3
  <2> QED
    BY <2>1
<1>3. CASE pc' = [pc EXCEPT ![s] = "idle"] /\ stop' = [stop EXCEPT ![s] = 0]
  <2>1. pc'[s] = "idle" /\ stop'[s] = 0
    BY <1>1, <1>3 DEF Typed, TypeOK
  <2>2. WalkInv'
    BY <2>1 DEF WalkInv, OneSlot
  <2> QED
    BY <1>2, <2>1, <2>2, SameTablesComplete
<1>4. CASE pc' = [pc EXCEPT ![s] = "failing"] /\ Active(s) /\ UNCHANGED <<run, runs, stop>>
  <2>1. pc'[s] = "failing" /\ stop'[s] = stop[s] /\ LastSuccessful' = LastSuccessful
    BY <1>1, <1>4 DEF Typed, TypeOK, LastSuccessful
  <2>2. WalkInv'
    BY <1>4, <2>1 DEF WalkInv, OneSlot, Complete
  <2> QED
    BY <1>2, <2>1, <2>2, SameTablesComplete DEF Complete, StampInv
<1> QED
  BY <1>3, <1>4

LEMMA ReadCompletes ==
    ASSUME Complete, OneSlot, Rows', NEW s \in Slots, NEW m, ReadWatermark(s, m)
    PROVE  Complete'
<1>1. UNCHANGED <<source, stored, runs>> /\ pc'[s] = "start" /\ stop'[s] = Watermark(m)
  BY DEF ReadWatermark, Goto, Complete, Rows, Typed, TypeOK
<1>2. stop'[s] = 0 \/ stop'[s] \in LastSuccessful'
  BY <1>1, WatermarkIsStart DEF Complete, Rows, LastSuccessful
<1>3. WalkInv'
  BY <1>1 DEF WalkInv, OneSlot
<1> QED
  BY <1>1, <1>2, <1>3, SameTablesComplete

(* At the start everything is ahead, and no other run started later.        *)
LEMMA StartCompletes ==
    ASSUME Complete, OneSlot, Skew = 0, Rows', NEW s \in Slots, StartRun(s)
    PROVE  Complete'
<1>1. PICK k \in RunIds :
        /\ runs[k].status = "none"
        /\ run' = [run EXCEPT ![s] = k]
        /\ runs' = [runs EXCEPT ![k] =
             [status |-> "running", started |-> now' + Skew, stored |-> 0, kept |-> 0]]
  BY DEF StartRun
<1>2. /\ UNCHANGED <<src, stored, stop>> /\ pc'[s] = "fetch" /\ run'[s] = k /\ cursor'[s] = 0
      /\ now' = now + 1 /\ now \in Nat /\ runs \in [RunIds -> Run] /\ Typed /\ Typed' /\ Past
  BY <1>1 DEF StartRun, Goto, Complete, Rows, Typed, TypeOK
<1>3. \A i \in RunIds : /\ i # k => runs'[i] = runs[i]
                        /\ i = k => runs'[i].status = "running" /\ runs'[i].started = now'
  BY <1>1, <1>2
<1>4. stop'[s] = 0 \/ stop'[s] \in LastSuccessful'
  <2>1. LastSuccessful \subseteq LastSuccessful'
    BY <1>1, <1>3 DEF LastSuccessful
  <2> QED
    BY <1>2, <2>1 DEF Complete, StampInv
<1>5. \A i \in RunIds : runs'[i].started <= now'
  <2>1. \A i \in RunIds : runs[i].started \in Nat /\ runs[i].started <= now
    BY <1>2 DEF Past, Run
  <2> QED
    BY <1>2, <1>3, <2>1
<1>6. \A r \in Posted' : Position(r)' > 0
  <2>1. \A r \in Posted : Position(r) > 0
    BY <1>2, PositionFacts
  <2> QED
    BY <1>2, <2>1 DEF Posted, Position, Newer
<1>7. \A r \in Due(s)' : Position(r)' > cursor'[s]
  BY <1>2, <1>6 DEF Due
<1>8. runs'[run'[s]].started = now' /\ now' + Skew = now'
  BY <1>2, <1>3
<1>9. WalkInv'
  BY <1>2, <1>5, <1>7, <1>8 DEF WalkInv, OneSlot
<1> QED
  BY <1>2, <1>3, <1>4, <1>9, SameTablesComplete

(* What is due and ahead of the cursor is in the page read there, or behind *)
(* it and older than all of it.                                             *)
LEMMA FetchCompletes ==
    ASSUME Complete, OneSlot, Rows', NEW s \in Slots, FetchPage(s)
    PROVE  Complete'
<1>1. /\ UNCHANGED <<source, stored, runs, stop, run, cursor>> /\ pc[s] = "fetch" /\ Active(s)
      /\ Typed /\ cursor[s] \in Nat /\ PageSize \in Nat
  BY SyncAssumption DEF FetchPage, Complete, Rows, Typed, TypeOK
<1>2. CASE \E r \in Page(cursor[s]) : src[r].text = Malformed
  BY <1>1, <1>2, StoppedComplete DEF FetchPage, Goto
<1>3. CASE ~\E r \in Page(cursor[s]) : src[r].text = Malformed
  <2> DEFINE page == {q \in Page(cursor[s]) : Mappable(src[q])}
             new  == [r \in page |-> src[r]]
  <2>1. got'[s] = new /\ last'[s] = IsLast(cursor[s]) /\ pc'[s] = "absorb"
    BY <1>1, <1>3 DEF FetchPage, Goto, Typed, TypeOK, PerSlot
  <2>2. DOMAIN new = page /\ \A r \in page : new[r] = src[r]
    OBVIOUS
  <2> HIDE DEF new, page
  <2>3. ASSUME NEW r \in Due(s)
        PROVE  \/ r \in DOMAIN new /\ new[r] = src[r]
               \/ /\ ~IsLast(cursor[s]) /\ Position(r) > cursor[s] + PageSize
                  /\ \A q \in DOMAIN new : src[r].at < new[q].at
    <3>1. r \in Posted /\ Mappable(src[r]) /\ Position(r) > cursor[s]
      BY <1>1 DEF Due, Complete, WalkInv
    <3>2. Position(r) \in Nat /\ src[r].at \in Nat
      BY <1>1, <3>1, PositionFacts DEF Typed, TypeOK, Posted, Version
    <3>3. CASE Position(r) <= cursor[s] + PageSize
      BY <2>2, <3>1, <3>3 DEF Page, page
    <3>4. CASE Position(r) > cursor[s] + PageSize
      <4>1. ~IsLast(cursor[s])
        BY <1>1, <3>1, <3>2, <3>4 DEF IsLast
      <4>2. ASSUME NEW q \in DOMAIN new PROVE src[r].at < new[q].at
        <5>1. q \in Posted /\ Position(q) <= cursor[s] + PageSize /\ new[q] = src[q]
          BY <2>2 DEF Page, page
        <5>2. src[q].at \in Nat /\ Position(q) \in Nat
          BY <1>1, <5>1, PositionFacts DEF Typed, TypeOK, Posted, Version
        <5>3. ~(src[q].at <= src[r].at)
          <6>1. ASSUME src[q].at <= src[r].at PROVE Position(r) <= Position(q)
            BY <1>1, <3>1, <5>1, <6>1, PositionFacts
          <6> QED
            BY <1>1, <3>2, <3>4, <5>1, <5>2, <6>1
        <5> QED
          BY <3>2, <5>1, <5>2, <5>3
      <4> QED
        BY <3>4, <4>1, <4>2
    <3> QED
      BY <1>1, <3>2, <3>3, <3>4
  <2>4. Due(s)' = Due(s) /\ \A r \in Posted : Position(r)' = Position(r)
    BY <1>1 DEF Due, Posted, Current, Position, Newer
  <2>5. \A r \in Due(s)' :
            \/ r \in DOMAIN got'[s] /\ got'[s][r] = src'[r]
            \/ /\ ~last'[s] /\ Position(r)' > cursor'[s] + PageSize
               /\ \A q \in DOMAIN got'[s] : src'[r].at < got'[s][q].at
    BY <1>1, <2>1, <2>3, <2>4 DEF Due
  <2>6. /\ \A k \in RunIds : runs[k].started <= runs[run[s]].started
        /\ runs[run[s]].started <= now + Skew
    BY <1>1 DEF Complete, WalkInv
  <2>7. WalkInv'
    BY <1>1, <2>1, <2>5, <2>6 DEF WalkInv, OneSlot
  <2>8. stop'[s] = 0 \/ stop'[s] \in LastSuccessful'
    BY <1>1 DEF Complete, StampInv, LastSuccessful
  <2> QED
    BY <1>1, <2>7, <2>8, SameTablesComplete
<1> QED
  BY <1>2, <1>3

LEMMA AbsorbCompletes ==
    ASSUME Complete, OneSlot, Rows', NEW s \in Slots, Absorb(s)
    PROVE  Complete'
<1>1. /\ UNCHANGED <<source, stored, runs, stop, run, cursor, got, last>>
      /\ pc[s] = "absorb" /\ pc'[s] = "commit"
  BY DEF Absorb, Goto, Complete, Rows, Typed, TypeOK
<1>2. Due(s)' = Due(s) /\ \A r \in Due(s) : Position(r)' = Position(r)
  BY <1>1 DEF Due, Posted, Current, Position, Newer
<1>3. WalkInv'
  BY <1>1, <1>2 DEF Complete, WalkInv, OneSlot
<1>4. stop'[s] = 0 \/ stop'[s] \in LastSuccessful'
  BY <1>1 DEF Complete, StampInv, LastSuccessful
<1> QED
  BY <1>1, <1>3, <1>4, SameTablesComplete

(* No review at or below the watermark is due: an earlier success stored it.*)
LEMMA NothingDueBelow ==
    ASSUME Complete, NEW s \in Slots, NEW r \in Due(s)
    PROVE  ~(src[r].at <= stop[s])
<1>1. r \in Posted /\ Mappable(src[r]) /\ ~Current(r) /\ src[r].at > 0
  BY DEF Due, Posted
<1>2. src[r].at \in Nat
  BY <1>1 DEF Complete, Rows, Typed, TypeOK, Posted, Version
<1>3. CASE stop[s] = 0
  BY <1>1, <1>2, <1>3
<1>4. CASE stop[s] \in LastSuccessful
  BY <1>1, <1>4 DEF LastSuccessful, Complete, WatermarkComplete
<1> QED
  BY <1>3, <1>4 DEF Complete, StampInv

(* A commit keeps current rows current, and stores what is due of the page. *)
LEMMA CommitStores ==
    ASSUME Complete, NEW s \in Slots, CommitPage(s), ~Duplicate(s), NEW r \in Reviews
    PROVE  /\ Current(r) => Current(r)'
           /\ r \in News(s) /\ got[s][r] = src[r] => Current(r)'
<1>1. src' = src /\ Rows /\ pc[s] = "commit"
  BY DEF CommitPage, Complete
<1>2. stored[r].at \in Nat /\ src[r].at \in Nat
  BY <1>1 DEF Rows, Typed, TypeOK, Row, Version
<1>3. CASE stored'[r] # stored[r]
  <2>1. /\ r \in News(s) /\ got[s][r].at > stored[r].at
        /\ stored'[r].at = got[s][r].at /\ stored'[r].text = got[s][r].text
    BY <1>1, <1>3, CommitWrites
  <2>2. got[s][r].at \in Nat /\ Behind(got[s][r], src[r])
    BY <1>1, <2>1 DEF News, Rows, PageInv, Typed, TypeOK, PageOK, Version
  <2>3. ~Current(r)
    BY <1>2, <2>1, <2>2 DEF Current, Behind
  <2> QED
    BY <1>1, <2>1, <2>3 DEF Current
<1>4. CASE stored'[r] = stored[r]
  <2>1. Current(r) => Current(r)'
    BY <1>1, <1>4 DEF Current
  <2>2. ASSUME r \in News(s), got[s][r] = src[r], ~Current(r) PROVE FALSE
    <3>1. seen[s][r] = stored[r] /\ r \in DOMAIN seen[s]
      BY <1>1, <2>2 DEF Rows, PageInv
    <3>2. r \in Changes(s)
      BY <2>2, <3>1 DEF Changes, Differs, Current
    <3>3. Behind(stored[r], src[r]) /\ stored[r].at # src[r].at
      BY <1>1, <2>2 DEF Rows, PageInv, Behind, Current
    <3>4. stored' = [q \in Reviews |-> IF q \in Changes(s)
                       THEN Written(stored[q], seen[s][q], got[s][q]) ELSE stored[q]]
      BY DEF CommitPage
    <3>5. stored'[r] = Written(stored[r], stored[r], src[r])
      BY <2>2, <3>1, <3>2, <3>4
    <3>6. stored'[r].at = src[r].at
      BY <3>3, <3>5 DEF Written
    <3> QED
      BY <1>4, <3>3, <3>6
  <2> QED
    BY <1>1, <1>4, <2>1, <2>2 DEF Current
<1> QED
  BY <1>3, <1>4

(* The watermark or the last page ends the walk only when nothing is due.   *)
LEMMA CommitCompletes ==
    ASSUME Complete, OneSlot, Rows', NEW s \in Slots, CommitPage(s)
    PROVE  Complete'
<1>1. /\ UNCHANGED <<source, stop, run>> /\ pc[s] = "commit" /\ Active(s) /\ Rows /\ Typed
      /\ run[s] \in RunIds /\ cursor[s] \in Nat /\ PageSize \in Nat /\ cursor \in [Slots -> Nat]
      /\ runs \in [RunIds -> Run]
  BY SyncAssumption DEF CommitPage, Complete, Rows, Typed, TypeOK, PageOK
<1>2. CASE Duplicate(s)
  BY <1>1, <1>2, StoppedComplete DEF CommitPage, Goto
<1>3. CASE ~Duplicate(s)
  <2>1. /\ runs' = [runs EXCEPT ![run[s]].kept = @ + Cardinality(Changes(s))]
        /\ cursor'[s] = cursor[s] + PageSize
        /\ pc'[s] = IF Exhausted(s) \/ last[s] THEN "finish" ELSE "fetch"
    BY <1>1, <1>3 DEF CommitPage, NextCursor, Goto, Typed, TypeOK
  <2>2. \A k \in RunIds : runs'[k].status = runs[k].status /\ runs'[k].started = runs[k].started
    BY <1>1, <2>1 DEF Run
  <2>3. LastSuccessful' = LastSuccessful
    BY <2>2 DEF LastSuccessful
  <2>4. StampInv'
    BY <1>1, <2>2, <2>3 DEF Complete, StampInv
  <2>5. WatermarkComplete'
    <3> SUFFICES ASSUME NEW k \in RunIds, runs'[k].status = "success", NEW r \in Posted',
                        Mappable(src'[r]), src'[r].at <= runs'[k].started
                 PROVE  Current(r)'
      BY DEF WatermarkComplete
    <3>1. r \in Posted /\ r \in Reviews /\ Current(r)
      BY <1>1, <2>2 DEF Complete, WatermarkComplete, Posted
    <3> QED
      BY <1>3, <3>1, CommitStores
  <2>6. ASSUME NEW r \in Due(s)'
        PROVE  ~last[s] /\ ~Exhausted(s) /\ Position(r)' > cursor[s] + PageSize
    <3>1. r \in Posted /\ r \in Reviews /\ Mappable(src[r]) /\ ~Current(r)'
          /\ src[r].at <= runs[run[s]].started
      BY <1>1, <2>2 DEF Due, Posted
    <3>2. r \in Due(s)
      BY <1>3, <3>1, CommitStores DEF Due
    <3>3. src[r].at \in Nat /\ src[r].at > 0 /\ ~(src[r].at <= stop[s]) /\ stop[s] \in Nat
      BY <1>1, <3>1, <3>2, NothingDueBelow DEF Posted, Typed, TypeOK, Version
    <3>4. \/ r \in DOMAIN got[s] /\ got[s][r] = src[r]
          \/ /\ ~last[s] /\ Position(r) > cursor[s] + PageSize
             /\ \A q \in DOMAIN got[s] : src[r].at < got[s][q].at
      BY <1>1, <3>2 DEF Complete, WalkInv
    <3>5. ~(r \in DOMAIN got[s] /\ got[s][r] = src[r])
      <4>1. ASSUME r \in DOMAIN got[s], got[s][r] = src[r] PROVE FALSE
        <5>1. r \in News(s)
          BY <3>3, <4>1 DEF News
        <5> QED
          BY <1>3, <3>1, <4>1, <5>1, CommitStores
      <4> QED
        BY <4>1
    <3>6. ~Exhausted(s)
      <4>1. ASSUME NEW q \in DOMAIN got[s], got[s][q].at <= stop[s] PROVE FALSE
        <5>1. got[s][q].at \in Nat
          BY <1>1 DEF Typed, TypeOK, PageOK, Version
        <5> QED
          BY <3>3, <3>4, <3>5, <4>1, <5>1
      <4> QED
        BY <4>1 DEF Exhausted
    <3>7. Position(r)' = Position(r)
      BY <1>1 DEF Position, Newer, Posted
    <3> QED
      BY <3>4, <3>5, <3>6, <3>7
  <2>7. /\ pc'[s] = "fetch" => \A r \in Due(s)' : Position(r)' > cursor'[s]
        /\ pc'[s] = "finish" => Due(s)' = {}
        /\ pc'[s] \in {"fetch", "finish"}
    BY <2>1, <2>6
  <2>8. /\ \A k \in RunIds : runs'[k].started <= runs'[run'[s]].started
        /\ runs'[run'[s]].started <= now' + Skew
    BY <1>1, <2>2 DEF Complete, WalkInv
  <2>9. WalkInv'
    BY <2>7, <2>8 DEF WalkInv, OneSlot
  <2> QED
    BY <2>4, <2>5, <2>9 DEF Complete
<1> QED
  BY <1>2, <1>3

LEMMA FinishCompletes ==
    ASSUME Complete, OneSlot, Rows', NEW s \in Slots, Finish(s)
    PROVE  Complete'
<1>1. /\ UNCHANGED <<source, stored>> /\ pc[s] = "finish" /\ pc'[s] = "idle" /\ stop'[s] = 0
      /\ run[s] \in RunIds /\ runs \in [RunIds -> Run]
  BY DEF Finish, Leave, Goto, Complete, Rows, Typed, TypeOK, PageOK
<1>2. runs' = [runs EXCEPT ![run[s]].status = "success", ![run[s]].stored = outcome[s]]
  BY DEF Finish, EndRun
<1>3. \A k \in RunIds : /\ runs'[k].started = runs[k].started
                        /\ k # run[s] => runs'[k] = runs[k]
  BY <1>1, <1>2 DEF Run
<1>4. Due(s) = {}
  BY <1>1 DEF Complete, WalkInv
<1>5. WatermarkComplete'
  <2> SUFFICES ASSUME NEW k \in RunIds, runs'[k].status = "success", NEW r \in Posted',
                      Mappable(src'[r]), src'[r].at <= runs'[k].started
               PROVE  Current(r)'
    BY DEF WatermarkComplete
  <2>1. r \in Posted /\ src' = src /\ (Current(r)' <=> Current(r))
    BY <1>1 DEF Posted, Current
  <2>2. CASE k = run[s]
    BY <1>3, <1>4, <2>1, <2>2 DEF Due
  <2>3. CASE k # run[s]
    BY <1>3, <2>1, <2>3 DEF Complete, WatermarkComplete
  <2> QED
    BY <2>1, <2>2, <2>3
<1>6. StampInv'
  BY <1>1 DEF Rows, Typed, Past, StampInv, OneSlot
<1>7. WalkInv'
  BY <1>1 DEF WalkInv, OneSlot
<1> QED
  BY <1>5, <1>6, <1>7 DEF Complete

LEMMA CompleteInit == Init => Complete
<1> SUFFICES ASSUME Init PROVE Complete
  OBVIOUS
<1>1. StampInv
  BY TypedInit DEF Init, StampInv, Typed, Past
<1>2. WatermarkComplete /\ WalkInv
  BY DEF Init, WatermarkComplete, WalkInv, NoRun
<1> QED
  BY <1>1, <1>2, RowsInit DEF Complete

LEMMA CompleteStep == ASSUME OneSlot, Skew = 0, Complete, [Next]_vars PROVE Complete'
<1>0. Rows'
  BY RowsStep DEF Complete
<1>1. ASSUME NEW r \in Reviews, NEW text \in Contents, Edit(r, text) PROVE Complete'
  BY <1>0, <1>1, EditCompletes
<1>2. ASSUME NEW s \in Slots, NEW m \in {"backfill", "incremental"}, ReadWatermark(s, m)
      PROVE  Complete'
  BY <1>0, <1>2, ReadCompletes
<1>3. ASSUME NEW s \in Slots, StartRun(s) PROVE Complete'
  BY <1>0, <1>3, StartCompletes
<1>4. ASSUME NEW s \in Slots, FetchPage(s) PROVE Complete'
  BY <1>0, <1>4, FetchCompletes
<1>5. ASSUME NEW s \in Slots, Absorb(s) PROVE Complete'
  BY <1>0, <1>5, AbsorbCompletes
<1>6. ASSUME NEW s \in Slots, CommitPage(s) PROVE Complete'
  BY <1>0, <1>6, CommitCompletes
<1>7. ASSUME NEW s \in Slots, Finish(s) PROVE Complete'
  BY <1>0, <1>7, FinishCompletes
<1>8. ASSUME NEW s \in Slots, Fail(s) PROVE Complete'
  <2>1. run[s] \in RunIds
    BY <1>8 DEF Fail, Complete, Rows, Typed, TypeOK, PageOK
  <2>2. \E end \in {"partial", "failed"} : EndRun(s, end)
    BY <1>8 DEF Fail
  <2> QED
    BY <1>0, <1>8, <2>1, <2>2, StoppedComplete DEF Fail, Leave, Goto
<1>9. ASSUME NEW s \in Slots, RecordFails(s) \/ Crash(s) PROVE Complete'
  <2>1. Leave(s) /\ UNCHANGED <<source, stored, runs>>
    BY <1>9 DEF RecordFails, Crash
  <2> QED
    BY <1>0, <2>1, StoppedComplete DEF Leave, Goto
<1>10. ASSUME NEW s \in Slots, StepFails(s) PROVE Complete'
  BY <1>0, <1>10, StoppedComplete DEF StepFails, Goto
<1>11. CASE UNCHANGED vars
  <2>1. WatermarkComplete' /\ StampInv'
    BY <1>11 DEF Complete, WatermarkComplete, StampInv, LastSuccessful, Posted, Current
  <2>2. \A s \in Slots : Due(s)' = Due(s) /\ \A r \in Due(s) : Position(r)' = Position(r)
    BY <1>11 DEF Due, Posted, Current, Position, Newer
  <2>3. WalkInv'
    BY <1>11, <2>2 DEF Complete, WalkInv
  <2> QED
    BY <1>0, <2>1, <2>3 DEF Complete
<1> QED
  BY <1>1, <1>2, <1>3, <1>4, <1>5, <1>6, <1>7, <1>8, <1>9, <1>10, <1>11 DEF Next, Walk

LEMMA AlwaysComplete == ASSUME OneSlot, Skew = 0 PROVE Spec => []Complete
<1>1. Complete /\ [Next]_vars => Complete'
  BY CompleteStep
<1> QED
  BY <1>1, CompleteInit, PTL DEF Spec

(* The strengthening the run checks on its instance: types, counts, pages,  *)
(* stamps and where on its walk a run can be with reviews still due (_run). *)
THEOREM OneSlotInvariant == ASSUME OneSlot, Skew = 0 PROVE Spec => []OneSlotInv
<1>1. Counts /\ Complete => OneSlotInv
  BY DEF Counts, Complete, Rows, Typed, OneSlotInv
<1> QED
  BY <1>1, AlwaysCounts, AlwaysComplete, PTL

(* With one sync at a time and clocks that agree, nothing at or below the   *)
(* start of a successful run is missing, whatever was edited during the     *)
(* walk and whatever failed before (IngestionService.incremental).          *)
THEOREM OneSlotWatermark == ASSUME OneSlot, Skew = 0 PROVE Spec => []WatermarkComplete
<1>1. Complete => WatermarkComplete
  BY DEF Complete
<1> QED
  BY <1>1, AlwaysComplete, PTL
=============================================================================
