--------------------------- MODULE Evaluation_proofs ---------------------------
(***************************************************************************)
(* An evaluation job adds at most one run to the history and never ends in *)
(* a false alarm, for every number of jobs and of executions: RecordingInv *)
(* is inductive.  The metrics it records agree with each other, for every  *)
(* taxonomy, every benchmark and every sequence of predictions.            *)
(***************************************************************************)
EXTENDS EvaluationRecording, EvaluationMetrics, FiniteSums

-----------------------------------------------------------------------------
(* Recording the run *)

(* The initial state has nothing recorded and nobody running. *)
LEMMA RecordingInit == Init => RecordingInv
  BY EvaluationAssumption
  DEF Init, RecordingInv, TypeOK, OneRunPerJob, ReturnedMeansRecorded, NoFalseAlarm,
      ConflictHasReason, Lines

(* A step of an execution that changes no table only moves its own line:    *)
(* whoever was at a line before satisfies its condition still, and the      *)
(* execution that moved satisfies the condition of the line it reached.     *)
LEMMA MoveKeeps ==
    ASSUME RecordingInv, NEW e \in Executions, NEW line \in Lines, NEW t \in Jobs \cup {NoJob},
           pc' = [pc EXCEPT ![e] = line], task' = [task EXCEPT ![e] = t],
           UNCHANGED <<present, byJob, orphaned>>,
           line # "idle" <=> t \in Jobs,
           line = "returned" => byJob[t] + orphaned[t] >= 1,
           line = "raised" => t \notin present,
           line = "conflict" => Recorded(t) \/ t \notin present
    PROVE  RecordingInv'
<1>1. /\ pc'[e] = line /\ task'[e] = t
      /\ \A f \in Executions \ {e} : pc'[f] = pc[f] /\ task'[f] = task[f]
  BY DEF RecordingInv, TypeOK
<1>2. TypeOK'
  <2>1. pc' \in [Executions -> Lines] /\ task' \in [Executions -> Jobs \cup {NoJob}]
    BY DEF RecordingInv, TypeOK
  <2>2. \A f \in Executions : pc'[f] # "idle" <=> task'[f] \in Jobs
    BY <1>1 DEF RecordingInv, TypeOK
  <2> QED
    BY <2>1, <2>2 DEF RecordingInv, TypeOK
<1>3. OneRunPerJob'
  BY DEF RecordingInv, OneRunPerJob
<1>4. ReturnedMeansRecorded'
  BY <1>1 DEF RecordingInv, ReturnedMeansRecorded
<1>5. NoFalseAlarm'
  BY <1>1 DEF RecordingInv, NoFalseAlarm
<1>6. ConflictHasReason'
  BY <1>1 DEF RecordingInv, ConflictHasReason, Recorded
<1> QED
  BY <1>2, <1>3, <1>4, <1>5, <1>6 DEF RecordingInv

(* An insert adds the only row of a job that exists and has none.           *)
LEMMA InsertKeeps ==
    ASSUME RecordingInv, NEW e \in Executions, pc[e] = "insert", ~Refused(task[e]),
           byJob' = [byJob EXCEPT ![task[e]] = @ + 1],
           NEW line \in {"returned", "idle"}, NEW t \in Jobs \cup {NoJob},
           pc' = [pc EXCEPT ![e] = line], task' = [task EXCEPT ![e] = t],
           UNCHANGED <<present, orphaned>>,
           IF line = "returned" THEN t = task[e] ELSE t = NoJob
    PROVE  RecordingInv'
<1>1. /\ pc'[e] = line /\ task'[e] = t
      /\ \A f \in Executions \ {e} : pc'[f] = pc[f] /\ task'[f] = task[f]
  BY DEF RecordingInv, TypeOK
<1>2. task[e] \in Jobs /\ task[e] \in present /\ byJob[task[e]] = 0 /\ orphaned[task[e]] = 0
  BY DEF RecordingInv, TypeOK, Refused, Recorded, ConflictHasReason
<1>3. byJob'[task[e]] = 1 /\ \A j \in Jobs \ {task[e]} : byJob'[j] = byJob[j]
  BY <1>2 DEF RecordingInv, TypeOK
<1>4. TypeOK'
  <2>1. byJob' \in [Jobs -> Nat] /\ pc' \in [Executions -> Lines]
    BY <1>2 DEF RecordingInv, TypeOK, Lines
  <2>2. \A f \in Executions : pc'[f] # "idle" <=> task'[f] \in Jobs
    BY <1>1, <1>2, EvaluationAssumption DEF RecordingInv, TypeOK
  <2> QED
    BY <2>1, <2>2 DEF RecordingInv, TypeOK
<1>5. OneRunPerJob'
  BY <1>2, <1>3 DEF RecordingInv, OneRunPerJob
<1>6. ReturnedMeansRecorded'
  <2> SUFFICES ASSUME NEW f \in Executions, pc'[f] = "returned"
               PROVE  byJob'[task'[f]] + orphaned[task'[f]] >= 1
    BY DEF ReturnedMeansRecorded
  <2>1. CASE f = e
    BY <1>1, <1>2, <1>3, <2>1
  <2>2. CASE f # e
    <3>1. task'[f] = task[f] /\ task[f] \in Jobs /\ byJob[task[f]] + orphaned[task[f]] >= 1
      BY <1>1, <2>2 DEF RecordingInv, TypeOK, ReturnedMeansRecorded
    <3> QED
      BY <1>2, <1>3, <3>1 DEF RecordingInv, TypeOK
  <2> QED
    BY <2>1, <2>2
<1>7. NoFalseAlarm'
  BY <1>1 DEF RecordingInv, NoFalseAlarm
<1>8. ConflictHasReason'
  <2>1. \A f \in Executions : pc'[f] = "conflict" => Recorded(task[f])' \/ task'[f] \notin present
    <3> SUFFICES ASSUME NEW f \in Executions, pc'[f] = "conflict"
                 PROVE  byJob'[task'[f]] > 0 \/ task'[f] \notin present
      BY DEF Recorded
    <3>1. f # e /\ task'[f] = task[f] /\ task[f] \in Jobs
      BY <1>1 DEF RecordingInv, TypeOK
    <3>2. byJob[task[f]] > 0 \/ task[f] \notin present
      BY <1>1, <3>1 DEF RecordingInv, ConflictHasReason, Recorded
    <3> QED
      BY <1>3, <3>1, <3>2
  <2>2. \A j \in Jobs : j \notin present => byJob'[j] = 0
    BY <1>2, <1>3 DEF RecordingInv, ConflictHasReason
  <2> QED
    BY <2>1, <2>2 DEF RecordingInv, ConflictHasReason, Recorded
<1> QED
  BY <1>4, <1>5, <1>6, <1>7, <1>8 DEF RecordingInv

(* Pruning moves the job's row from its id to NULL; the sum stays.          *)
LEMMA PruneKeeps ==
    ASSUME RecordingInv, NEW p \in Jobs, Prune(p)
    PROVE  RecordingInv'
<1>1. /\ byJob'[p] = 0 /\ orphaned'[p] = orphaned[p] + byJob[p]
      /\ \A j \in Jobs \ {p} : byJob'[j] = byJob[j] /\ orphaned'[j] = orphaned[j]
      /\ present' = present \ {p} /\ pc' = pc /\ task' = task
  BY DEF Prune, RecordingInv, TypeOK
<1>2. byJob[p] \in Nat /\ orphaned[p] \in Nat
  BY DEF RecordingInv, TypeOK
<1>3. TypeOK'
  BY <1>2 DEF Prune, RecordingInv, TypeOK
<1>4. \A j \in Jobs : byJob'[j] + orphaned'[j] = byJob[j] + orphaned[j]
  BY <1>1, <1>2
<1>5. OneRunPerJob' 
  BY <1>4 DEF RecordingInv, OneRunPerJob
<1>6. ReturnedMeansRecorded'
  BY <1>1, <1>4 DEF RecordingInv, TypeOK, ReturnedMeansRecorded
<1>7. NoFalseAlarm'
  BY <1>1 DEF RecordingInv, NoFalseAlarm
<1>8. ConflictHasReason'
  BY <1>1 DEF RecordingInv, TypeOK, ConflictHasReason, Recorded
<1> QED
  BY <1>3, <1>5, <1>6, <1>7, <1>8 DEF RecordingInv

(* One step of the proof per action. *)
LEMMA RecordingStep == RecordingInv /\ [Next]_vars => RecordingInv'
<1> SUFFICES ASSUME RecordingInv, [Next]_vars PROVE RecordingInv'
  OBVIOUS
<1> USE DEF Goto
<1>0. ASSUME NEW e \in Executions
      PROVE  /\ pc[e] # "idle" => task[e] \in Jobs
             /\ task = [task EXCEPT ![e] = task[e]]
  BY DEF RecordingInv, TypeOK
<1>1. ASSUME NEW e \in Executions, NEW j \in Jobs, Start(e, j) PROVE RecordingInv'
  BY <1>1, MoveKeeps DEF Start, Lines
<1>2. ASSUME NEW e \in Executions, Guard(e) PROVE RecordingInv'
  <2>1. Recorded(task[e]) => byJob[task[e]] + orphaned[task[e]] >= 1
    BY <1>0, <1>2 DEF Guard, Recorded, RecordingInv, TypeOK
  <2> QED
    BY <1>0, <1>2, <2>1, MoveKeeps DEF Guard, Lines
<1>3. ASSUME NEW e \in Executions, Score(e) PROVE RecordingInv'
  BY <1>0, <1>3, MoveKeeps DEF Score, Lines
<1>4. ASSUME NEW e \in Executions, Insert(e) PROVE RecordingInv'
  <2>1. CASE Refused(task[e])
    BY <1>0, <1>4, <2>1, MoveKeeps DEF Insert, Lines, Refused
  <2>2. CASE ~Refused(task[e])
    BY <1>0, <1>4, <2>2, InsertKeeps DEF Insert
  <2> QED
    BY <2>1, <2>2
<1>5. ASSUME NEW e \in Executions, Recheck(e) PROVE RecordingInv'
  <2>1. Recorded(task[e]) => byJob[task[e]] + orphaned[task[e]] >= 1
    BY <1>0, <1>5 DEF Recheck, Recorded, RecordingInv, TypeOK
  <2>2. ~Recorded(task[e]) => task[e] \notin present
    BY <1>5 DEF Recheck, RecordingInv, ConflictHasReason
  <2> QED
    BY <1>0, <1>5, <2>1, <2>2, MoveKeeps DEF Recheck, Lines
<1>6. ASSUME NEW e \in Executions, Leave(e) \/ Abort(e) PROVE RecordingInv'
  BY <1>6, MoveKeeps, EvaluationAssumption DEF Leave, Abort, Lines
<1>7. ASSUME NEW e \in Executions, CommitUnseen(e) PROVE RecordingInv'
  BY <1>7, InsertKeeps, EvaluationAssumption DEF CommitUnseen
<1>8. ASSUME NEW j \in Jobs, Prune(j) PROVE RecordingInv'
  BY <1>8, PruneKeeps
<1>9. CASE UNCHANGED vars
  BY <1>9 DEF vars, RecordingInv, TypeOK, OneRunPerJob, ReturnedMeansRecorded, NoFalseAlarm,
              ConflictHasReason, Recorded
<1> QED
  BY <1>1, <1>2, <1>3, <1>4, <1>5, <1>6, <1>7, <1>8, <1>9 DEF Next

(* The whole invariant holds in every reachable state. *)
THEOREM RecordingInvariant == Spec => []RecordingInv
  BY RecordingInit, RecordingStep, PTL DEF Spec

(* At most one evaluation run per job, for any number of executions of it:  *)
(* already_recorded and the unique constraint together.                     *)
THEOREM OneRunPerJobHolds == Spec => []OneRunPerJob
<1>1. RecordingInv => OneRunPerJob
  BY DEF RecordingInv
<1> QED
  BY <1>1, RecordingInvariant, PTL

(* An execution that returns normally leaves the job's run in the history,  *)
(* also when its insert was refused or the job is pruned meanwhile.         *)
THEOREM ReturnLeavesRun == Spec => []ReturnedMeansRecorded
<1>1. RecordingInv => ReturnedMeansRecorded
  BY DEF RecordingInv
<1> QED
  BY <1>1, RecordingInvariant, PTL

(* The IntegrityError handler of evaluation_run raises only for a job that  *)
(* is gone.                                                                 *)
THEOREM ConflictIsJudgedRight == Spec => []NoFalseAlarm
<1>1. RecordingInv => NoFalseAlarm
  BY DEF RecordingInv
<1> QED
  BY <1>1, RecordingInvariant, PTL

-----------------------------------------------------------------------------
(* The metrics: the scoring pass keeps three counts equal however it lists   *)
(* what an item adds; that the families then agree is counting the same      *)
(* pairs in two ways.                                                        *)

LEMMA TotalIsSum == ASSUME NEW f PROVE Total(f) = SumFunctionOnSet(f, DOMAIN f)
  BY DEF Total, FoldFunction, SumFunctionOnSet

LEMMA IndicesFinite ==
    ASSUME NEW n \in Nat PROVE IsFiniteSet(1 .. n) /\ Cardinality(1 .. n) = n
  BY FS_Interval

-----------------------------------------------------------------------------
(* Lists *)

LEMMA ListOfSet ==
    ASSUME NEW S, IsFiniteSet(S)
    PROVE  /\ SetToSeq(S) \in [1 .. Cardinality(S) -> S]
           /\ SetToSeq(S) \in Seq(S) /\ Len(SetToSeq(S)) = Cardinality(S)
           /\ \A m, n \in 1 .. Cardinality(S) : SetToSeq(S)[m] = SetToSeq(S)[n] => m = n
           /\ \A s \in S : \E n \in 1 .. Cardinality(S) : SetToSeq(S)[n] = s
<1> DEFINE N == Cardinality(S)  l == SetToSeq(S)
<1>1. N \in Nat /\ ExistsBijection(1 .. N, S)
  BY FS_CardinalityType
<1>2. PICK f \in Bijection(1 .. N, S) : TRUE
  BY <1>1 DEF ExistsBijection
<1>3. f \in [1 .. N -> S] /\ IsInjective(f)
  BY <1>2 DEF Bijection, Injection, IsInjective
<1>4. l \in [1 .. N -> S] /\ IsInjective(l)
  BY <1>3 DEF SetToSeq
<1> HIDE DEF l
<1>5. \A m, n \in 1 .. N : l[m] = l[n] => m = n
  BY <1>4 DEF IsInjective
<1>6. l \in Injection(1 .. N, S)
  BY <1>4, <1>5 DEF Injection, IsInjective
<1>7. l \in Surjection(1 .. N, S)
  <2>1. Cardinality(1 .. N) = N
    BY <1>1, IndicesFinite
  <2> QED
    BY <1>6, <2>1, FS_Injection
<1>8. \A s \in S : \E n \in 1 .. N : l[n] = s
  BY <1>7 DEF Surjection
<1>9. l \in Seq(S) /\ Len(l) = N
  BY <1>1, <1>4
<1> QED
  BY <1>4, <1>5, <1>8, <1>9 DEF l

(* A listing has as many members of a part as the part has. *)
LEMMA ListedPart ==
    ASSUME NEW S, IsFiniteSet(S), NEW A \in SUBSET S
    PROVE  Cardinality({n \in DOMAIN SetToSeq(S) : SetToSeq(S)[n] \in A}) = Cardinality(A)
<1> DEFINE l == SetToSeq(S)  N == Cardinality(S)
           I == {n \in 1 .. N : l[n] \in A}
           f == [n \in I |-> l[n]]
<1>1. /\ l \in [1 .. N -> S]
      /\ \A m, n \in 1 .. N : l[m] = l[n] => m = n
      /\ \A s \in S : \E n \in 1 .. N : l[n] = s
  BY ListOfSet
<1> HIDE DEF l
<1>2. f \in [I -> A] /\ (\A m, n \in I : f[m] = f[n] => m = n) /\ \A s \in A : \E n \in I : f[n] = s
  BY <1>1
<1>3. IsFiniteSet(I)
  BY IndicesFinite, FS_CardinalityType, FS_Subset
<1>4. DOMAIN l = 1 .. N
  BY <1>1
<1> HIDE DEF f, I
<1>5. f \in Bijection(I, A)
  BY <1>2 DEF Bijection, Injection, Surjection, IsInjective
<1>6. Cardinality(A) = Cardinality(I)
  BY <1>3, <1>5, FS_Bijection DEF ExistsBijection
<1> QED
  BY <1>4, <1>6 DEF I, l

LEMMA Concatenated ==
    ASSUME NEW A, NEW s \in Seq(A), NEW t \in Seq(A)
    PROVE  s \o t \in Seq(A) /\ Len(s \o t) = Len(s) + Len(t)
  OBVIOUS

LEMMA HitsFinite ==
    ASSUME NEW s \in Seq(BOOLEAN)
    PROVE  IsFiniteSet({n \in DOMAIN s : s[n]}) /\ Hits(s) \in Nat
<1>1. DOMAIN s = 1 .. Len(s) /\ Len(s) \in Nat
  OBVIOUS
<1>2. IsFiniteSet(1 .. Len(s))
  BY <1>1, IndicesFinite
<1>3. {n \in DOMAIN s : s[n]} \subseteq 1 .. Len(s)
  BY <1>1
<1> QED
  BY <1>2, <1>3, FS_Subset, FS_CardinalityType DEF Hits

LEMMA HitsOfBoth ==
    ASSUME NEW s \in Seq(BOOLEAN), NEW t \in Seq(BOOLEAN)
    PROVE  Hits(s \o t) = Hits(s) + Hits(t)
<1> DEFINE A == {n \in DOMAIN s : s[n]}
           B == {n \in DOMAIN t : t[n]}
           C == {n \in (Len(s) + 1) .. (Len(s) + Len(t)) : t[n - Len(s)]}
           shift == [n \in B |-> n + Len(s)]
<1>1. /\ Len(s) \in Nat /\ Len(t) \in Nat
      /\ DOMAIN s = 1 .. Len(s) /\ DOMAIN t = 1 .. Len(t)
      /\ DOMAIN (s \o t) = 1 .. (Len(s) + Len(t))
  OBVIOUS
<1>2. /\ \A n \in 1 .. Len(s) : (s \o t)[n] = s[n]
      /\ \A n \in (Len(s) + 1) .. (Len(s) + Len(t)) : (s \o t)[n] = t[n - Len(s)]
  BY <1>1
<1>3. {n \in DOMAIN (s \o t) : (s \o t)[n]} = A \cup C
  BY <1>1, <1>2
<1>4. A \cap C = {}
  BY <1>1
<1>5. IsFiniteSet(A) /\ IsFiniteSet(B)
  BY HitsFinite
<1>6. shift \in Bijection(B, C)
  <2>1. shift \in [B -> C] /\ \A m, n \in B : shift[m] = shift[n] => m = n
    BY <1>1
  <2>2. \A n \in C : n - Len(s) \in B /\ shift[n - Len(s)] = n
    BY <1>1
  <2> HIDE DEF shift, B, C
  <2> QED
    BY <2>1, <2>2 DEF Bijection, Injection, Surjection, IsInjective
<1> HIDE DEF A, B, C, shift
<1>7. IsFiniteSet(C) /\ Cardinality(C) = Cardinality(B)
  BY <1>5, <1>6, FS_Bijection DEF ExistsBijection
<1>8. Cardinality(A \cup C) = Cardinality(A) + Cardinality(B)
  BY <1>4, <1>5, <1>7, CountUnion
<1> QED
  BY <1>3, <1>8 DEF Hits, A, B

(* The total of a list that grew by one. *)
LEMMA TotalAppend ==
    ASSUME NEW n \in Nat, NEW f, NEW h, DOMAIN f = 1 .. n, DOMAIN h = 1 .. n + 1,
           \A i \in 1 .. n : f[i] \in Int /\ h[i] = f[i], h[n + 1] \in Int
    PROVE  Total(h) = Total(f) + h[n + 1]
<1>1. IsFiniteSet(1 .. n)
  BY IndicesFinite
<1>2. 1 .. n + 1 = (1 .. n) \cup {n + 1} /\ n + 1 \notin 1 .. n
  OBVIOUS
<1>3. \A i \in (1 .. n) \cup {n + 1} : h[i] \in Int
  OBVIOUS
<1>4. SumFunctionOnSet(h, (1 .. n) \cup {n + 1}) = SumFunctionOnSet(h, 1 .. n) + h[n + 1]
  BY <1>1, <1>2, <1>3, SumAdd
<1>5. SumFunctionOnSet(h, 1 .. n) = SumFunctionOnSet(f, 1 .. n)
  BY <1>1, SumSame
<1> QED
  BY <1>2, <1>4, <1>5, TotalIsSum

-----------------------------------------------------------------------------
(* One item *)

Named(aspects)     == {a.category : a \in aspects}
Answer(aspects, c) == CHOOSE a \in aspects : a.category = c

(* What one item adds to the lists. *)
AddedGold(g, aspects) ==
    LET shared == SetToSeq(Named(aspects) \cap DOMAIN g)
    IN  [n \in DOMAIN shared |-> g[shared[n]]]
AddedPredicted(g, aspects) ==
    LET shared == SetToSeq(Named(aspects) \cap DOMAIN g)
    IN  [n \in DOMAIN shared |-> Answer(aspects, shared[n]).sentiment]
AddedConfidences(aspects) ==
    LET listed == SetToSeq(aspects) IN [n \in DOMAIN listed |-> listed[n].confidence]
AddedCorrect(g, aspects) ==
    LET listed == SetToSeq(aspects)
    IN  [n \in DOMAIN listed |-> /\ listed[n].category \in DOMAIN g
                                 /\ g[listed[n].category] = listed[n].sentiment]

LEMMA ScoreItemAdds ==
    ASSUME NEW g, NEW aspects, ScoreItem(g, aspects)
    PROVE  /\ Validated(aspects) /\ UNCHANGED rejected
           /\ gold' = Append(gold, g)
           /\ predictedCategories' = Append(predictedCategories, Named(aspects))
           /\ goldSentiments' = goldSentiments \o AddedGold(g, aspects)
           /\ predictedSentiments' = predictedSentiments \o AddedPredicted(g, aspects)
           /\ confidences' = confidences \o AddedConfidences(aspects)
           /\ correct' = correct \o AddedCorrect(g, aspects)
  BY Zenon DEF ScoreItem, AddedGold, AddedPredicted, AddedConfidences, AddedCorrect, Named, Answer

LEMMA InputsTyped ==
    ASSUME NEW g \in GoldLabels, NEW aspects \in Predictions
    PROVE  /\ DOMAIN g \subseteq Categories /\ g \in [DOMAIN g -> Sentiments]
           /\ aspects \subseteq PredictedAspect
<1>1. PICK C \in SUBSET Categories : g \in [C -> Sentiments]
  BY DEF GoldLabels
<1>2. aspects \subseteq PredictedAspect
  BY DEF Predictions, kSubset
<1> QED
  BY <1>1, <1>2

(* A category is named once: naming is a bijection. *)
LEMMA NamedOnce ==
    ASSUME NEW aspects, aspects \subseteq PredictedAspect, Validated(aspects)
    PROVE  /\ Named(aspects) \subseteq Categories /\ IsFiniteSet(Named(aspects))
           /\ IsFiniteSet(aspects) /\ Cardinality(aspects) = Cardinality(Named(aspects))
           /\ \A a \in aspects : Answer(aspects, a.category) = a
<1> DEFINE N == Named(aspects)  category == [a \in aspects |-> a.category]
<1>1. \A a \in aspects : a.category \in Categories
  BY DEF PredictedAspect
<1>2. N \subseteq Categories /\ IsFiniteSet(N)
  <2>1. N \subseteq Categories
    BY <1>1 DEF Named
  <2> QED
    BY <2>1, MetricsAssumption, FS_Subset
<1>3. \A a, b \in aspects : a.category = b.category => a = b
  BY DEF Validated
<1>4. category \in [aspects -> N] /\ \A c \in N : \E a \in aspects : category[a] = c
  BY DEF Named
<1>5. \A a, b \in aspects : category[a] = category[b] => a = b
  BY <1>3
<1> HIDE DEF category
<1>6. category \in Injection(aspects, N) /\ category \in Surjection(aspects, N)
  BY <1>4, <1>5 DEF Injection, Surjection, IsInjective
<1>7. IsFiniteSet(aspects) /\ Cardinality(aspects) = Cardinality(N)
  BY <1>2, <1>6, FS_Injection
<1>8. \A a \in aspects : Answer(aspects, a.category) = a
  BY <1>3 DEF Answer
<1> QED
  BY <1>2, <1>7, <1>8

(* An item adds one sentiment pair per category shared, one confidence and  *)
(* one verdict per category named, and as many correct verdicts as pairs    *)
(* that agree.                                                              *)
LEMMA ItemAdds ==
    ASSUME NEW g \in GoldLabels, NEW aspects, aspects \subseteq PredictedAspect, Validated(aspects),
           DOMAIN g \subseteq Categories, g \in [DOMAIN g -> Sentiments]
    PROVE  LET more == AddedGold(g, aspects)
               answers == AddedPredicted(g, aspects)
           IN  /\ more \in Seq(Sentiments) /\ answers \in Seq(Sentiments)
               /\ Len(more) = Cardinality(DOMAIN g \cap Named(aspects)) /\ Len(answers) = Len(more)
               /\ AddedConfidences(aspects) \in Seq(Confidences)
               /\ Len(AddedConfidences(aspects)) = Cardinality(Named(aspects))
               /\ AddedCorrect(g, aspects) \in Seq(BOOLEAN)
               /\ Len(AddedCorrect(g, aspects)) = Cardinality(Named(aspects))
               /\ Hits(AddedCorrect(g, aspects)) = Hits([n \in DOMAIN more |-> more[n] = answers[n]])
<1> DEFINE more == AddedGold(g, aspects)
           answers == AddedPredicted(g, aspects)
           both == Named(aspects) \cap DOMAIN g
           shared == SetToSeq(both)
           listed == SetToSeq(aspects)
           K == Cardinality(both)
           N == Cardinality(aspects)
           verdicts == AddedCorrect(g, aspects)
           agree == [n \in DOMAIN more |-> more[n] = answers[n]]
           A == {a \in aspects : a.category \in DOMAIN g /\ g[a.category] = a.sentiment}
           B == {c \in both : g[c] = Answer(aspects, c).sentiment}
<1>1. /\ IsFiniteSet(aspects) /\ IsFiniteSet(both) /\ N = Cardinality(Named(aspects))
      /\ \A a \in aspects : Answer(aspects, a.category) = a
  BY NamedOnce, FS_Subset
<1>2. K \in Nat /\ N \in Nat
  BY <1>1, FS_CardinalityType
<1>3. shared \in [1 .. K -> both] /\ DOMAIN shared = 1 .. K
  BY <1>1, ListOfSet
<1>4. listed \in [1 .. N -> aspects] /\ DOMAIN listed = 1 .. N
  BY <1>1, ListOfSet
<1>5. \A c \in both : Answer(aspects, c) \in aspects /\ Answer(aspects, c).category = c
  BY <1>1 DEF Named
<1>6. \A a \in aspects : a.sentiment \in Sentiments /\ a.confidence \in Confidences
  BY DEF PredictedAspect
<1>7. more = [n \in 1 .. K |-> g[shared[n]]]
  BY <1>3 DEF AddedGold
<1>8. answers = [n \in 1 .. K |-> Answer(aspects, shared[n]).sentiment]
  BY <1>3 DEF AddedPredicted
<1>9. AddedConfidences(aspects) = [n \in 1 .. N |-> listed[n].confidence]
  BY <1>4 DEF AddedConfidences
<1>10. verdicts \in [1 .. N -> BOOLEAN] /\ \A n \in 1 .. N : verdicts[n] <=> listed[n] \in A
  <2>1. verdicts = [n \in 1 .. N |-> /\ listed[n].category \in DOMAIN g
                                    /\ g[listed[n].category] = listed[n].sentiment]
    BY <1>4, Zenon DEF AddedCorrect
  <2>2. \A n \in 1 .. N : listed[n] \in aspects
    BY <1>4
  <2> HIDE DEF verdicts, listed
  <2>3. verdicts \in [1 .. N -> BOOLEAN]
    BY <2>1, Zenon
  <2>4. \A n \in 1 .. N : verdicts[n] <=> /\ listed[n].category \in DOMAIN g
                                         /\ g[listed[n].category] = listed[n].sentiment
    BY <2>1, Zenon
  <2> QED
    BY <2>2, <2>3, <2>4, Zenon
<1> HIDE DEF shared, listed, K, N, more, answers, verdicts
<1>11. /\ \A n \in 1 .. K : g[shared[n]] \in Sentiments
       /\ \A n \in 1 .. K : Answer(aspects, shared[n]).sentiment \in Sentiments
  BY <1>3, <1>5, <1>6
<1>12. more \in Seq(Sentiments) /\ Len(more) = K /\ DOMAIN more = 1 .. K
  BY <1>2, <1>7, <1>11
<1>13. answers \in Seq(Sentiments) /\ Len(answers) = K
  BY <1>2, <1>8, <1>11
<1>14. /\ AddedConfidences(aspects) \in Seq(Confidences) /\ Len(AddedConfidences(aspects)) = N
       /\ verdicts \in Seq(BOOLEAN) /\ Len(verdicts) = N
  <2>1. \A n \in 1 .. N : listed[n].confidence \in Confidences
    BY <1>4, <1>6
  <2>2. AddedConfidences(aspects) \in Seq(Confidences) /\ Len(AddedConfidences(aspects)) = N
    BY <1>2, <1>9, <2>1
  <2>3. verdicts \in Seq(BOOLEAN) /\ Len(verdicts) = N
    BY <1>2, <1>10
  <2> QED
    BY <2>2, <2>3
<1>15. Hits(verdicts) = Cardinality(A)
  <2>1. {n \in DOMAIN verdicts : verdicts[n]} = {n \in DOMAIN listed : listed[n] \in A}
    <3>1. DOMAIN verdicts = 1 .. N
      BY <1>10
    <3> HIDE DEF A
    <3> QED
      BY <1>4, <1>10, <3>1, Zenon
  <2>2. A \in SUBSET aspects
    OBVIOUS
  <2> HIDE DEF A
  <2> QED
    BY <1>1, <2>1, <2>2, ListedPart DEF Hits, listed
<1>16. Hits(agree) = Cardinality(B)
  <2>1. {n \in DOMAIN agree : agree[n]} = {n \in DOMAIN shared : shared[n] \in B}
    BY <1>3, <1>7, <1>8, <1>12
  <2>2. B \in SUBSET both
    OBVIOUS
  <2> HIDE DEF B, agree, both
  <2> QED
    BY <1>1, <2>1, <2>2, ListedPart DEF Hits, shared
<1>17. Cardinality(A) = Cardinality(B)
  <2> DEFINE category == [a \in A |-> a.category]
  <2>1. \A a \in A : a.category \in B
    BY <1>1 DEF Named
  <2>2. \A c \in B : Answer(aspects, c) \in A /\ Answer(aspects, c).category = c
    BY <1>5
  <2>3. \A a, b \in A : a.category = b.category => a = b
    BY DEF Validated
  <2>4. IsFiniteSet(A)
    BY <1>1, FS_Subset
  <2> HIDE DEF A, B
  <2>5. category \in [A -> B] /\ \A c \in B : category[Answer(aspects, c)] = c
    BY <2>1, <2>2
  <2>6. \A a, b \in A : category[a] = category[b] => a = b
    BY <2>3
  <2> HIDE DEF category
  <2>7. category \in Bijection(A, B)
    BY <2>2, <2>5, <2>6 DEF Bijection, Injection, Surjection, IsInjective
  <2> QED
    BY <2>4, <2>7, FS_Bijection DEF ExistsBijection
<1>18. K = Cardinality(DOMAIN g \cap Named(aspects))
  <2>1. both = DOMAIN g \cap Named(aspects)
    OBVIOUS
  <2> QED
    BY <2>1 DEF K
<1> QED
  BY <1>1, <1>12, <1>13, <1>14, <1>15, <1>16, <1>17, <1>18 DEF more, answers, verdicts

-----------------------------------------------------------------------------
(* The invariant of the pass *)

LEMMA ScoringInitially == ScoringInit => ScoringInv
<1> SUFFICES ASSUME ScoringInit PROVE ScoringInv
  OBVIOUS
<1>1. /\ gold = <<>> /\ predictedCategories = <<>> /\ goldSentiments = <<>>
      /\ predictedSentiments = <<>> /\ confidences = <<>> /\ correct = <<>>
  BY DEF ScoringInit
<1>2. ScoringType
  BY <1>1 DEF ScoringType
<1>3. Total([i \in DOMAIN gold |-> Cardinality(Shared(i))]) = 0
  <2>1. DOMAIN [i \in DOMAIN gold |-> Cardinality(Shared(i))] = {}
    BY <1>1
  <2> QED
    BY <2>1, TotalIsSum, SumOfNone
<1>4. Total([i \in DOMAIN gold |-> Cardinality(predictedCategories[i])]) = 0
  <2>1. DOMAIN [i \in DOMAIN gold |-> Cardinality(predictedCategories[i])] = {}
    BY <1>1
  <2> QED
    BY <2>1, TotalIsSum, SumOfNone
<1>5. Hits(correct) = 0 /\ Hits(Agreement) = 0
  <2>1. {n \in DOMAIN correct : correct[n]} = {} /\ {n \in DOMAIN Agreement : Agreement[n]} = {}
    BY <1>1 DEF Agreement
  <2> QED
    BY <2>1, FS_EmptySet DEF Hits
<1> QED
  BY <1>1, <1>2, <1>3, <1>4, <1>5 DEF ScoringInv

LEMMA ItemsTyped ==
    ASSUME ScoringType
    PROVE  /\ Len(gold) \in Nat /\ DOMAIN gold = 1 .. Len(gold)
           /\ DOMAIN predictedCategories = 1 .. Len(gold)
           /\ \A i \in DOMAIN gold :
                /\ DOMAIN gold[i] \subseteq Categories /\ IsFiniteSet(DOMAIN gold[i])
                /\ predictedCategories[i] \subseteq Categories /\ IsFiniteSet(predictedCategories[i])
                /\ Shared(i) \subseteq Categories /\ IsFiniteSet(Shared(i))
<1>1. Len(gold) \in Nat /\ DOMAIN gold = 1 .. Len(gold) /\ DOMAIN predictedCategories = 1 .. Len(gold)
  BY DEF ScoringType
<1>2. \A i \in DOMAIN gold : gold[i] \in GoldLabels /\ predictedCategories[i] \in SUBSET Categories
  BY <1>1 DEF ScoringType
<1>3. \A i \in DOMAIN gold : DOMAIN gold[i] \subseteq Categories
  BY <1>2 DEF GoldLabels
<1> QED
  BY <1>1, <1>2, <1>3, MetricsAssumption, FS_Subset DEF Shared

LEMMA ScoreItemKeeps ==
    ASSUME ScoringInv, NEW g \in GoldLabels, NEW aspects \in Predictions, ScoreItem(g, aspects)
    PROVE  ScoringInv'
<1> DEFINE more == AddedGold(g, aspects)
           answers == AddedPredicted(g, aspects)
           verdicts == AddedCorrect(g, aspects)
           agree == [n \in DOMAIN more |-> more[n] = answers[n]]
           N == Len(gold)
<1>1. /\ Validated(aspects)
      /\ gold' = Append(gold, g)
      /\ predictedCategories' = Append(predictedCategories, Named(aspects))
      /\ goldSentiments' = goldSentiments \o more
      /\ predictedSentiments' = predictedSentiments \o answers
      /\ confidences' = confidences \o AddedConfidences(aspects)
      /\ correct' = correct \o verdicts
  BY ScoreItemAdds
<1>2. DOMAIN g \subseteq Categories /\ g \in [DOMAIN g -> Sentiments] /\ aspects \subseteq PredictedAspect
  BY InputsTyped
<1>3. Named(aspects) \subseteq Categories /\ IsFiniteSet(Named(aspects))
  BY <1>1, <1>2, NamedOnce
<1>4. /\ more \in Seq(Sentiments) /\ answers \in Seq(Sentiments)
      /\ Len(more) = Cardinality(DOMAIN g \cap Named(aspects)) /\ Len(answers) = Len(more)
      /\ AddedConfidences(aspects) \in Seq(Confidences)
      /\ Len(AddedConfidences(aspects)) = Cardinality(Named(aspects))
      /\ verdicts \in Seq(BOOLEAN)
      /\ Len(verdicts) = Cardinality(Named(aspects))
      /\ Hits(verdicts) = Hits(agree)
  BY <1>1, <1>2, ItemAdds
<1> HIDE DEF more, answers, verdicts
<1>5. ScoringType'
  <2>1. gold' \in Seq(GoldLabels) /\ Len(gold') = Len(gold) + 1
    BY <1>1 DEF ScoringInv, ScoringType
  <2>2. /\ predictedCategories' \in Seq(SUBSET Categories)
        /\ Len(predictedCategories') = Len(predictedCategories) + 1
    BY <1>1, <1>3 DEF ScoringInv, ScoringType
  <2>3. /\ goldSentiments' \in Seq(Sentiments)
        /\ Len(goldSentiments') = Len(goldSentiments) + Len(more)
    BY <1>1, <1>4, Concatenated DEF ScoringInv, ScoringType
  <2>4. /\ predictedSentiments' \in Seq(Sentiments)
        /\ Len(predictedSentiments') = Len(predictedSentiments) + Len(answers)
    BY <1>1, <1>4, Concatenated DEF ScoringInv, ScoringType
  <2>5. /\ confidences' \in Seq(Confidences)
        /\ Len(confidences') = Len(confidences) + Len(AddedConfidences(aspects))
    BY <1>1, <1>4, Concatenated DEF ScoringInv, ScoringType
  <2>6. correct' \in Seq(BOOLEAN) /\ Len(correct') = Len(correct) + Len(verdicts)
    BY <1>1, <1>4, Concatenated DEF ScoringInv, ScoringType
  <2> QED
    BY <1>4, <2>1, <2>2, <2>3, <2>4, <2>5, <2>6 DEF ScoringInv, ScoringType
<1>6. /\ N \in Nat /\ DOMAIN gold = 1 .. N /\ DOMAIN predictedCategories = 1 .. N
      /\ \A i \in DOMAIN gold : IsFiniteSet(Shared(i)) /\ IsFiniteSet(predictedCategories[i])
  BY ItemsTyped DEF ScoringInv
<1>7. /\ DOMAIN gold' = 1 .. N + 1 /\ DOMAIN predictedCategories' = 1 .. N + 1
      /\ \A i \in 1 .. N : gold'[i] = gold[i] /\ predictedCategories'[i] = predictedCategories[i]
      /\ gold'[N + 1] = g /\ predictedCategories'[N + 1] = Named(aspects)
  <2>1. gold \in Seq(GoldLabels) /\ predictedCategories \in Seq(SUBSET Categories)
        /\ Len(predictedCategories) = N
    BY DEF ScoringInv, ScoringType
  <2> QED
    BY <1>1, <1>3, <2>1
<1> HIDE DEF N
<1>8. Cardinality(DOMAIN g \cap Named(aspects)) \in Nat /\ Cardinality(Named(aspects)) \in Nat
  BY <1>3, FS_CardinalityType, FS_Intersection
<1>9. Len(goldSentiments') = Total([i \in DOMAIN gold' |-> Cardinality(Shared(i)')])
  <2> DEFINE f == [i \in DOMAIN gold |-> Cardinality(Shared(i))]
             h == [i \in DOMAIN gold' |-> Cardinality(Shared(i)')]
  <2>1. \A i \in 1 .. N : f[i] \in Int /\ h[i] = f[i]
    <3>1. \A i \in 1 .. N : Shared(i)' = Shared(i)
      BY <1>7 DEF Shared
    <3>2. \A i \in 1 .. N : Cardinality(Shared(i)) \in Int
      BY <1>6, FS_CardinalityType
    <3> QED
      BY <1>6, <1>7, <3>1, <3>2
  <2>2. h[N + 1] = Cardinality(DOMAIN g \cap Named(aspects)) /\ h[N + 1] \in Int
    BY <1>6, <1>7, <1>8 DEF Shared
  <2>3. DOMAIN f = 1 .. N /\ DOMAIN h = 1 .. N + 1
    BY <1>6, <1>7
  <2>4. Len(goldSentiments) = Total(f)
    BY DEF ScoringInv
  <2>5. Len(goldSentiments') = Len(goldSentiments) + Len(more)
    BY <1>1, <1>4 DEF ScoringInv, ScoringType
  <2> HIDE DEF f, h
  <2>6. Total(h) = Total(f) + h[N + 1]
    BY <1>6, <2>1, <2>2, <2>3, TotalAppend
  <2>7. Total(h) = Len(goldSentiments')
    BY <1>4, <2>2, <2>4, <2>5, <2>6
  <2> QED
    BY <2>7 DEF h
<1>10. Len(confidences') = Total([i \in DOMAIN gold' |-> Cardinality(predictedCategories'[i])])
  <2> DEFINE f == [i \in DOMAIN gold |-> Cardinality(predictedCategories[i])]
             h == [i \in DOMAIN gold' |-> Cardinality(predictedCategories'[i])]
  <2>1. \A i \in 1 .. N : f[i] \in Int /\ h[i] = f[i]
    BY <1>6, <1>7, FS_CardinalityType
  <2>2. h[N + 1] = Cardinality(Named(aspects)) /\ h[N + 1] \in Int
    BY <1>6, <1>7, <1>8
  <2>3. DOMAIN f = 1 .. N /\ DOMAIN h = 1 .. N + 1
    BY <1>6, <1>7
  <2>4. Len(confidences) = Total(f)
    BY DEF ScoringInv
  <2>5. Len(confidences') = Len(confidences) + Len(AddedConfidences(aspects))
    BY <1>1, <1>4 DEF ScoringInv, ScoringType
  <2> HIDE DEF f, h
  <2>6. Total(h) = Total(f) + h[N + 1]
    BY <1>6, <2>1, <2>2, <2>3, TotalAppend
  <2>7. Total(h) = Len(confidences')
    BY <1>4, <2>2, <2>4, <2>5, <2>6
  <2> QED
    BY <2>7 DEF h
<1>11. Agreement' = Agreement \o agree /\ Agreement \in Seq(BOOLEAN) /\ agree \in Seq(BOOLEAN)
  <2>1. /\ goldSentiments \in Seq(Sentiments) /\ predictedSentiments \in Seq(Sentiments)
        /\ Len(predictedSentiments) = Len(goldSentiments)
    BY DEF ScoringInv, ScoringType
  <2>2. Agreement \in Seq(BOOLEAN) /\ Len(Agreement) = Len(goldSentiments)
    BY <2>1 DEF Agreement
  <2> DEFINE L == Len(goldSentiments)  M == Len(more)
  <2>0. /\ more \in Seq(Sentiments) /\ answers \in Seq(Sentiments) /\ Len(answers) = M
        /\ L \in Nat /\ M \in Nat /\ DOMAIN more = 1 .. M
    BY <1>4, <2>1
  <2>3. agree \in Seq(BOOLEAN) /\ Len(agree) = M
    BY <2>0
  <2> DEFINE both == goldSentiments \o more  told == predictedSentiments \o answers
  <2>4. L \in Nat /\ M \in Nat /\ DOMAIN both = 1 .. L + M
    BY <2>0, <2>1
  <2>5. /\ \A n \in 1 .. L : both[n] = goldSentiments[n] /\ told[n] = predictedSentiments[n]
        /\ \A n \in L + 1 .. L + M : both[n] = more[n - L] /\ told[n] = answers[n - L]
    BY <2>0, <2>1
  <2>6. Agreement' = [n \in 1 .. L + M |-> both[n] = told[n]]
    BY <1>1, <2>4 DEF Agreement
  <2>7. /\ DOMAIN (Agreement \o agree) = 1 .. L + M
        /\ \A n \in 1 .. L : (Agreement \o agree)[n] = Agreement[n]
        /\ \A n \in L + 1 .. L + M : (Agreement \o agree)[n] = agree[n - L]
    BY <2>2, <2>3, <2>4
  <2>8. \A n \in 1 .. L : Agreement[n] = (goldSentiments[n] = predictedSentiments[n])
    BY <2>1 DEF Agreement
  <2>9. \A n \in L + 1 .. L + M : agree[n - L] = (more[n - L] = answers[n - L])
    BY <2>0
  <2>10. Agreement \o agree = [n \in 1 .. L + M |-> (Agreement \o agree)[n]]
    BY <2>2, <2>3, <2>7
  <2> HIDE DEF agree, both, told, L, M
  <2>11. \A n \in 1 .. L + M : (Agreement \o agree)[n] = (both[n] = told[n])
    <3> TAKE n \in 1 .. L + M
    <3>1. n \in 1 .. L \/ n \in L + 1 .. L + M
      BY <2>4
    <3>2. CASE n \in 1 .. L
      BY <2>5, <2>7, <2>8, <3>2, Zenon
    <3>3. CASE n \in L + 1 .. L + M
      BY <2>5, <2>7, <2>9, <3>3, Zenon
    <3> QED
      BY <3>1, <3>2, <3>3
  <2>12. Agreement' = Agreement \o agree
    BY <2>6, <2>10, <2>11, Zenon
  <2> QED
    BY <2>2, <2>3, <2>12
<1>12. Hits(correct') = Hits(Agreement')
  <2> HIDE DEF agree
  <2>1. Hits(correct') = Hits(correct) + Hits(verdicts)
    BY <1>1, <1>4, HitsOfBoth DEF ScoringInv, ScoringType
  <2>2. Hits(Agreement') = Hits(Agreement) + Hits(agree)
    BY <1>11, HitsOfBoth
  <2> QED
    BY <1>4, <2>1, <2>2 DEF ScoringInv
<1>13. Hits(correct)' = Hits(Agreement)'
  BY <1>12 DEF Hits
<1> QED
  BY <1>5, <1>9, <1>10, <1>13 DEF ScoringInv

(* The five lists run_evaluation appends to stay in step, however an item's *)
(* sets are listed.                                                         *)
THEOREM ScoringInvariant == ScoringSpec => []ScoringInv
<1>1. ScoringInv /\ [ScoringNext]_metricVars => ScoringInv'
  <2> SUFFICES ASSUME ScoringInv, [ScoringNext]_metricVars PROVE ScoringInv'
    OBVIOUS
  <2>1. ASSUME NEW aspects \in Predictions, NEW g \in GoldLabels, ScoreItem(g, aspects)
        PROVE  ScoringInv'
    BY <2>1, ScoreItemKeeps
  <2>2. ASSUME UNCHANGED <<gold, collected>> PROVE ScoringInv'
    BY <2>2 DEF collected, ScoringInv, ScoringType, Shared, Agreement, Hits
  <2> QED
    BY <2>1, <2>2 DEF ScoringNext, RejectItem, metricVars
<1> QED
  BY <1>1, ScoringInitially, PTL DEF ScoringSpec

-----------------------------------------------------------------------------
(* The buckets *)

LEMMA Quotient ==
    ASSUME NEW x \in Nat, NEW d \in Nat \ {0}
    PROVE  /\ x \div d \in Nat
           /\ \A k \in Int : k * d <= x <=> k <= x \div d
<1> DEFINE q == x \div d
<1>1. q \in Nat /\ q * d <= x /\ x < q * d + d
  OBVIOUS
<1> HIDE DEF q
<1>2. \A k \in Int : k * d <= x <=> k <= q
  <2> TAKE k \in Int
  <2>1. CASE k <= q
    <3>1. k * d <= q * d
      BY <1>1, <2>1
    <3> QED
      BY <1>1, <2>1, <3>1
  <2>2. CASE k >= q + 1
    <3>1. k * d >= (q + 1) * d /\ (q + 1) * d = q * d + d
      BY <1>1, <2>2
    <3>2. k * d \in Int /\ q * d \in Int
      BY <1>1
    <3>3. k * d > x
      BY <1>1, <3>1, <3>2
    <3> QED
      BY <1>1, <2>2, <3>2, <3>3
  <2> QED
    BY <1>1, <2>1, <2>2
<1> QED
  BY <1>1, <1>2 DEF q

(* A confidence falls into the bucket whose lower edge is the last one not  *)
(* above it, and 1.0 into the last bucket.                                  *)
LEMMA BucketIsFloor ==
    ASSUME NEW c \in 0 .. Resolution
    PROVE  /\ BucketOf(c) \in Buckets
           /\ \A b \in Buckets :
                 BucketOf(c) = b <=> /\ b * Resolution <= c * BucketCount
                                     /\ \/ c * BucketCount < (b + 1) * Resolution
                                        \/ b = BucketCount - 1
<1> DEFINE x == c * BucketCount  q == x \div Resolution
           edges == {k \in 0 .. BucketCount : EdgeAtMost(k, c)}
<1>1. /\ Resolution \in Nat \ {0} /\ BucketCount \in Nat \ {0} /\ c \in Nat
      /\ x \in Nat /\ c <= Resolution
  BY MetricsAssumption
<1>2. q \in Nat /\ \A k \in Int : k * Resolution <= x <=> k <= q
  <2> HIDE DEF x
  <2> QED
    BY <1>1, Quotient
<1>3. q <= BucketCount
  <2>1. x <= BucketCount * Resolution
    BY <1>1
  <2>2. (BucketCount + 1) * Resolution = BucketCount * Resolution + Resolution
    BY <1>1
  <2>3. BucketCount * Resolution \in Int
    BY <1>1
  <2>4. ~((BucketCount + 1) * Resolution <= x)
    <3> HIDE DEF x
    <3> QED
      BY <1>1, <2>1, <2>2, <2>3
  <2> HIDE DEF q, x
  <2>5. ~(BucketCount + 1 <= q)
    BY <1>1, <1>2, <2>4
  <2> QED
    BY <1>1, <1>2, <2>5
<1> HIDE DEF q
<1>4. edges = 0 .. q
  <2>1. \A k \in Int : EdgeAtMost(k, c) <=> k <= q
    BY <1>2, Zenon DEF EdgeAtMost
  <2> QED
    BY <1>1, <1>2, <1>3, <2>1
<1>5. Cardinality(edges) - 1 = q
  <2>1. Cardinality(0 .. q) = q + 1
    BY <1>2, FS_Interval
  <2> HIDE DEF edges
  <2> QED
    BY <1>2, <1>4, <2>1
<1>6. BucketOf(c) = IF q < BucketCount - 1 THEN q ELSE BucketCount - 1
  BY <1>5 DEF BucketOf
<1>7. BucketOf(c) \in Buckets
  BY <1>1, <1>2, <1>6 DEF Buckets
<1>8. ASSUME NEW b \in Buckets
      PROVE  BucketOf(c) = b <=> /\ b * Resolution <= x
                                 /\ x < (b + 1) * Resolution \/ b = BucketCount - 1
  <2>1. b \in Int /\ 0 <= b /\ b <= BucketCount - 1 /\ b + 1 \in Int
    BY <1>1 DEF Buckets
  <2>2. b * Resolution <= x <=> b <= q
    BY <1>2, <2>1
  <2>3. (b + 1) * Resolution <= x <=> b + 1 <= q
    BY <1>2, <2>1
  <2>4. (b + 1) * Resolution \in Int
    BY <1>1, <2>1
  <2> HIDE DEF x
  <2>5. x < (b + 1) * Resolution <=> ~(b + 1 <= q)
    BY <1>1, <2>3, <2>4
  <2> QED
    BY <1>1, <1>2, <1>6, <2>1, <2>2, <2>5
<1> QED
  BY <1>7, <1>8

LEMMA PredictionsTyped ==
    ASSUME ScoringType
    PROVE  /\ Len(confidences) \in Nat /\ DOMAIN confidences = 1 .. Len(confidences)
           /\ DOMAIN correct = DOMAIN confidences /\ IsFiniteSet(DOMAIN confidences)
           /\ Cardinality(DOMAIN confidences) = Len(confidences)
           /\ \A n \in DOMAIN confidences :
                 /\ confidences[n] \in 0 .. Resolution /\ confidences[n] \in Nat
                 /\ correct[n] \in BOOLEAN /\ BucketOf(confidences[n]) \in Buckets
<1>1. /\ Len(confidences) \in Nat /\ DOMAIN confidences = 1 .. Len(confidences)
      /\ DOMAIN correct = DOMAIN confidences
  BY DEF ScoringType
<1>2. IsFiniteSet(1 .. Len(confidences)) /\ Cardinality(1 .. Len(confidences)) = Len(confidences)
  BY <1>1, IndicesFinite
<1>3. \A n \in DOMAIN confidences : confidences[n] \in 0 .. Resolution /\ correct[n] \in BOOLEAN
  <2>1. \A n \in DOMAIN confidences : confidences[n] \in Confidences /\ correct[n] \in BOOLEAN
    BY DEF ScoringType
  <2> QED
    BY <2>1, MetricsAssumption
<1>4. \A n \in DOMAIN confidences : BucketOf(confidences[n]) \in Buckets
  BY <1>3, BucketIsFloor
<1> QED
  BY <1>1, <1>2, <1>3, <1>4

LEMMA PartitionFollows == ScoringType => BucketsPartition
<1> SUFFICES ASSUME ScoringType PROVE BucketsPartition
  OBVIOUS
<1>1. \A n \in DOMAIN confidences : confidences[n] \in 0 .. Resolution
  BY PredictionsTyped
<1>2. \A n \in DOMAIN confidences : \A b \in Buckets :
         BucketOf(confidences[n]) = b <=>
            /\ b * Resolution <= confidences[n] * BucketCount
            /\ \/ confidences[n] * BucketCount < (b + 1) * Resolution
               \/ b = BucketCount - 1
  BY <1>1, BucketIsFloor
<1>3. \A n \in DOMAIN confidences : BucketOf(confidences[n]) \in Buckets
  BY PredictionsTyped
<1> QED
  BY <1>2, <1>3, Zenon DEF BucketsPartition, InBucket

(* The reliability buckets are half open and cover the whole range, the     *)
(* last one with its upper edge: no prediction is dropped or counted twice  *)
(* (calibration_metrics).                                                   *)
THEOREM BucketsArePartition == ScoringSpec => []BucketsPartition
<1>1. ScoringInv => BucketsPartition
  BY PartitionFollows DEF ScoringInv
<1> QED
  BY <1>1, ScoringInvariant, PTL

-----------------------------------------------------------------------------
(* The three families count the same predictions *)

LEMMA UniverseFinite ==
    ASSUME ScoringType
    PROVE  /\ IsFiniteSet(LabelUniverse)
           /\ \A i \in DOMAIN gold : /\ DOMAIN gold[i] \subseteq LabelUniverse
                                     /\ predictedCategories[i] \subseteq LabelUniverse
<1>1. /\ DOMAIN predictedCategories = DOMAIN gold
      /\ \A i \in DOMAIN gold : DOMAIN gold[i] \subseteq Categories /\ predictedCategories[i] \subseteq Categories
  BY ItemsTyped
<1>0. \A c : c \in LabelUniverse <=>
              \E i \in DOMAIN gold : c \in DOMAIN gold[i] \/ c \in predictedCategories[i]
  <2> DEFINE A == {DOMAIN gold[i] : i \in DOMAIN gold}
             B == {predictedCategories[i] : i \in DOMAIN predictedCategories}
  <2>1. \A c : c \in UNION A <=> \E i \in DOMAIN gold : c \in DOMAIN gold[i]
    OBVIOUS
  <2>2. \A c : c \in UNION B <=> \E i \in DOMAIN gold : c \in predictedCategories[i]
    BY <1>1
  <2>3. LabelUniverse = (UNION A) \cup (UNION B)
    BY DEF LabelUniverse
  <2> HIDE DEF A, B
  <2> TAKE c
  <2>4. c \in LabelUniverse <=> c \in UNION A \/ c \in UNION B
    BY <2>3, Zenon
  <2> QED
    BY <2>1, <2>2, <2>4, Zenon
<1>2. LabelUniverse \subseteq Categories
  BY <1>0, <1>1
<1>3. IsFiniteSet(LabelUniverse)
  BY <1>2, MetricsAssumption, FS_Subset
<1>4. \A i \in DOMAIN gold : /\ DOMAIN gold[i] \subseteq LabelUniverse
                            /\ predictedCategories[i] \subseteq LabelUniverse
  BY <1>0
<1> QED
  BY <1>3, <1>4

(* The counts per category add up to those per item. *)
LEMMA CountsPerItem ==
    ASSUME ScoringType
    PROVE  /\ MicroTruePositives = SumFunctionOnSet([i \in DOMAIN gold |-> Cardinality(Shared(i))], DOMAIN gold)
           /\ MicroFalsePositives = SumFunctionOnSet(
                 [i \in DOMAIN gold |-> Cardinality(predictedCategories[i] \ DOMAIN gold[i])], DOMAIN gold)
           /\ MicroFalseNegatives = SumFunctionOnSet(
                 [i \in DOMAIN gold |-> Cardinality(DOMAIN gold[i] \ predictedCategories[i])], DOMAIN gold)
<1> DEFINE I == DOMAIN gold
<1>1. IsFiniteSet(I) /\ IsFiniteSet(LabelUniverse)
  BY ItemsTyped, IndicesFinite, UniverseFinite
<1>2. \A i \in I : DOMAIN gold[i] \subseteq LabelUniverse /\ predictedCategories[i] \subseteq LabelUniverse
  BY UniverseFinite
<1>3. MicroTruePositives = SumFunctionOnSet([i \in I |-> Cardinality(Shared(i))], I)
  <2> DEFINE A == [i \in I |-> Shared(i)]
             F == [c \in LabelUniverse |-> TruePositives(c)]
             G == [i \in I |-> Cardinality(Shared(i))]
  <2>1. \A i \in I : A[i] \subseteq LabelUniverse
    BY <1>2 DEF Shared
  <2>2. ASSUME NEW c \in LabelUniverse PROVE F[c] = Cardinality(Having(A, I, c))
    <3>1. Having(A, I, c) = {i \in I : c \in DOMAIN gold[i] /\ c \in predictedCategories[i]}
      BY DEF Shared, Having
    <3> QED
      BY <3>1 DEF TruePositives
  <2>3. \A i \in I : G[i] = Cardinality(A[i])
    OBVIOUS
  <2>4. DOMAIN F = LabelUniverse
    OBVIOUS
  <2> HIDE DEF A, F, G, I
  <2>5. SumFunctionOnSet(F, LabelUniverse) = SumFunctionOnSet(G, I)
    BY <1>1, <2>1, <2>2, <2>3, DoubleCount
  <2> QED
    BY <2>4, <2>5, TotalIsSum DEF MicroTruePositives, F, G
<1>4. MicroFalsePositives = SumFunctionOnSet(
         [i \in I |-> Cardinality(predictedCategories[i] \ DOMAIN gold[i])], I)
  <2> DEFINE A == [i \in I |-> predictedCategories[i] \ DOMAIN gold[i]]
             F == [c \in LabelUniverse |-> FalsePositives(c)]
             G == [i \in I |-> Cardinality(predictedCategories[i] \ DOMAIN gold[i])]
  <2>1. \A i \in I : A[i] \subseteq LabelUniverse
    BY <1>2
  <2>2. ASSUME NEW c \in LabelUniverse PROVE F[c] = Cardinality(Having(A, I, c))
    <3>1. Having(A, I, c) = {i \in I : c \notin DOMAIN gold[i] /\ c \in predictedCategories[i]}
      BY DEF Having
    <3> QED
      BY <3>1 DEF FalsePositives
  <2>3. \A i \in I : G[i] = Cardinality(A[i])
    OBVIOUS
  <2>4. DOMAIN F = LabelUniverse
    OBVIOUS
  <2> HIDE DEF A, F, G, I
  <2>5. SumFunctionOnSet(F, LabelUniverse) = SumFunctionOnSet(G, I)
    BY <1>1, <2>1, <2>2, <2>3, DoubleCount
  <2> QED
    BY <2>4, <2>5, TotalIsSum DEF MicroFalsePositives, F, G
<1>5. MicroFalseNegatives = SumFunctionOnSet(
         [i \in I |-> Cardinality(DOMAIN gold[i] \ predictedCategories[i])], I)
  <2> DEFINE A == [i \in I |-> DOMAIN gold[i] \ predictedCategories[i]]
             F == [c \in LabelUniverse |-> FalseNegatives(c)]
             G == [i \in I |-> Cardinality(DOMAIN gold[i] \ predictedCategories[i])]
  <2>1. \A i \in I : A[i] \subseteq LabelUniverse
    BY <1>2
  <2>2. ASSUME NEW c \in LabelUniverse PROVE F[c] = Cardinality(Having(A, I, c))
    <3>1. Having(A, I, c) = {i \in I : c \in DOMAIN gold[i] /\ c \notin predictedCategories[i]}
      BY DEF Having
    <3> QED
      BY <3>1 DEF FalseNegatives
  <2>3. \A i \in I : G[i] = Cardinality(A[i])
    OBVIOUS
  <2>4. DOMAIN F = LabelUniverse
    OBVIOUS
  <2> HIDE DEF A, F, G, I
  <2>5. SumFunctionOnSet(F, LabelUniverse) = SumFunctionOnSet(G, I)
    BY <1>1, <2>1, <2>2, <2>3, DoubleCount
  <2> QED
    BY <2>4, <2>5, TotalIsSum DEF MicroFalseNegatives, F, G
<1> QED
  BY <1>3, <1>4, <1>5

(* A prediction that counts as correct is on the diagonal of the confusion  *)
(* matrix, whichever bucket it is in.                                       *)
LEMMA CorrectIsDiagonal ==
    ASSUME ScoringInv
    PROVE  /\ Total([b \in Buckets |-> CorrectIn(b)]) = Hits(correct)
           /\ Diagonal = Hits(Agreement)
<1> USE DEF ScoringInv
<1>1. Total([b \in Buckets |-> CorrectIn(b)]) = Hits(correct)
  <2> DEFINE S == {n \in DOMAIN correct : correct[n]}
             bucket == [n \in S |-> BucketOf(confidences[n])]
             F == [b \in Buckets |-> CorrectIn(b)]
  <2>1. DOMAIN correct = DOMAIN confidences /\ IsFiniteSet(S)
    BY PredictionsTyped, FS_Subset
  <2>2. IsFiniteSet(Buckets)
    <3>1. 0 \in Int /\ BucketCount - 1 \in Int
      BY MetricsAssumption
    <3> QED
      BY <3>1, FS_Interval, Zenon DEF Buckets
  <2>3. \A n \in S : bucket[n] \in Buckets
    BY <2>1, PredictionsTyped
  <2>4. ASSUME NEW b \in Buckets PROVE F[b] = Cardinality(Fiber(bucket, S, b))
    <3>1. Fiber(bucket, S, b) = {n \in InBucket(b) : correct[n]}
      BY <2>1 DEF Fiber, InBucket
    <3> QED
      BY <3>1 DEF CorrectIn
  <2>5. DOMAIN F = Buckets
    OBVIOUS
  <2> HIDE DEF S, bucket, F
  <2>6. SumFunctionOnSet(F, Buckets) = Cardinality(S)
    BY <2>1, <2>2, <2>3, <2>4, CountOfFibers
  <2> QED
    BY <2>5, <2>6, TotalIsSum DEF Hits, F, S
<1>2. Diagonal = Hits(Agreement)
  <2> DEFINE S == {n \in DOMAIN Agreement : Agreement[n]}
             F == [s \in Sentiments |-> Confusion[s][s]]
  <2>1. /\ DOMAIN Agreement = DOMAIN goldSentiments
        /\ \A n \in DOMAIN goldSentiments :
              /\ Agreement[n] <=> goldSentiments[n] = predictedSentiments[n]
              /\ goldSentiments[n] \in Sentiments
    <3>1. \A n \in DOMAIN goldSentiments : goldSentiments[n] \in Sentiments
      BY DEF ScoringType
    <3>2. /\ DOMAIN Agreement = DOMAIN goldSentiments
          /\ \A n \in DOMAIN goldSentiments :
                Agreement[n] <=> goldSentiments[n] = predictedSentiments[n]
      BY Zenon DEF Agreement
    <3> QED
      BY <3>1, <3>2
  <2>2. IsFiniteSet(S)
    <3>1. IsFiniteSet(DOMAIN goldSentiments)
      BY IndicesFinite DEF ScoringType
    <3> QED
      BY <2>1, <3>1, FS_Subset
  <2>3. \A n \in S : goldSentiments[n] \in Sentiments
    BY <2>1
  <2>4. ASSUME NEW s \in Sentiments PROVE F[s] = Cardinality(Fiber(goldSentiments, S, s))
    <3>1. Fiber(goldSentiments, S, s) =
            {n \in DOMAIN goldSentiments : goldSentiments[n] = s /\ predictedSentiments[n] = s}
      BY <2>1 DEF Fiber
    <3> QED
      BY <3>1 DEF Confusion
  <2>5. DOMAIN F = Sentiments
    OBVIOUS
  <2> HIDE DEF S, F
  <2>6. SumFunctionOnSet(F, Sentiments) = Cardinality(S)
    BY <2>2, <2>3, <2>4, MetricsAssumption, CountOfFibers
  <2> QED
    BY <2>5, <2>6, TotalIsSum DEF Diagonal, Hits, F, S
<1> QED
  BY <1>1, <1>2

LEMMA FamiliesFollow == ScoringInv => FamiliesAgree
<1> SUFFICES ASSUME ScoringInv PROVE FamiliesAgree
  OBVIOUS
<1> USE DEF ScoringInv
<1> DEFINE I == DOMAIN gold
           hit == [i \in I |-> Cardinality(Shared(i))]
           invented == [i \in I |-> Cardinality(predictedCategories[i] \ DOMAIN gold[i])]
           missed == [i \in I |-> Cardinality(DOMAIN gold[i] \ predictedCategories[i])]
           named == [i \in I |-> Cardinality(predictedCategories[i])]
           owed == [i \in I |-> Cardinality(DOMAIN gold[i])]
<1>1. IsFiniteSet(I)
  BY ItemsTyped, IndicesFinite
<1>2. ASSUME NEW i \in I
      PROVE  /\ hit[i] \in Int /\ invented[i] \in Int /\ missed[i] \in Int
             /\ named[i] = hit[i] + invented[i] /\ owed[i] = hit[i] + missed[i]
  <2> DEFINE A == DOMAIN gold[i]  B == predictedCategories[i]
  <2>1. IsFiniteSet(A) /\ IsFiniteSet(B) /\ IsFiniteSet(A \cap B)
        /\ IsFiniteSet(A \ B) /\ IsFiniteSet(B \ A)
    BY ItemsTyped, FS_Subset
  <2>2. /\ A = (A \cap B) \cup (A \ B) /\ (A \cap B) \cap (A \ B) = {}
        /\ B = (A \cap B) \cup (B \ A) /\ (A \cap B) \cap (B \ A) = {}
    OBVIOUS
  <2>3. hit[i] = Cardinality(A \cap B) /\ invented[i] = Cardinality(B \ A)
        /\ missed[i] = Cardinality(A \ B) /\ named[i] = Cardinality(B) /\ owed[i] = Cardinality(A)
    BY DEF Shared
  <2> HIDE DEF A, B, hit, invented, missed, named, owed
  <2>4. Cardinality(A) = Cardinality(A \cap B) + Cardinality(A \ B)
    BY <2>1, <2>2, CountUnion
  <2>5. Cardinality(B) = Cardinality(A \cap B) + Cardinality(B \ A)
    BY <2>1, <2>2, CountUnion
  <2> QED
    BY <2>1, <2>3, <2>4, <2>5, FS_CardinalityType
<1>3. /\ MicroTruePositives = SumFunctionOnSet(hit, I)
      /\ MicroFalsePositives = SumFunctionOnSet(invented, I)
      /\ MicroFalseNegatives = SumFunctionOnSet(missed, I)
  BY CountsPerItem
<1>4. /\ Len(goldSentiments) = SumFunctionOnSet(hit, I)
      /\ Len(confidences) = SumFunctionOnSet(named, I)
      /\ Total([i \in DOMAIN gold |-> Cardinality(DOMAIN gold[i])]) = SumFunctionOnSet(owed, I)
  <2>1. DOMAIN hit = I /\ DOMAIN named = I /\ DOMAIN owed = I
    OBVIOUS
  <2>2. Len(goldSentiments) = Total(hit) /\ Len(confidences) = Total(named)
    OBVIOUS
  <2> QED
    BY <2>1, <2>2, TotalIsSum
<1> HIDE DEF I, hit, invented, missed, named, owed
<1>5. SumFunctionOnSet(named, I) = SumFunctionOnSet(hit, I) + SumFunctionOnSet(invented, I)
  BY <1>1, <1>2, SumPlus
<1>6. SumFunctionOnSet(owed, I) = SumFunctionOnSet(hit, I) + SumFunctionOnSet(missed, I)
  BY <1>1, <1>2, SumPlus
<1>7. Micro.support = MicroTruePositives + MicroFalseNegatives
  BY DEF Micro, Prf
<1>8. Total([b \in Buckets |-> CorrectIn(b)]) = Diagonal
  BY CorrectIsDiagonal
<1> QED
  BY <1>3, <1>4, <1>5, <1>6, <1>7, <1>8 DEF FamiliesAgree

(* Sentiment scores exactly the category hits, calibration every predicted  *)
(* label, and the calibrated-correct are the diagonal of the confusion      *)
(* matrix, though each family is computed from lists of its own (runner.py).*)
THEOREM FamiliesDescribeOneSet == ScoringSpec => []FamiliesAgree
<1>1. ScoringInv => FamiliesAgree
  BY FamiliesFollow
<1> QED
  BY <1>1, ScoringInvariant, PTL

-----------------------------------------------------------------------------
(* The calibration error *)

(* By how much a prediction was better than its confidence. *)
Gain(n) == (IF correct[n] THEN Resolution ELSE 0) - confidences[n]

LEMMA GainTyped ==
    ASSUME ScoringType, NEW n \in DOMAIN confidences PROVE Gain(n) \in Int
  BY PredictionsTyped, MetricsAssumption DEF Gain

(* The gap of a bucket is the net gain of its predictions. *)
LEMMA GapIsNetGain ==
    ASSUME ScoringType, NEW b \in Buckets
    PROVE  Gap(b) = Magnitude(SumFunctionOnSet([n \in DOMAIN confidences |-> Gain(n)], InBucket(b)))
<1> DEFINE D == DOMAIN confidences
           B == InBucket(b)
           A == {n \in B : correct[n]}
           gain == [n \in D |-> Gain(n)]
           one == [n \in B |-> IF n \in A THEN 1 ELSE 0]
           due == [n \in B |-> Resolution * one[n]]
           given == [n \in B |-> confidences[n]]
<1>1. B \subseteq D /\ IsFiniteSet(B) /\ A \subseteq B
  <2>1. B \subseteq D
    BY DEF InBucket
  <2> QED
    BY <2>1, PredictionsTyped, FS_Subset
<1>2. Resolution \in Int
  BY MetricsAssumption
<1>3. ASSUME NEW n \in B
      PROVE  gain[n] \in Int /\ given[n] \in Int /\ due[n] = gain[n] + given[n]
  <2>1. n \in D /\ confidences[n] \in Nat /\ correct[n] \in BOOLEAN
    BY <1>1, PredictionsTyped
  <2>2. gain[n] = Gain(n) /\ given[n] = confidences[n] /\ Gain(n) \in Int
    BY <2>1, GainTyped
  <2>3. due[n] = IF correct[n] THEN Resolution ELSE 0
    BY <1>2
  <2> QED
    BY <1>2, <2>1, <2>2, <2>3 DEF Gain
<1>4. \A n \in B : one[n] \in Int /\ due[n] = Resolution * one[n]
  OBVIOUS
<1>5. \A n \in B : one[n] = IF n \in A THEN 1 ELSE 0
  OBVIOUS
<1>6. DOMAIN given = B
  OBVIOUS
<1>7. CorrectIn(b) = Cardinality(A) /\ ConfidenceIn(b) = Total(given)
  BY DEF CorrectIn, ConfidenceIn
<1> HIDE DEF D, B, A, gain, one, due, given
<1>8. SumFunctionOnSet(due, B) = SumFunctionOnSet(gain, B) + SumFunctionOnSet(given, B)
  BY <1>1, <1>3, SumPlus
<1>9. SumFunctionOnSet(due, B) = Resolution * SumFunctionOnSet(one, B)
  BY <1>1, <1>2, <1>4, SumTimes
<1>10. SumFunctionOnSet(one, B) = Cardinality(A)
  BY <1>1, <1>5, SumCounts
<1>11. ConfidenceIn(b) = SumFunctionOnSet(given, B)
  BY <1>6, <1>7, TotalIsSum
<1>12. /\ SumFunctionOnSet(gain, B) \in Int /\ SumFunctionOnSet(given, B) \in Int
       /\ Cardinality(A) \in Nat
  BY <1>1, <1>3, SumType, FS_Subset, FS_CardinalityType
<1>13. CorrectIn(b) * Resolution - ConfidenceIn(b) = SumFunctionOnSet(gain, B)
  <2>1. Cardinality(A) * Resolution = Resolution * Cardinality(A)
    BY <1>2, <1>12
  <2>2. CorrectIn(b) * Resolution = SumFunctionOnSet(gain, B) + SumFunctionOnSet(given, B)
    BY <1>7, <1>8, <1>9, <1>10, <2>1
  <2> QED
    BY <1>11, <1>12, <2>2
<1> QED
  BY <1>13 DEF Gap, Magnitude, gain, D, B

(* What the buckets hide by netting, the squares do not. *)
LEMMA GapsBounded ==
    ASSUME ScoringType
    PROVE  LET G == Total([b \in Buckets |-> Gap(b)])
           IN  G \in Nat /\ SquaredError \in Nat /\ G * G <= Len(confidences) * SquaredError
<1> DEFINE D == DOMAIN confidences
           gain == [n \in D |-> Gain(n)]
           size == [n \in D |-> Magnitude(Gain(n))]
           square == [n \in D |-> size[n] * size[n]]
           miss == [n \in D |-> LET m == confidences[n] - (IF correct[n] THEN Resolution ELSE 0)
                                IN  m * m]
           bucket == [n \in D |-> BucketOf(confidences[n])]
           gap == [b \in Buckets |-> Gap(b)]
           most == [b \in Buckets |-> SumFunctionOnSet(size, Fiber(bucket, D, b))]
<1>1. IsFiniteSet(D) /\ Cardinality(D) = Len(confidences)
  BY PredictionsTyped
<1>2. IsFiniteSet(Buckets)
  BY MetricsAssumption, FS_Interval DEF Buckets
<1>3. \A n \in D : gain[n] \in Int /\ size[n] = Magnitude(gain[n]) /\ size[n] \in Nat
  BY GainTyped DEF Magnitude
<1>4. \A n \in D : square[n] = size[n] * size[n]
  OBVIOUS
<1>5. \A n \in D : miss[n] = square[n] /\ square[n] \in Nat
  <2> TAKE n \in D
  <2>1. confidences[n] \in Nat /\ correct[n] \in BOOLEAN /\ Resolution \in Nat
    BY PredictionsTyped, MetricsAssumption
  <2> DEFINE m == confidences[n] - (IF correct[n] THEN Resolution ELSE 0)
  <2>2. m \in Int /\ Gain(n) = -m
    BY <2>1 DEF Gain
  <2>3. miss[n] = m * m /\ square[n] = Magnitude(Gain(n)) * Magnitude(Gain(n))
    OBVIOUS
  <2> HIDE DEF m, miss, square
  <2>4. Magnitude(Gain(n)) = m \/ Magnitude(Gain(n)) = -m
    BY <2>2 DEF Magnitude
  <2>5. (-m) * (-m) = m * m /\ m * m \in Nat
    BY <2>2
  <2> QED
    BY <2>3, <2>4, <2>5
<1>6. \A n \in D : bucket[n] \in Buckets
  BY PredictionsTyped
<1>7. \A b \in Buckets : Fiber(bucket, D, b) = InBucket(b) /\ Fiber(bucket, D, b) \subseteq D
  BY DEF Fiber, InBucket
<1>8. \A b \in Buckets : most[b] = SumFunctionOnSet(size, Fiber(bucket, D, b))
  OBVIOUS
<1>9. \A b \in Buckets : gap[b] = Magnitude(SumFunctionOnSet(gain, Fiber(bucket, D, b)))
  BY <1>7, GapIsNetGain
<1>10. DOMAIN gap = Buckets /\ DOMAIN miss = D
  OBVIOUS
<1>11. SquaredError = Total(miss)
  BY DEF SquaredError
<1> HIDE DEF D, gain, size, square, miss, bucket, gap, most
<1>12. ASSUME NEW b \in Buckets PROVE gap[b] \in Nat /\ most[b] \in Int /\ gap[b] <= most[b]
  <2> DEFINE B == Fiber(bucket, D, b)
  <2>1. B \subseteq D /\ IsFiniteSet(B)
    BY <1>1, <1>7, FS_Subset
  <2>2. \A n \in B : /\ gain[n] \in Int /\ size[n] = Magnitude(gain[n])
                     /\ size[n] \in Int
    BY <1>3, <2>1
  <2> HIDE DEF B
  <2>3. SumFunctionOnSet(gain, B) \in Int /\ SumFunctionOnSet(size, B) \in Int
    BY <2>1, <2>2, SumType
  <2>4. Magnitude(SumFunctionOnSet(gain, B)) <= SumFunctionOnSet(size, B)
    BY <2>1, <2>2, SumMagnitude
  <2>5. Magnitude(SumFunctionOnSet(gain, B)) \in Nat
    BY <2>3 DEF Magnitude
  <2> QED
    BY <1>8, <1>9, <2>3, <2>4, <2>5 DEF B
<1> DEFINE G == SumFunctionOnSet(gap, Buckets)
           T == SumFunctionOnSet(size, D)
           Q == SumFunctionOnSet(square, D)
<1>13. G \in Nat /\ G <= SumFunctionOnSet(most, Buckets)
  <2>1. \A b \in Buckets : gap[b] \in Int /\ most[b] \in Int /\ gap[b] <= most[b]
    BY <1>12
  <2> QED
    BY <1>2, <1>12, <2>1, SumOfNaturals, SumAtMost
<1>14. \A n \in D : size[n] \in Int
  BY <1>3
<1>15. SumFunctionOnSet(most, Buckets) = T
  BY <1>1, <1>2, <1>6, <1>8, <1>14, SumOfFibers
<1>16. T \in Nat /\ Q \in Nat
  BY <1>1, <1>3, <1>5, SumOfNaturals
<1>17. T * T <= Cardinality(D) * Q
  BY <1>1, <1>4, <1>14, SumSquared
<1>18. G * G <= T * T
  <2> HIDE DEF G, T
  <2>1. G <= T /\ G \in Nat /\ T \in Nat
    BY <1>13, <1>15, <1>16
  <2>2. G * G <= G * T /\ G * T <= T * T
    BY <2>1
  <2>3. G * G \in Int /\ G * T \in Int /\ T * T \in Int
    BY <2>1
  <2> QED
    BY <2>2, <2>3
<1>19. SquaredError = Q
  <2>1. \A n \in D : square[n] \in Int /\ miss[n] = square[n]
    BY <1>5
  <2>2. SumFunctionOnSet(miss, D) = Q
    BY <1>1, <2>1, SumSame
  <2> QED
    BY <1>10, <1>11, <2>2, TotalIsSum
<1>20. Total(gap) = G
  BY <1>10, TotalIsSum
<1> HIDE DEF G, T, Q
<1>21. G * G <= Len(confidences) * SquaredError
  <2>1. G * G \in Int /\ T * T \in Int /\ Cardinality(D) * Q \in Int
    BY <1>1, <1>13, <1>16, FS_CardinalityType
  <2>2. G * G <= Cardinality(D) * Q
    BY <1>17, <1>18, <2>1
  <2> QED
    BY <1>1, <1>19, <2>2
<1> QED
  BY <1>13, <1>16, <1>19, <1>20, <1>21 DEF gap

LEMMA CalibrationFollows == ScoringType => CalibrationErrorBounded
<1> SUFFICES ASSUME ScoringType, confidences # <<>>
             PROVE  LET e == ExpectedCalibrationError
                        q == BrierScore
                    IN  e[1] * e[1] * q[2] <= q[1] * e[2] * e[2]
  BY DEF CalibrationErrorBounded
<1> DEFINE G == Total([b \in Buckets |-> Gap(b)])
           N == Len(confidences)
           R == Resolution
           S == SquaredError
<1>1. N \in Nat \ {0} /\ R \in Nat \ {0}
  BY MetricsAssumption DEF ScoringType
<1>2. G \in Nat /\ S \in Nat /\ G * G <= N * S
  BY GapsBounded
<1>3. ExpectedCalibrationError = Ratio(G, R * N) /\ BrierScore = Ratio(S, R * R * N)
  BY DEF ExpectedCalibrationError, BrierScore
<1> HIDE DEF G, N, R, S
<1>4. R * N # 0 /\ R * R * N # 0
  BY <1>1
<1>5. ExpectedCalibrationError = <<G, R * N>> /\ BrierScore = <<S, R * R * N>>
  BY <1>3, <1>4 DEF Ratio
<1>6. G * G * (R * R * N) <= S * (R * N) * (R * N)
  <2> DEFINE k == R * R * N
  <2>1. k \in Nat
    BY <1>1
  <2>2. G * G \in Nat /\ N * S \in Nat
    BY <1>1, <1>2
  <2>3. \A x, y \in Nat : x <= y => x * k <= y * k
    BY <2>1
  <2>4. G * G * k <= (N * S) * k
    BY <1>2, <2>2, <2>3
  <2>5. (N * S) * k = S * (R * N) * (R * N)
    BY <1>1, <1>2
  <2> QED
    BY <2>4, <2>5
<1> QED
  BY <1>5, <1>6

(* The expected calibration error is at most the root of the Brier score:   *)
(* netting within a bucket hides error and never adds any, whatever the     *)
(* bucket count (calibration_metrics).                                      *)
THEOREM CalibrationIsBounded == ScoringSpec => []CalibrationErrorBounded
<1>1. ScoringInv => CalibrationErrorBounded
  BY CalibrationFollows DEF ScoringInv
<1> QED
  BY <1>1, ScoringInvariant, PTL

-----------------------------------------------------------------------------
(* Scores and their means *)

IsShare(p) == p \in Nat \X (Nat \ {0}) /\ p[1] <= p[2]

LEMMA PrfIsShare ==
    ASSUME NEW tp \in Nat, NEW fp \in Nat, NEW fn \in Nat
    PROVE  /\ IsShare(Prf(tp, fp, fn).f1)
           /\ IsOne(Prf(tp, fp, fn).f1) <=> tp > 0 /\ fp = 0 /\ fn = 0
<1> DEFINE p == Ratio(tp, tp + fp)  r == Ratio(tp, tp + fn)  sum == Plus(p, r)
           f1 == IF sum[1] = 0 THEN <<0, 1>> ELSE <<2 * p[1] * r[1] * sum[2], p[2] * r[2] * sum[1]>>
<1>1. Prf(tp, fp, fn).f1 = f1
  BY DEF Prf
<1>2. CASE tp = 0
  <2>1. p[1] = 0 /\ r[1] = 0 /\ p[2] \in Nat /\ r[2] \in Nat
    BY <1>2 DEF Ratio
  <2> HIDE DEF p, r
  <2>2. sum[1] = 0
    BY <2>1 DEF Plus
  <2>3. f1 = <<0, 1>>
    BY <2>2
  <2> QED
    BY <1>1, <1>2, <2>3 DEF IsShare, IsOne
<1>3. CASE tp > 0
  <2> DEFINE x == tp + fp  y == tp + fn
  <2>1. p = <<tp, x>> /\ r = <<tp, y>> /\ x \in Nat \ {0} /\ y \in Nat \ {0} /\ tp <= x /\ tp <= y
    BY <1>3 DEF Ratio
  <2>2. x = tp /\ y = tp <=> fp = 0 /\ fn = 0
    OBVIOUS
  <2> HIDE DEF p, r, x, y
  <2>3. sum = <<tp * y + tp * x, x * y>>
    BY <2>1 DEF Plus
  <2> HIDE DEF sum
  <2>4. tp * y \in Nat /\ tp * x \in Nat /\ x * y \in Nat /\ tp * y > 0 /\ x * y > 0
    BY <1>3, <2>1
  <2>5. sum[1] = tp * y + tp * x /\ sum[2] = x * y /\ sum[1] # 0
    BY <2>3, <2>4
  <2>6. f1 = <<2 * tp * tp * (x * y), x * y * (tp * y + tp * x)>>
    BY <2>1, <2>5
  <2> DEFINE k == x * y * tp
  <2>7. k \in Nat /\ k > 0
    BY <1>3, <2>1, <2>4
  <2>8. 2 * tp * tp * (x * y) = k * (2 * tp) /\ x * y * (tp * y + tp * x) = k * (x + y)
    BY <2>1
  <2> HIDE DEF k, f1
  <2>9. f1 = <<k * (2 * tp), k * (x + y)>>
    BY <2>6, <2>8
  <2>10. /\ 2 * tp \in Nat /\ x + y \in Nat /\ x + y > 0 /\ 2 * tp <= x + y
         /\ 2 * tp = x + y <=> x = tp /\ y = tp
    BY <2>1
  <2>11. \A m, n \in Nat : /\ k * m \in Nat /\ (m <= n => k * m <= k * n)
                           /\ (n > 0 => k * n > 0) /\ (k * m = k * n => m = n)
    BY <2>7
  <2>12. /\ k * (2 * tp) \in Nat /\ k * (x + y) \in Nat /\ k * (x + y) > 0
         /\ k * (2 * tp) <= k * (x + y)
         /\ k * (2 * tp) = k * (x + y) <=> x = tp /\ y = tp
    BY <2>10, <2>11
  <2> QED
    BY <1>1, <1>3, <2>2, <2>9, <2>12 DEF IsShare, IsOne
<1> QED
  BY <1>2, <1>3

(* The recursion behind the sum of Mean. *)
Adding(g, f, S) ==
    g = [T \in SUBSET S |-> IF T = {} THEN <<0, 1>> ELSE Plus(f[Pick(T)], g[T \ {Pick(T)}])]

LEMMA AddingExists ==
    ASSUME NEW f, NEW S, IsFiniteSet(S), \A s \in S : IsShare(f[s])
    PROVE  \E g : Adding(g, f, S)
<1> DEFINE V == Nat \X (Nat \ {0})
           H == [p \in S \X V |-> Plus(f[p[1]], p[2])]
<1>1. \A p, q \in V : Plus(p, q) \in V
  BY DEF Plus
<1>2. H \in [S \X V -> V]
  <2>1. \A s \in S : f[s] \in V
    BY DEF IsShare
  <2> HIDE DEF V
  <2> QED
    BY <1>1, <2>1
<1>3. <<0, 1>> \in V
  OBVIOUS
<1>4. PICK g : Recursion(g, S, V, <<0, 1>>, H)
  <2> HIDE DEF H, V
  <2> QED
    BY <1>2, <1>3, RecursionExists
<1> HIDE DEF V
<1>5. \A T \in SUBSET S : T # {} => Pick(T) \in S /\ g[T \ {Pick(T)}] \in V
  BY <1>4, PickIsElement DEF Recursion
<1>6. \A T \in SUBSET S :
         g[T] = IF T = {} THEN <<0, 1>> ELSE Plus(f[Pick(T)], g[T \ {Pick(T)}])
  BY <1>4, <1>5 DEF Recursion
<1> QED
  BY <1>4, <1>6 DEF Adding, Recursion

LEMMA Averaged ==
    ASSUME NEW a \in Nat, NEW b \in Nat \ {0}, a <= b, NEW A \in Nat, NEW B \in Nat \ {0},
           NEW n \in Nat, A <= n * B
    PROVE  /\ a * B + A * b \in Nat /\ b * B \in Nat \ {0}
           /\ a * B + A * b <= (n + 1) * (b * B)
           /\ a * B + A * b = (n + 1) * (b * B) <=> a = b /\ A = n * B
<1>1. a * B \in Nat /\ A * b \in Nat /\ b * B \in Nat /\ b * B > 0 /\ n * B \in Nat
  OBVIOUS
<1>2. a * B <= b * B /\ (a * B = b * B <=> a = b)
  <2>1. CASE a = b
    BY <1>1, <2>1
  <2>2. CASE a + 1 <= b
    <3>1. (a + 1) * B <= b * B /\ (a + 1) * B = a * B + B
      BY <2>2
    <3> QED
      BY <1>1, <2>2, <3>1
  <2> QED
    BY <2>1, <2>2
<1>3. A * b <= (n * B) * b /\ (A * b = (n * B) * b <=> A = n * B)
  <2>1. CASE A = n * B
    BY <1>1, <2>1
  <2>2. CASE A + 1 <= n * B
    <3> DEFINE m == n * B
    <3> HIDE DEF m
    <3>1. m \in Nat /\ A + 1 <= m
      BY <1>1, <2>2 DEF m
    <3>2. (A + 1) * b <= m * b /\ (A + 1) * b = A * b + b /\ m * b \in Nat
      BY <3>1
    <3>3. A * b < m * b
      BY <1>1, <3>2
    <3> QED
      BY <1>1, <3>1, <3>2, <3>3 DEF m
  <2> QED
    BY <1>1, <2>1, <2>2
<1>4. (n + 1) * (b * B) = (n * B) * b + b * B /\ (n * B) * b \in Nat
  OBVIOUS
<1> QED
  BY <1>1, <1>2, <1>3, <1>4

(* A mean is one exactly when there is something to average and every score *)
(* is one.                                                                  *)
LEMMA MeanIsOne ==
    ASSUME NEW values, IsFiniteSet(DOMAIN values), \A d \in DOMAIN values : IsShare(values[d])
    PROVE  IsOne(Mean(values)) <=> DOMAIN values # {} /\ \A d \in DOMAIN values : IsOne(values[d])
<1> DEFINE D == DOMAIN values
           g == CHOOSE h : Adding(h, values, D)
           sum == FoldFunction(Plus, <<0, 1>>, values)
           P == {T \in SUBSET D : /\ g[T] \in Nat \X (Nat \ {0})
                                  /\ g[T][1] <= Cardinality(T) * g[T][2]
                                  /\ g[T][1] = Cardinality(T) * g[T][2]
                                       <=> \A d \in T : IsOne(values[d])}
<1>1. Adding(g, values, D)
  <2>1. \E h : Adding(h, values, D)
    BY AddingExists
  <2> QED
    BY <2>1
<1>2. sum = g[D]
  BY DEF FoldFunction, FoldFunctionOnSet, MapThenFoldSet, Adding, Pick
<1> HIDE DEF g
<1>3. \A T \in SUBSET D :
         g[T] = IF T = {} THEN <<0, 1>> ELSE Plus(values[Pick(T)], g[T \ {Pick(T)}])
  BY <1>1, Zenon DEF Adding
<1>4. {} \in P
  <2>1. g[{}] = <<0, 1>> /\ Cardinality({}) = 0
    BY <1>3, FS_EmptySet
  <2> QED
    BY <2>1
<1>5. ASSUME NEW T \in SUBSET D, T # {}, T \ {Pick(T)} \in P PROVE T \in P
  <2> DEFINE x == Pick(T)  R == T \ {x}  n == Cardinality(R)
  <2>1. x \in T /\ x \in D
    BY <1>5, PickIsElement
  <2>2. IsFiniteSet(R) /\ n \in Nat /\ Cardinality(T) = n + 1
    <3>1. IsFiniteSet(T) /\ IsFiniteSet(R)
      BY FS_Subset
    <3>2. Cardinality(T) \in Nat /\ Cardinality(R) \in Nat
      BY <3>1, FS_CardinalityType
    <3>3. Cardinality(R) = Cardinality(T) - 1
      BY <2>1, <3>1, FS_RemoveElement
    <3> QED
      BY <3>1, <3>2, <3>3
  <2>3. g[T] = Plus(values[x], g[R])
    BY <1>3, <1>5
  <2>4. IsShare(values[x])
    BY <2>1
  <2>5. /\ g[R] \in Nat \X (Nat \ {0}) /\ g[R][1] <= n * g[R][2]
        /\ g[R][1] = n * g[R][2] <=> \A d \in R : IsOne(values[d])
    BY <1>5
  <2>6. PICK a \in Nat, b \in Nat \ {0} : values[x] = <<a, b>> /\ a <= b
    BY <2>4 DEF IsShare
  <2>7. PICK A \in Nat, B \in Nat \ {0} : g[R] = <<A, B>>
    BY <2>5
  <2>8. A <= n * B /\ (A = n * B <=> \A d \in R : IsOne(values[d]))
    BY <2>5, <2>7
  <2>9. g[T] = <<a * B + A * b, b * B>>
    BY <2>3, <2>6, <2>7 DEF Plus
  <2>10. /\ a * B + A * b \in Nat /\ b * B \in Nat \ {0}
         /\ a * B + A * b <= (n + 1) * (b * B)
         /\ a * B + A * b = (n + 1) * (b * B) <=> a = b /\ A = n * B
    BY <2>2, <2>6, <2>8, Averaged
  <2>11. IsOne(values[x]) <=> a = b
    BY <2>6 DEF IsOne
  <2>12. (\A d \in T : IsOne(values[d])) <=> IsOne(values[x]) /\ \A d \in R : IsOne(values[d])
    BY <2>1
  <2>13. Cardinality(T) * g[T][2] = (n + 1) * (b * B)
    BY <2>2, <2>9
  <2> DEFINE u == a * B + A * b  v == b * B  w == (n + 1) * (b * B)
  <2>14. g[T] = <<u, v>> /\ u \in Nat /\ v \in Nat \ {0} /\ u <= w /\ Cardinality(T) * g[T][2] = w
    BY <2>9, <2>10, <2>13
  <2>15. u = w <=> \A d \in T : IsOne(values[d])
    BY <2>8, <2>10, <2>11, <2>12
  <2> HIDE DEF n, R, x, u, v, w
  <2>16. g[T] \in Nat \X (Nat \ {0}) /\ g[T][1] = u
    BY <2>14
  <2> QED
    BY <2>14, <2>15, <2>16
<1> HIDE DEF P
<1>6. D \in P
  BY <1>4, <1>5, PickDown
<1>7. /\ sum \in Nat \X (Nat \ {0})
      /\ sum[1] = Cardinality(D) * sum[2] <=> \A d \in D : IsOne(values[d])
  BY <1>2, <1>6 DEF P
<1>8. Cardinality(D) \in Nat /\ (Cardinality(D) = 0 <=> D = {})
  BY FS_CardinalityType, FS_EmptySet
<1>9. Mean(values) = IF Cardinality(D) = 0 THEN <<0, 1>> ELSE <<sum[1], sum[2] * Cardinality(D)>>
  BY DEF Mean
<1> HIDE DEF sum, D
<1>10. sum[2] * Cardinality(D) = Cardinality(D) * sum[2]
  BY <1>7, <1>8
<1>11. IsOne(Mean(values)) <=> D # {} /\ \A d \in D : IsOne(values[d])
  <2>1. CASE D = {}
    BY <1>8, <1>9, <2>1 DEF IsOne
  <2>2. CASE D # {}
    <3>1. Mean(values) = <<sum[1], sum[2] * Cardinality(D)>>
      BY <1>8, <1>9, <2>2
    <3>2. IsOne(Mean(values)) <=> sum[1] = sum[2] * Cardinality(D)
      BY <3>1 DEF IsOne
    <3> QED
      BY <1>7, <1>10, <2>2, <3>2
  <2> QED
    BY <2>1, <2>2
<1> QED
  BY <1>11 DEF D

-----------------------------------------------------------------------------
(* A perfect report *)

Flawless(c) == TruePositives(c) > 0 /\ FalsePositives(c) = 0 /\ FalseNegatives(c) = 0
Exact       == \A i \in DOMAIN gold : predictedCategories[i] = DOMAIN gold[i]

LEMMA NoneCounted ==
    ASSUME NEW S, IsFiniteSet(S), NEW A, A \subseteq S
    PROVE  Cardinality(A) \in Nat /\ (Cardinality(A) = 0 <=> A = {})
<1>1. IsFiniteSet(A)
  BY FS_Subset
<1> QED
  BY <1>1, FS_CardinalityType, FS_EmptySet

(* Every label of the universe is counted somewhere. *)
LEMMA LabelCounts ==
    ASSUME ScoringType, NEW c \in LabelUniverse
    PROVE  /\ TruePositives(c) \in Nat /\ FalsePositives(c) \in Nat /\ FalseNegatives(c) \in Nat
           /\ TruePositives(c) > 0 \/ FalsePositives(c) > 0 \/ FalseNegatives(c) > 0
           /\ FalsePositives(c) = 0 <=>
                \A i \in DOMAIN gold : c \in predictedCategories[i] => c \in DOMAIN gold[i]
           /\ FalseNegatives(c) = 0 <=>
                \A i \in DOMAIN gold : c \in DOMAIN gold[i] => c \in predictedCategories[i]
<1> DEFINE A == {i \in DOMAIN gold : c \in DOMAIN gold[i] /\ c \in predictedCategories[i]}
           B == {i \in DOMAIN gold : c \notin DOMAIN gold[i] /\ c \in predictedCategories[i]}
           C == {i \in DOMAIN gold : c \in DOMAIN gold[i] /\ c \notin predictedCategories[i]}
<1>1. IsFiniteSet(DOMAIN gold)
  BY ItemsTyped, IndicesFinite
<1>2. A \subseteq DOMAIN gold /\ B \subseteq DOMAIN gold /\ C \subseteq DOMAIN gold
  OBVIOUS
<1>3. TruePositives(c) = Cardinality(A) /\ FalsePositives(c) = Cardinality(B) /\ FalseNegatives(c) = Cardinality(C)
  BY DEF TruePositives, FalsePositives, FalseNegatives
<1>4. \E i \in DOMAIN gold : c \in DOMAIN gold[i] \/ c \in predictedCategories[i]
  BY ItemsTyped DEF LabelUniverse
<1>5. A # {} \/ B # {} \/ C # {}
  BY <1>4
<1>6. /\ B = {} <=> \A i \in DOMAIN gold : c \in predictedCategories[i] => c \in DOMAIN gold[i]
      /\ C = {} <=> \A i \in DOMAIN gold : c \in DOMAIN gold[i] => c \in predictedCategories[i]
  OBVIOUS
<1> HIDE DEF A, B, C
<1>7. /\ Cardinality(A) \in Nat /\ (Cardinality(A) = 0 <=> A = {})
      /\ Cardinality(B) \in Nat /\ (Cardinality(B) = 0 <=> B = {})
      /\ Cardinality(C) \in Nat /\ (Cardinality(C) = 0 <=> C = {})
  BY <1>1, <1>2, NoneCounted
<1> QED
  BY <1>3, <1>5, <1>6, <1>7

LEMMA ExactIsFlawless ==
    ASSUME ScoringType PROVE Exact <=> \A c \in LabelUniverse : Flawless(c)
<1>1. ASSUME Exact, NEW c \in LabelUniverse PROVE Flawless(c)
  <2>1. FalsePositives(c) = 0 /\ FalseNegatives(c) = 0
    BY <1>1, LabelCounts DEF Exact
  <2> QED
    BY <2>1, LabelCounts DEF Flawless
<1>2. ASSUME \A c \in LabelUniverse : Flawless(c) PROVE Exact
  <2> SUFFICES ASSUME NEW i \in DOMAIN gold PROVE predictedCategories[i] = DOMAIN gold[i]
    BY DEF Exact
  <2>1. DOMAIN gold[i] \subseteq LabelUniverse /\ predictedCategories[i] \subseteq LabelUniverse
    BY UniverseFinite
  <2>2. \A c \in LabelUniverse : c \in DOMAIN gold[i] <=> c \in predictedCategories[i]
    BY <1>2, LabelCounts DEF Flawless
  <2> QED
    BY <2>1, <2>2
<1> QED
  BY <1>1, <1>2

LEMMA MacroIsOne ==
    ASSUME ScoringType
    PROVE  IsOne(Macro.f1) <=> LabelUniverse # {} /\ \A c \in LabelUniverse : Flawless(c)
<1> DEFINE f1 == [c \in LabelUniverse |-> PerCategory[c].f1]
<1>1. Macro.f1 = Mean(f1)
  BY DEF Macro
<1>2. \A c \in LabelUniverse : IsShare(f1[c]) /\ (IsOne(f1[c]) <=> Flawless(c))
  <2> TAKE c \in LabelUniverse
  <2>1. TruePositives(c) \in Nat /\ FalsePositives(c) \in Nat /\ FalseNegatives(c) \in Nat
    BY LabelCounts
  <2>2. f1[c] = Prf(TruePositives(c), FalsePositives(c), FalseNegatives(c)).f1
    BY DEF PerCategory
  <2> QED
    BY <2>1, <2>2, PrfIsShare DEF Flawless
<1>3. DOMAIN f1 = LabelUniverse /\ IsFiniteSet(DOMAIN f1)
  BY UniverseFinite
<1> HIDE DEF f1
<1>4. IsOne(Mean(f1)) <=> DOMAIN f1 # {} /\ \A c \in DOMAIN f1 : IsOne(f1[c])
  BY <1>2, <1>3, MeanIsOne
<1> QED
  BY <1>1, <1>2, <1>3, <1>4

LEMMA MicroTotals ==
    ASSUME ScoringType
    PROVE  /\ MicroTruePositives \in Nat /\ MicroFalsePositives \in Nat /\ MicroFalseNegatives \in Nat
           /\ MicroTruePositives = 0 <=> \A c \in LabelUniverse : TruePositives(c) = 0
           /\ MicroFalsePositives = 0 <=> \A c \in LabelUniverse : FalsePositives(c) = 0
           /\ MicroFalseNegatives = 0 <=> \A c \in LabelUniverse : FalseNegatives(c) = 0
<1> DEFINE U == LabelUniverse
           tp == [c \in U |-> TruePositives(c)]
           fp == [c \in U |-> FalsePositives(c)]
           fn == [c \in U |-> FalseNegatives(c)]
<1>1. IsFiniteSet(U)
  BY UniverseFinite
<1>2. \A c \in U : tp[c] \in Nat /\ fp[c] \in Nat /\ fn[c] \in Nat
  BY LabelCounts
<1>3. /\ MicroTruePositives = SumFunctionOnSet(tp, U)
      /\ MicroFalsePositives = SumFunctionOnSet(fp, U)
      /\ MicroFalseNegatives = SumFunctionOnSet(fn, U)
  <2>1. DOMAIN tp = U /\ DOMAIN fp = U /\ DOMAIN fn = U
    OBVIOUS
  <2>2. Total(tp) = SumFunctionOnSet(tp, DOMAIN tp) /\ Total(fp) = SumFunctionOnSet(fp, DOMAIN fp)
        /\ Total(fn) = SumFunctionOnSet(fn, DOMAIN fn)
    BY TotalIsSum
  <2> QED
    BY <2>1, <2>2 DEF MicroTruePositives, MicroFalsePositives, MicroFalseNegatives
<1>4. \A c \in U : tp[c] = TruePositives(c) /\ fp[c] = FalsePositives(c) /\ fn[c] = FalseNegatives(c)
  OBVIOUS
<1> HIDE DEF U, tp, fp, fn
<1>5. /\ SumFunctionOnSet(tp, U) \in Nat /\ (SumFunctionOnSet(tp, U) = 0 <=> \A c \in U : tp[c] = 0)
      /\ SumFunctionOnSet(fp, U) \in Nat /\ (SumFunctionOnSet(fp, U) = 0 <=> \A c \in U : fp[c] = 0)
      /\ SumFunctionOnSet(fn, U) \in Nat /\ (SumFunctionOnSet(fn, U) = 0 <=> \A c \in U : fn[c] = 0)
  BY <1>1, <1>2, SumOfNaturals
<1> QED
  BY <1>3, <1>4, <1>5 DEF U

LEMMA MicroIsOne ==
    ASSUME ScoringType
    PROVE  IsOne(Micro.f1) <=> LabelUniverse # {} /\ \A c \in LabelUniverse : Flawless(c)
<1> DEFINE U == LabelUniverse
<1>1. IsOne(Micro.f1) <=> MicroTruePositives > 0 /\ MicroFalsePositives = 0 /\ MicroFalseNegatives = 0
  BY MicroTotals, PrfIsShare DEF Micro
<1>2. /\ \A c \in U : TruePositives(c) \in Nat /\ FalsePositives(c) \in Nat /\ FalseNegatives(c) \in Nat
      /\ \A c \in U : TruePositives(c) > 0 \/ FalsePositives(c) > 0 \/ FalseNegatives(c) > 0
  BY LabelCounts
<1>3. MicroTruePositives > 0 <=> \E c \in U : TruePositives(c) > 0
  BY <1>2, MicroTotals
<1>4. IsOne(Micro.f1) <=> /\ \E c \in U : TruePositives(c) > 0
                          /\ \A c \in U : FalsePositives(c) = 0 /\ FalseNegatives(c) = 0
  BY <1>1, <1>3, MicroTotals
<1> QED
  BY <1>2, <1>4 DEF Flawless

(* A sum of counts is its first term exactly when the other terms are none. *)
LEMMA OnlyTerm ==
    ASSUME NEW f, NEW S, IsFiniteSet(S), \A s \in S : f[s] \in Nat, NEW x \in S
    PROVE  /\ SumFunctionOnSet(f, S) - f[x] \in Nat
           /\ SumFunctionOnSet(f, S) - f[x] = 0 <=> \A s \in S \ {x} : f[s] = 0
<1>1. IsFiniteSet(S \ {x})
  BY FS_Subset
<1>2. SumFunctionOnSet(f, S) = f[x] + SumFunctionOnSet(f, S \ {x})
  BY SumAnyElement
<1>3. /\ SumFunctionOnSet(f, S \ {x}) \in Nat
      /\ SumFunctionOnSet(f, S \ {x}) = 0 <=> \A s \in S \ {x} : f[s] = 0
  BY <1>1, SumOfNaturals
<1> QED
  BY <1>2, <1>3

LEMMA ConfusionCounts ==
    ASSUME ScoringType, NEW a \in Sentiments, NEW b \in Sentiments
    PROVE  /\ Confusion[a][b] \in Nat
           /\ Confusion[a][b] = 0 <=>
                ~ \E n \in DOMAIN goldSentiments : goldSentiments[n] = a /\ predictedSentiments[n] = b
<1> DEFINE A == {n \in DOMAIN goldSentiments : goldSentiments[n] = a /\ predictedSentiments[n] = b}
<1>1. Confusion[a][b] = Cardinality(A)
  BY DEF Confusion
<1>2. IsFiniteSet(DOMAIN goldSentiments) /\ A \subseteq DOMAIN goldSentiments
  BY IndicesFinite DEF ScoringType
<1>3. A = {} <=> ~ \E n \in DOMAIN goldSentiments : goldSentiments[n] = a /\ predictedSentiments[n] = b
  OBVIOUS
<1> HIDE DEF A
<1> QED
  BY <1>1, <1>2, <1>3, NoneCounted

(* What one sentiment's three counts say of the answers. *)
LEMMA SentimentCounts ==
    ASSUME ScoringType, NEW s \in Sentiments
    PROVE  \E tp, fp, fn \in Nat :
              /\ PerSentiment[s] = Prf(tp, fp, fn)
              /\ tp > 0 <=> \E n \in DOMAIN goldSentiments : goldSentiments[n] = s /\ predictedSentiments[n] = s
              /\ fp = 0 <=> \A n \in DOMAIN goldSentiments : predictedSentiments[n] = s => goldSentiments[n] = s
              /\ fn = 0 <=> \A n \in DOMAIN goldSentiments : goldSentiments[n] = s => predictedSentiments[n] = s
<1> DEFINE D == DOMAIN goldSentiments
           column == [a \in Sentiments |-> Confusion[a][s]]
           row == Confusion[s]
           tp == Confusion[s][s]
           fp == SumFunctionOnSet(column, Sentiments) - tp
           fn == SumFunctionOnSet(row, Sentiments) - tp
<1>1. IsFiniteSet(Sentiments)
  BY MetricsAssumption
<1>2. DOMAIN column = Sentiments /\ DOMAIN row = Sentiments
  BY DEF Confusion
<1>3. PerSentiment[s] = Prf(tp, fp, fn)
  <2>1. PerSentiment[s] = Prf(tp, Total(column) - tp, Total(row) - tp)
    BY DEF PerSentiment
  <2>2. Total(column) = SumFunctionOnSet(column, Sentiments) /\ Total(row) = SumFunctionOnSet(row, Sentiments)
    <3>1. Total(column) = SumFunctionOnSet(column, DOMAIN column) /\ Total(row) = SumFunctionOnSet(row, DOMAIN row)
      BY TotalIsSum
    <3> QED
      BY <1>2, <3>1
  <2> QED
    BY <2>1, <2>2
<1>4. \A a \in Sentiments : /\ column[a] = Confusion[a][s] /\ column[a] \in Nat
                            /\ row[a] = Confusion[s][a] /\ row[a] \in Nat
  BY ConfusionCounts
<1>5. column[s] = tp /\ row[s] = tp /\ tp \in Nat
  BY <1>4
<1>6. \A n \in D : goldSentiments[n] \in Sentiments /\ predictedSentiments[n] \in Sentiments
  BY DEF ScoringType
<1> HIDE DEF column, row
<1>7. fp \in Nat /\ (fp = 0 <=> \A a \in Sentiments \ {s} : column[a] = 0)
  BY <1>1, <1>4, <1>5, OnlyTerm
<1>8. fn \in Nat /\ (fn = 0 <=> \A a \in Sentiments \ {s} : row[a] = 0)
  BY <1>1, <1>4, <1>5, OnlyTerm
<1> HIDE DEF fp, fn
<1>9. fp = 0 <=> \A n \in D : predictedSentiments[n] = s => goldSentiments[n] = s
  <2>1. fp = 0 <=> \A a \in Sentiments \ {s} : ~ \E n \in D : goldSentiments[n] = a /\ predictedSentiments[n] = s
    BY <1>4, <1>7, ConfusionCounts
  <2> QED
    BY <1>6, <2>1
<1>10. fn = 0 <=> \A n \in D : goldSentiments[n] = s => predictedSentiments[n] = s
  <2>1. fn = 0 <=> \A a \in Sentiments \ {s} : ~ \E n \in D : goldSentiments[n] = s /\ predictedSentiments[n] = a
    BY <1>4, <1>8, ConfusionCounts
  <2> QED
    BY <1>6, <2>1
<1>11. tp > 0 <=> \E n \in D : goldSentiments[n] = s /\ predictedSentiments[n] = s
  BY <1>5, ConfusionCounts
<1> QED
  BY <1>3, <1>5, <1>7, <1>8, <1>9, <1>10, <1>11

AllAgree == \A n \in DOMAIN goldSentiments : goldSentiments[n] = predictedSentiments[n]

LEMMA SentimentMacroIsOne ==
    ASSUME ScoringType, goldSentiments # <<>>
    PROVE  IsOne(SentimentMacroF1) <=> AllAgree
<1> DEFINE D == DOMAIN goldSentiments
           observed == {s \in Sentiments : PerSentiment[s].support > 0}
           f1 == [s \in observed |-> PerSentiment[s].f1]
<1>1. SentimentMacroF1 = Mean(f1) /\ DOMAIN f1 = observed
  BY DEF SentimentMacroF1
<1>2. \A n \in D : goldSentiments[n] \in Sentiments /\ predictedSentiments[n] \in Sentiments
  BY DEF ScoringType
<1>3. \A s \in Sentiments : s \in observed <=> \E n \in D : goldSentiments[n] = s
  <2> TAKE s \in Sentiments
  <2>1. PICK tp \in Nat, fp \in Nat, fn \in Nat :
              /\ PerSentiment[s] = Prf(tp, fp, fn)
              /\ tp > 0 <=> \E n \in D : goldSentiments[n] = s /\ predictedSentiments[n] = s
              /\ fn = 0 <=> \A n \in D : goldSentiments[n] = s => predictedSentiments[n] = s
    BY SentimentCounts
  <2>2. PerSentiment[s].support = tp + fn
    BY <2>1 DEF Prf
  <2>3. s \in observed <=> tp > 0 \/ fn # 0
    BY <2>2
  <2> QED
    BY <2>1, <2>3
<1>4. \A s \in observed : /\ IsShare(f1[s])
                          /\ IsOne(f1[s]) <=> \A n \in D : goldSentiments[n] = s <=> predictedSentiments[n] = s
  <2> TAKE s \in observed
  <2>1. PICK tp \in Nat, fp \in Nat, fn \in Nat :
              /\ PerSentiment[s] = Prf(tp, fp, fn)
              /\ tp > 0 <=> \E n \in D : goldSentiments[n] = s /\ predictedSentiments[n] = s
              /\ fp = 0 <=> \A n \in D : predictedSentiments[n] = s => goldSentiments[n] = s
              /\ fn = 0 <=> \A n \in D : goldSentiments[n] = s => predictedSentiments[n] = s
    BY SentimentCounts
  <2>2. f1[s] = Prf(tp, fp, fn).f1
    BY <2>1
  <2>3. IsShare(f1[s]) /\ (IsOne(f1[s]) <=> tp > 0 /\ fp = 0 /\ fn = 0)
    BY <2>2, PrfIsShare
  <2>4. \E n \in D : goldSentiments[n] = s
    BY <1>3
  <2> QED
    BY <2>1, <2>3, <2>4
<1>5. IsFiniteSet(observed)
  BY MetricsAssumption, FS_Subset
<1>6. observed # {}
  <2>1. 1 \in D
    BY DEF ScoringType
  <2> QED
    BY <1>2, <1>3, <2>1
<1>7. observed \subseteq Sentiments
  OBVIOUS
<1> HIDE DEF f1, observed
<1>8. IsOne(Mean(f1)) <=> \A s \in observed : IsOne(f1[s])
  BY <1>1, <1>4, <1>5, <1>6, MeanIsOne
<1>9. IsOne(Mean(f1)) <=> \A s \in observed : \A n \in D : goldSentiments[n] = s <=> predictedSentiments[n] = s
  BY <1>4, <1>8
<1> QED
  BY <1>1, <1>2, <1>3, <1>7, <1>9 DEF AllAgree

LEMMA AllHit ==
    ASSUME NEW s \in Seq(BOOLEAN)
    PROVE  Hits(s) \in Nat /\ (Hits(s) = Len(s) <=> \A n \in DOMAIN s : s[n])
<1> DEFINE A == {n \in DOMAIN s : s[n]}
<1>1. DOMAIN s = 1 .. Len(s) /\ Len(s) \in Nat
  OBVIOUS
<1>2. IsFiniteSet(1 .. Len(s)) /\ Cardinality(1 .. Len(s)) = Len(s)
  BY <1>1, IndicesFinite
<1>3. A \subseteq 1 .. Len(s) /\ (A = 1 .. Len(s) <=> \A n \in DOMAIN s : s[n])
  BY <1>1
<1>4. Hits(s) = Cardinality(A)
  BY DEF Hits
<1> HIDE DEF A
<1>5. Cardinality(A) = Cardinality(1 .. Len(s)) <=> A = 1 .. Len(s)
  BY <1>2, <1>3, FS_Subset
<1> QED
  BY <1>2, <1>3, <1>4, <1>5, HitsFinite

LEMMA AccuracyIsOne ==
    ASSUME ScoringInv
    PROVE  IsOne(SentimentAccuracy) <=> goldSentiments # <<>> /\ AllAgree
<1>1. Agreement \in Seq(BOOLEAN) /\ Len(Agreement) = Len(goldSentiments)
  <2>1. DOMAIN goldSentiments = 1 .. Len(goldSentiments) /\ Len(goldSentiments) \in Nat
    BY DEF ScoringInv, ScoringType
  <2>2. Agreement \in [1 .. Len(goldSentiments) -> BOOLEAN]
    BY <2>1, Zenon DEF Agreement
  <2> QED
    BY <2>1, <2>2
<1>2. DOMAIN Agreement = DOMAIN goldSentiments
      /\ \A n \in DOMAIN goldSentiments : Agreement[n] <=> goldSentiments[n] = predictedSentiments[n]
  BY Zenon DEF Agreement
<1>3. Diagonal = Hits(Agreement)
  BY CorrectIsDiagonal
<1>4. Diagonal = Len(goldSentiments) <=> AllAgree
  BY <1>1, <1>2, <1>3, AllHit DEF AllAgree
<1>5. Len(goldSentiments) \in Nat /\ (Len(goldSentiments) = 0 <=> goldSentiments = <<>>)
  BY DEF ScoringInv, ScoringType
<1> QED
  BY <1>4, <1>5 DEF SentimentAccuracy, Ratio, IsOne

LEMMA NothingSquared ==
    ASSUME ScoringType
    PROVE  /\ SquaredError \in Nat
           /\ SquaredError = 0 <=>
                \A n \in DOMAIN confidences : confidences[n] = IF correct[n] THEN Resolution ELSE 0
<1> DEFINE D == DOMAIN confidences
           miss == [n \in D |-> confidences[n] - (IF correct[n] THEN Resolution ELSE 0)]
           square == [n \in D |-> LET m == confidences[n] - (IF correct[n] THEN Resolution ELSE 0)
                                  IN  m * m]
<1>1. SquaredError = SumFunctionOnSet(square, D)
  <2>1. SquaredError = Total(square) /\ DOMAIN square = D
    BY DEF SquaredError
  <2>2. Total(square) = SumFunctionOnSet(square, DOMAIN square)
    BY TotalIsSum
  <2> QED
    BY <2>1, <2>2
<1>2. \A n \in D : miss[n] \in Int /\ square[n] = miss[n] * miss[n]
  BY PredictionsTyped, MetricsAssumption
<1>3. \A i \in Int : i * i \in Nat /\ (i * i = 0 <=> i = 0)
  OBVIOUS
<1>4. \A n \in D : confidences[n] \in Nat /\ Resolution \in Nat
  BY PredictionsTyped, MetricsAssumption
<1>5. \A n \in D : miss[n] = 0 <=> confidences[n] = IF correct[n] THEN Resolution ELSE 0
  BY <1>4
<1>6. IsFiniteSet(D)
  BY PredictionsTyped
<1> HIDE DEF miss, square, D
<1>7. \A n \in D : square[n] \in Nat /\ (square[n] = 0 <=> miss[n] = 0)
  BY <1>2, <1>3
<1>8. /\ SumFunctionOnSet(square, D) \in Nat
      /\ SumFunctionOnSet(square, D) = 0 <=> \A n \in D : square[n] = 0
  BY <1>6, <1>7, SumOfNaturals
<1> QED
  BY <1>1, <1>5, <1>7, <1>8 DEF D

(* When the categories are exact, every prediction is a hit, so that the    *)
(* other two families judge the same predictions.                           *)
LEMMA ExactJudgesAll ==
    ASSUME ScoringInv, LabelUniverse # {}, Exact
    PROVE  /\ Len(confidences) = Len(goldSentiments) /\ Len(goldSentiments) \in Nat \ {0}
           /\ AllAgree <=> \A n \in DOMAIN confidences : correct[n]
<1>1. ScoringType
  BY DEF ScoringInv
<1>2. \A c \in LabelUniverse : Flawless(c)
  BY <1>1, ExactIsFlawless
<1>3. MicroFalsePositives = 0 /\ MicroTruePositives \in Nat \ {0}
  BY <1>1, <1>2, MicroTotals, LabelCounts DEF Flawless
<1>4. Len(goldSentiments) = MicroTruePositives /\ Len(confidences) = MicroTruePositives + MicroFalsePositives
  BY FamiliesFollow DEF FamiliesAgree
<1>5. Len(confidences) = Len(goldSentiments) /\ Len(goldSentiments) \in Nat \ {0}
  BY <1>3, <1>4
<1>6. goldSentiments # <<>>
  BY <1>5
<1>7. AllAgree <=> Hits(Agreement) = Len(goldSentiments)
  <2>1. SentimentAccuracy = <<Hits(Agreement), Len(goldSentiments)>>
    BY <1>5, CorrectIsDiagonal DEF SentimentAccuracy, Ratio
  <2> QED
    BY <1>6, <2>1, AccuracyIsOne DEF IsOne
<1>8. Hits(correct) = Hits(Agreement) /\ Len(correct) = Len(confidences) /\ correct \in Seq(BOOLEAN)
      /\ DOMAIN correct = DOMAIN confidences
  BY <1>1, PredictionsTyped DEF ScoringInv, ScoringType
<1>9. Hits(correct) = Len(correct) <=> \A n \in DOMAIN correct : correct[n]
  BY <1>8, AllHit
<1> QED
  BY <1>5, <1>7, <1>8, <1>9

LEMMA PerfectFollows == ScoringInv => PerfectMeansPerfect
<1> SUFFICES ASSUME ScoringInv PROVE PerfectMeansPerfect
  OBVIOUS
<1>1. ScoringType
  BY DEF ScoringInv
<1> DEFINE Best == LabelUniverse # {} /\ Exact
           Sure == \A n \in DOMAIN confidences : correct[n] /\ confidences[n] = Resolution
<1>2. (IsOne(Macro.f1) <=> Best) /\ (IsOne(Micro.f1) <=> Best)
  BY <1>1, MacroIsOne, MicroIsOne, ExactIsFlawless
<1>3. goldSentiments # <<>> => (IsOne(SentimentAccuracy) <=> IsOne(SentimentMacroF1))
  BY <1>1, SentimentMacroIsOne, AccuracyIsOne
<1>4. ASSUME Best PROVE IsOne(SentimentAccuracy) /\ BrierScore[1] = 0 <=> Sure
  <2>1. /\ Len(confidences) \in Nat \ {0} /\ goldSentiments # <<>>
        /\ AllAgree <=> \A n \in DOMAIN confidences : correct[n]
    BY <1>4, ExactJudgesAll
  <2>2. IsOne(SentimentAccuracy) <=> \A n \in DOMAIN confidences : correct[n]
    BY <2>1, AccuracyIsOne
  <2>3. Resolution * Resolution * Len(confidences) # 0
    <3>1. Resolution \in Nat \ {0}
      BY MetricsAssumption
    <3>2. \A a, b \in Nat \ {0} : a * b \in Nat \ {0}
      OBVIOUS
    <3>3. Resolution * Resolution \in Nat \ {0}
      BY <3>1, <3>2
    <3> QED
      BY <2>1, <3>2, <3>3
  <2>4. BrierScore[1] = SquaredError
    BY <2>3 DEF BrierScore, Ratio
  <2>5. BrierScore[1] = 0 <=>
          \A n \in DOMAIN confidences : confidences[n] = IF correct[n] THEN Resolution ELSE 0
    BY <1>1, <2>4, NothingSquared
  <2> QED
    BY <2>2, <2>5
<1>5. IsOne(Macro.f1) /\ IsOne(SentimentAccuracy) /\ BrierScore[1] = 0 <=> Best /\ Sure
  BY <1>2, <1>4
<1> QED
  BY <1>2, <1>3, <1>5 DEF PerfectMeansPerfect, Exact

(* A report is perfect in every family exactly when every item was answered *)
(* with its gold labels, their sentiments and full confidence, whatever the *)
(* benchmark, the bucket count and the confidence scale.                    *)
THEOREM PerfectIsPerfect == ScoringSpec => []PerfectMeansPerfect
<1>1. ScoringInv => PerfectMeansPerfect
  BY PerfectFollows
<1> QED
  BY <1>1, ScoringInvariant, PTL
=============================================================================
