------------------------- MODULE EvaluationMetrics -------------------------
(***************************************************************************)
(* The scoring pass of an evaluation (ai/evaluation/runner.py) and the     *)
(* three metric families computed from what it collected                   *)
(* (ai/evaluation/metrics).  One step of the specification is one turn of  *)
(* run_evaluation's loop: the benchmark item is read, the predictor        *)
(* answers, its answer is validated and five lists grow.  The metrics are  *)
(* operators over those lists, in exact rational arithmetic: a confidence  *)
(* is a number of parts of Resolution, a rational a pair <<num, den>>.     *)
(*                                                                         *)
(* A benchmark is read item by item, so every non-empty prefix of the walk *)
(* is a benchmark of its own, and the properties are stated for each.      *)
(***************************************************************************)
EXTENDS Integers, Sequences, FiniteSets, SequencesExt

CONSTANTS
    Categories, Sentiments,
    Resolution, Confidences,  \* the confidences predicted, as parts of Resolution
    BucketCount,              \* bucket_count of calibration_metrics
    MaxItems, MaxAspects      \* bounds on the benchmark and on one prediction

ASSUME MetricsAssumption ==
    /\ IsFiniteSet(Categories) /\ IsFiniteSet(Sentiments)
    /\ Resolution \in Nat \ {0} /\ Confidences \subseteq 0 .. Resolution
    /\ BucketCount \in Nat \ {0} /\ MaxItems \in Nat /\ MaxAspects \in Nat

VARIABLES
    gold,                                \* the items read: category -> sentiment
    predictedCategories,                 \* the five lists of run_evaluation
    goldSentiments, predictedSentiments,
    confidences, correct,
    rejected                             \* the pass ended in a ValueError

collected == <<predictedCategories, goldSentiments, predictedSentiments, confidences, correct>>
metricVars == <<gold, collected, rejected>>

GoldLabels == UNION {[C -> Sentiments] : C \in SUBSET Categories}
PredictedAspect == [category : Categories, sentiment : Sentiments, confidence : Confidences]
Predictions == UNION {kSubset(k, PredictedAspect) : k \in 0 .. MaxAspects}

-----------------------------------------------------------------------------
(* The pass *)

ScoringInit ==
    /\ gold = <<>> /\ predictedCategories = <<>>
    /\ goldSentiments = <<>> /\ predictedSentiments = <<>>
    /\ confidences = <<>> /\ correct = <<>>
    /\ rejected = FALSE

Validated__any(aspects) == TRUE

(* Two aspects of one category have no place in the metrics; sentiments and *)
(* confidences outside their ranges are refused likewise.                   *)
Validated(aspects) == \A a, b \in aspects : a.category = b.category => a = b

(* One item: the order of the aspects is the predictor's. *)
ScoreItem(g, aspects) ==
    LET predicted(c) == CHOOSE a \in aspects : a.category = c
        named  == {a.category : a \in aspects}
        listed == SetToSeq(aspects)
        shared == SetToSeq(named \cap DOMAIN g)
    IN  /\ ~rejected /\ Len(gold) < MaxItems
        /\ Validated(aspects)
        /\ gold' = Append(gold, g)
        /\ predictedCategories' = Append(predictedCategories, named)
        /\ goldSentiments' = goldSentiments \o [n \in DOMAIN shared |-> g[shared[n]]]
        /\ predictedSentiments' = predictedSentiments \o
               [n \in DOMAIN shared |-> predicted(shared[n]).sentiment]
        /\ confidences' = confidences \o [n \in DOMAIN listed |-> listed[n].confidence]
        /\ correct' = correct \o
               [n \in DOMAIN listed |-> /\ listed[n].category \in DOMAIN g
                                        /\ g[listed[n].category] = listed[n].sentiment]
        /\ UNCHANGED rejected

(* An invalid answer raises out of run_evaluation: there is no result. *)
RejectItem(aspects) ==
    /\ ~rejected /\ Len(gold) < MaxItems
    /\ ~Validated(aspects)
    /\ rejected' = TRUE
    /\ UNCHANGED <<gold, collected>>

ScoringNext ==
    \E aspects \in Predictions :
        \/ \E g \in GoldLabels : ScoreItem(g, aspects)
        \/ RejectItem(aspects)

ScoringSpec == ScoringInit /\ [][ScoringNext]_metricVars

-----------------------------------------------------------------------------
(* scores.py *)

Ratio(n, d) == IF d = 0 THEN <<0, 1>> ELSE <<n, d>>
Plus(p, q)  == <<p[1] * q[2] + q[1] * p[2], p[2] * q[2]>>
IsOne(p)    == p[1] = p[2]
Total(f)    == FoldFunction(+, 0, f)

(* f1 is 2pr / (p + r), or 0.0 when both are. *)
Prf(tp, fp, fn) ==
    LET p == Ratio(tp, tp + fp)
        r == Ratio(tp, tp + fn)
        sum == Plus(p, r)
    IN  [precision |-> p, recall |-> r, support |-> tp + fn,
         f1 |-> IF sum[1] = 0 THEN <<0, 1>>
                ELSE <<2 * p[1] * r[1] * sum[2], p[2] * r[2] * sum[1]>>]

Mean(values) ==
    LET sum == FoldFunction(Plus, <<0, 1>>, values)
        count == Cardinality(DOMAIN values)
    IN  IF count = 0 THEN <<0, 1>> ELSE <<sum[1], sum[2] * count>>

-----------------------------------------------------------------------------
(* classification.py: predictions are label sets, compared item by item.   *)

LabelUniverse__gold_only == UNION {DOMAIN gold[i] : i \in DOMAIN gold}

(* Whatever appears in gold or predicted. *)
LabelUniverse ==
    (UNION {DOMAIN gold[i] : i \in DOMAIN gold})
        \cup (UNION {predictedCategories[i] : i \in DOMAIN predictedCategories})

TruePositives(c)  ==
    Cardinality({i \in DOMAIN gold : c \in DOMAIN gold[i] /\ c \in predictedCategories[i]})
FalsePositives(c) ==
    Cardinality({i \in DOMAIN gold : c \notin DOMAIN gold[i] /\ c \in predictedCategories[i]})
FalseNegatives(c) ==
    Cardinality({i \in DOMAIN gold : c \in DOMAIN gold[i] /\ c \notin predictedCategories[i]})

PerCategory ==
    [c \in LabelUniverse |-> Prf(TruePositives(c), FalsePositives(c), FalseNegatives(c))]

MicroTruePositives  == Total([c \in LabelUniverse |-> TruePositives(c)])
MicroFalsePositives == Total([c \in LabelUniverse |-> FalsePositives(c)])
MicroFalseNegatives == Total([c \in LabelUniverse |-> FalseNegatives(c)])

Micro == Prf(MicroTruePositives, MicroFalsePositives, MicroFalseNegatives)

Macro ==
    [precision |-> Mean([c \in LabelUniverse |-> PerCategory[c].precision]),
     recall |-> Mean([c \in LabelUniverse |-> PerCategory[c].recall]),
     f1 |-> Mean([c \in LabelUniverse |-> PerCategory[c].f1]),
     support |-> Micro.support]

-----------------------------------------------------------------------------
(* sentiment.py: single-label, over the categories both sides named.       *)

Confusion ==
    [actual \in Sentiments |-> [answer \in Sentiments |->
        Cardinality({n \in DOMAIN goldSentiments :
            goldSentiments[n] = actual /\ predictedSentiments[n] = answer})]]

PerSentiment ==
    [s \in Sentiments |->
        LET tp == Confusion[s][s]
        IN  Prf(tp, Total([a \in Sentiments |-> Confusion[a][s]]) - tp,
                Total(Confusion[s]) - tp)]

Diagonal == Total([s \in Sentiments |-> Confusion[s][s]])

SentimentAccuracy == Ratio(Diagonal, Len(goldSentiments))

(* Averaged over the sentiments the benchmark contains. *)
SentimentMacroF1 ==
    LET observed == {s \in Sentiments : PerSentiment[s].support > 0}
    IN  Mean([s \in observed |-> PerSentiment[s].f1])

-----------------------------------------------------------------------------
(* calibration.py: one entry per predicted aspect.                         *)

Buckets == 0 .. BucketCount - 1

(* Is k / BucketCount at most the confidence c / Resolution? *)
EdgeAtMost(k, c)  == k * Resolution <= c * BucketCount
EdgeAtLeast(k, c) == k * Resolution >= c * BucketCount

BucketOf__bisect_left(c) ==
    LET index == Cardinality({k \in 0 .. BucketCount : ~EdgeAtLeast(k, c)}) - 1
    IN  IF index < BucketCount - 1 THEN index ELSE BucketCount - 1

(* min(bisect_right(edges, confidence) - 1, bucket_count - 1) *)
BucketOf(c) ==
    LET index == Cardinality({k \in 0 .. BucketCount : EdgeAtMost(k, c)}) - 1
    IN  IF index < BucketCount - 1 THEN index ELSE BucketCount - 1

InBucket(b) == {n \in DOMAIN confidences : BucketOf(confidences[n]) = b}

CorrectIn(b)    == Cardinality({n \in InBucket(b) : correct[n]})
ConfidenceIn(b) == Total([n \in InBucket(b) |-> confidences[n]])

SquaredError__confidence_only ==
    Total([n \in DOMAIN confidences |-> confidences[n] * confidences[n]])

(* In units of 1 / Resolution^2. *)
SquaredError ==
    Total([n \in DOMAIN confidences |->
        LET miss == confidences[n] - (IF correct[n] THEN Resolution ELSE 0) IN miss * miss])

BrierScore == Ratio(SquaredError, Resolution * Resolution * Len(confidences))

(* |accuracy - mean confidence| of a bucket weighs count / total, so the    *)
(* counts cancel, and an empty bucket adds nothing.                         *)
Gap(b) ==
    LET d == CorrectIn(b) * Resolution - ConfidenceIn(b) IN IF d < 0 THEN -d ELSE d

ExpectedCalibrationError ==
    Ratio(Total([b \in Buckets |-> Gap(b)]), Resolution * Len(confidences))

-----------------------------------------------------------------------------
(* Properties *)

(* The three families, computed from different lists by different code,     *)
(* describe one set of predictions: sentiment scores exactly the category   *)
(* hits, calibration every predicted label, and the predictions that count  *)
(* as calibrated-correct are the diagonal of the confusion matrix (module   *)
(* docstring of runner.py; the counts an operator compares across families).*)
FamiliesAgree ==
    /\ Len(goldSentiments) = MicroTruePositives
    /\ Len(confidences) = MicroTruePositives + MicroFalsePositives
    /\ Total([b \in Buckets |-> CorrectIn(b)]) = Diagonal
    /\ Micro.support = Total([i \in DOMAIN gold |-> Cardinality(DOMAIN gold[i])])

(* The reliability buckets partition the predictions as their docstring     *)
(* says: lower inclusive, upper exclusive, the last upper inclusive, so     *)
(* that an edge and 1.0 have one home and no prediction is dropped          *)
(* (ReliabilityBucket, calibration_metrics).                                *)
BucketsPartition ==
    /\ \A n \in DOMAIN confidences : BucketOf(confidences[n]) \in Buckets
    /\ \A b \in Buckets : InBucket(b) =
         {n \in DOMAIN confidences :
             /\ b * Resolution <= confidences[n] * BucketCount
             /\ \/ confidences[n] * BucketCount < (b + 1) * Resolution
                \/ b = BucketCount - 1}

(* The calibration error never exceeds the root of the Brier score, though  *)
(* one is accumulated per bucket and the other per prediction: a report in  *)
(* which it does is wrong (calibration_metrics).                            *)
CalibrationErrorBounded ==
    LET e == ExpectedCalibrationError
        q == BrierScore
    IN  confidences # <<>> => e[1] * e[1] * q[2] <= q[1] * e[2] * e[2]

(* A report is perfect in all families exactly when the predictor named     *)
(* every gold label and nothing else, with the right sentiment and full     *)
(* confidence: an invented category and a missed one both cost something    *)
(* ("scored and penalised rather than silently dropped").                   *)
PerfectMeansPerfect ==
    /\ IsOne(Macro.f1) <=> /\ LabelUniverse # {}
                           /\ \A i \in DOMAIN gold : predictedCategories[i] = DOMAIN gold[i]
    /\ IsOne(Macro.f1) <=> IsOne(Micro.f1)
    /\ goldSentiments # <<>> => (IsOne(SentimentAccuracy) <=> IsOne(SentimentMacroF1))
    /\ IsOne(Macro.f1) /\ IsOne(SentimentAccuracy) /\ BrierScore[1] = 0
         <=> /\ LabelUniverse # {}
             /\ \A i \in DOMAIN gold : predictedCategories[i] = DOMAIN gold[i]
             /\ \A n \in DOMAIN confidences : correct[n] /\ confidences[n] = Resolution

-----------------------------------------------------------------------------
(* Why they hold: each turn of the loop adds as much to one family as to    *)
(* the others.                                                              *)

ScoringType ==
    /\ gold \in Seq(GoldLabels) /\ predictedCategories \in Seq(SUBSET Categories)
    /\ goldSentiments \in Seq(Sentiments) /\ predictedSentiments \in Seq(Sentiments)
    /\ confidences \in Seq(Confidences) /\ correct \in Seq(BOOLEAN)
    /\ Len(predictedCategories) = Len(gold)
    /\ Len(predictedSentiments) = Len(goldSentiments)
    /\ Len(correct) = Len(confidences)

Shared(i) == DOMAIN gold[i] \cap predictedCategories[i]
Agreement == [n \in DOMAIN goldSentiments |-> goldSentiments[n] = predictedSentiments[n]]
Hits(s)   == Cardinality({n \in DOMAIN s : s[n]})

ScoringInv ==
    /\ ScoringType
    /\ Len(goldSentiments) = Total([i \in DOMAIN gold |-> Cardinality(Shared(i))])
    /\ Len(confidences) = Total([i \in DOMAIN gold |-> Cardinality(predictedCategories[i])])
    /\ Hits(correct) = Hits(Agreement)
=============================================================================
