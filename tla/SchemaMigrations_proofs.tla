---------------------- MODULE SchemaMigrations_proofs -----------------------
(***************************************************************************)
(* The migrations hold whatever rows are stored between them: for every    *)
(* set DataTables that receives rows, every script applies, undoes what    *)
(* its opposite did, and ends in the schema of its revision.               *)
(*                                                                         *)
(* A script is run statement by statement: Trace turns the databases it    *)
(* goes through into its outcome, and one lemma per statement says when    *)
(* it is accepted and what it leaves.  The schemas themselves are fixed    *)
(* data, compared field by field.  MigrationInv carries what the rows owe  *)
(* to the program: a filled reference has its row, at every revision.      *)
(***************************************************************************)
EXTENDS SchemaMigrations, FiniteSums

(* g is the recursive function of Outcomes. *)
Running(g, d, script) ==
    g = [n \in 0 .. Len(script) |-> IF n = 0 THEN {d} ELSE Run(g[n - 1], script[n])]

(* Every statement of the script is accepted and takes e[i] to e[i + 1]. *)
Traces(e, script) ==
    \A i \in 1 .. Len(script) : Accepts(e[i], script[i]) /\ e[i + 1] = Effect(e[i], script[i])

LEMMA RunOne ==
    ASSUME NEW d, NEW s, Accepts(d, s)
    PROVE  Run({d}, s) = {Effect(d, s)}
  BY DEF Run

(* A script has the outcome of its trace, and no other. *)
LEMMA Trace ==
    ASSUME NEW script, Len(script) \in Nat, NEW e, Traces(e, script)
    PROVE  Outcomes(e[1], script) = {e[Len(script) + 1]}
<1> DEFINE w == [n \in 0 .. Len(script) |-> {e[n + 1]}]
           g == CHOOSE h : Running(h, e[1], script)
<1>1. Running(w, e[1], script)
  <2> SUFFICES ASSUME NEW n \in 0 .. Len(script)
               PROVE  w[n] = IF n = 0 THEN {e[1]} ELSE Run(w[n - 1], script[n])
    BY DEF Running
  <2>1. CASE n = 0
    BY <2>1
  <2>2. CASE n # 0
    <3>1. n \in 1 .. Len(script) /\ n - 1 \in 0 .. Len(script) /\ (n - 1) + 1 = n
      BY <2>2
    <3>2. w[n - 1] = {e[n]} /\ w[n] = {e[n + 1]}
      BY <3>1
    <3>3. Run({e[n]}, script[n]) = {e[n + 1]}
      BY <3>1, RunOne DEF Traces
    <3> QED
      BY <2>2, <3>2, <3>3
  <2> QED
    BY <2>1, <2>2
<1>2. Running(g, e[1], script)
  <2> HIDE DEF w
  <2> QED
    BY <1>1, Zenon
<1>3. Outcomes(e[1], script) = g[Len(script)]
  BY DEF Outcomes, Running
<1> DEFINE P == {n \in Nat : n <= Len(script) => g[n] = {e[n + 1]}}
<1> HIDE DEF g
<1>4. 0 \in P
  BY <1>2 DEF Running
<1>5. ASSUME NEW n \in Nat, n \in P PROVE n + 1 \in P
  <2> SUFFICES ASSUME n + 1 <= Len(script) PROVE g[n + 1] = {e[n + 2]}
    OBVIOUS
  <2>1. g[n] = {e[n + 1]} /\ n + 1 \in 1 .. Len(script)
    BY <1>5
  <2>2. g[n + 1] = Run({e[n + 1]}, script[n + 1])
    <3>1. n + 1 \in 0 .. Len(script) /\ n + 1 # 0 /\ (n + 1) - 1 = n
      BY <2>1
    <3>2. g[n + 1] = Run(g[(n + 1) - 1], script[n + 1])
      BY <1>2, <3>1 DEF Running
    <3> QED
      BY <2>1, <3>1, <3>2
  <2>3. Accepts(e[n + 1], script[n + 1]) /\ e[n + 2] = Effect(e[n + 1], script[n + 1])
    BY <2>1 DEF Traces
  <2> QED
    BY <2>2, <2>3, RunOne
<1> HIDE DEF P
<1>6. Nat \subseteq P
  BY <1>4, <1>5, CountUp
<1> QED
  <2>1. Len(script) \in P
    BY <1>6
  <2> QED
    BY <1>3, <2>1 DEF P

LEMMA Trace1 ==
    ASSUME NEW d0, NEW d1, NEW s1, Accepts(d0, s1), Effect(d0, s1) = d1
    PROVE  Outcomes(d0, <<s1>>) = {d1}
<1> DEFINE e == <<d0, d1>>
           script == <<s1>>
<1>1. Traces(e, script)
  BY DEF Traces
<1>2. Len(script) \in Nat /\ Len(script) = 1 /\ e[1] = d0 /\ e[2] = d1
  OBVIOUS
<1> HIDE DEF e, script
<1>3. Outcomes(e[1], script) = {e[Len(script) + 1]}
  BY <1>1, <1>2, Trace, Zenon
<1>4. Outcomes(d0, script) = {d1}
  BY <1>2, <1>3
<1> QED
  BY <1>4 DEF script

LEMMA Trace2 ==
    ASSUME NEW d0, NEW d1, NEW d2, NEW s1, NEW s2,
           Accepts(d0, s1), Effect(d0, s1) = d1, Accepts(d1, s2), Effect(d1, s2) = d2
    PROVE  Outcomes(d0, <<s1, s2>>) = {d2}
<1> DEFINE e == <<d0, d1, d2>>
           script == <<s1, s2>>
<1>1. Traces(e, script)
  BY DEF Traces
<1>2. Len(script) \in Nat /\ Len(script) = 2 /\ e[1] = d0 /\ e[3] = d2
  OBVIOUS
<1> HIDE DEF e, script
<1>3. Outcomes(e[1], script) = {e[Len(script) + 1]}
  BY <1>1, <1>2, Trace, Zenon
<1>4. Outcomes(d0, script) = {d2}
  BY <1>2, <1>3
<1> QED
  BY <1>4 DEF script

LEMMA Trace3 ==
    ASSUME NEW d0, NEW d1, NEW d2, NEW d3, NEW s1, NEW s2, NEW s3,
           Accepts(d0, s1), Effect(d0, s1) = d1, Accepts(d1, s2), Effect(d1, s2) = d2,
           Accepts(d2, s3), Effect(d2, s3) = d3
    PROVE  Outcomes(d0, <<s1, s2, s3>>) = {d3}
<1> DEFINE e == <<d0, d1, d2, d3>>
           script == <<s1, s2, s3>>
<1>1. Traces(e, script)
  BY DEF Traces
<1>2. Len(script) \in Nat /\ Len(script) = 3 /\ e[1] = d0 /\ e[4] = d3
  OBVIOUS
<1> HIDE DEF e, script
<1>3. Outcomes(e[1], script) = {e[Len(script) + 1]}
  BY <1>1, <1>2, Trace, Zenon
<1>4. Outcomes(d0, script) = {d3}
  BY <1>2, <1>3
<1> QED
  BY <1>4 DEF script

-----------------------------------------------------------------------------
(* What one statement does to a database. *)

(* Unreferenced: no other table has a key on t. *)
Db(S, R, F) == [schema |-> S, rows |-> R, filled |-> F]

Created(S, t, def) == [u \in DOMAIN S \cup {t} |-> IF u = t THEN Compiled(def) ELSE S[u]]
Dropped(S, t)      == [u \in DOMAIN S \ {t} |-> S[u]]
Unreferenced(S, t) == \A u \in DOMAIN S \ {t} : \A k \in S[u].keys : k.parent # t
Without(F, t)      == {c \in F : c[1] # t}
Emptied(F, t, c)   == F \ {<<t, c>>}
Put(S, t, def)     == [S EXCEPT ![t] = def]

LEMMA CreateTableStep ==
    ASSUME NEW S, NEW R, NEW F, NEW t, NEW def, t \notin DOMAIN S,
           \A k \in def.keys : k.useAlter \/ k.parent \in DOMAIN S \cup {t}
    PROVE  /\ Accepts(Db(S, R, F), CreateTable(t, def))
           /\ Effect(Db(S, R, F), CreateTable(t, def)) =
                Db(Created(S, t, def), R, F)
  BY DEF Created, Accepts, Effect, Db, CreateTable, Statement

LEMMA DropTableStep ==
    ASSUME NEW S, NEW R, NEW F, NEW t, Unreferenced(S, t)
    PROVE  /\ Accepts(Db(S, R, F), DropTable(t))
           /\ Effect(Db(S, R, F), DropTable(t)) =
                Db(Dropped(S, t), R \ {t}, Without(F, t))
  BY DEF Unreferenced, Dropped, Without, Accepts, Effect, Db, DropTable, Statement

LEMMA AddColumnStep ==
    ASSUME NEW S, NEW R, NEW F, NEW t, NEW c, c \notin S[t].required \cup S[t].optional
    PROVE  /\ Accepts(Db(S, R, F), AddColumn(t, c))
           /\ Effect(Db(S, R, F), AddColumn(t, c)) =
                Db(Put(S, t, WithColumn(S[t], c)), R, F)
  BY DEF Accepts, Effect, Db, AddColumn, Statement, Put

LEMMA DropColumnStep ==
    ASSUME NEW S, NEW R, NEW F, NEW t, NEW c, c \in S[t].required \cup S[t].optional
    PROVE  /\ Accepts(Db(S, R, F), DropColumn(t, c))
           /\ Effect(Db(S, R, F), DropColumn(t, c)) =
                Db(Put(S, t, WithoutColumn(S[t], c)), R, Emptied(F, t, c))
  BY DEF Emptied, Accepts, Effect, Db, DropColumn, Statement, Put

LEMMA AddUniqueStep ==
    ASSUME NEW S, NEW R, NEW F, NEW t, NEW c, {c} \notin S[t].unique
    PROVE  /\ Accepts(Db(S, R, F), AddUnique(t, c))
           /\ Effect(Db(S, R, F), AddUnique(t, c)) =
                Db(Put(S, t, WithUnique(S[t], {c})), R, F)
  BY DEF Accepts, Effect, Db, AddUnique, Statement, Put

LEMMA DropUniqueStep ==
    ASSUME NEW S, NEW R, NEW F, NEW t, NEW c, {c} \in S[t].unique
    PROVE  /\ Accepts(Db(S, R, F), DropUnique(t, c))
           /\ Effect(Db(S, R, F), DropUnique(t, c)) =
                Db(Put(S, t, WithoutUnique(S[t], {c})), R, F)
  BY DEF Accepts, Effect, Db, DropUnique, Statement, Put

LEMMA AddForeignKeyStep ==
    ASSUME NEW S, NEW R, NEW F, NEW t, NEW k, k \notin S[t].keys, k.parent \in DOMAIN S,
           <<t, k.column>> \in F => k.parent \in R
    PROVE  /\ Accepts(Db(S, R, F), AddForeignKey(t, k))
           /\ Effect(Db(S, R, F), AddForeignKey(t, k)) =
                Db(Put(S, t, WithKey(S[t], k)), R, F)
  BY DEF Accepts, Effect, Db, AddForeignKey, Statement, Put

LEMMA DropForeignKeyStep ==
    ASSUME NEW S, NEW R, NEW F, NEW t, NEW k, k \in S[t].keys
    PROVE  /\ Accepts(Db(S, R, F), DropForeignKey(t, k))
           /\ Effect(Db(S, R, F), DropForeignKey(t, k)) =
                Db(Put(S, t, WithoutKey(S[t], k)), R, F)
  BY DEF Accepts, Effect, Db, DropForeignKey, Statement, Put

LEMMA SetNullableStep ==
    ASSUME NEW S, NEW R, NEW F, NEW t, NEW c
    PROVE  /\ Accepts(Db(S, R, F), SetNullable(t, c))
           /\ Effect(Db(S, R, F), SetNullable(t, c)) =
                Db(Put(S, t, Nullable(S[t], c)),
                   R, F)
  BY DEF Accepts, Effect, Db, SetNullable, Statement, Put

LEMMA SetRequiredStep ==
    ASSUME NEW S, NEW R, NEW F, NEW t, NEW c, t \in R => <<t, c>> \in F
    PROVE  /\ Accepts(Db(S, R, F), SetRequired(t, c))
           /\ Effect(Db(S, R, F), SetRequired(t, c)) =
                Db(Put(S, t, Required(S[t], c)),
                   R, F)
  BY DEF Accepts, Effect, Db, SetRequired, Statement, Put

LEMMA FillNullsStep ==
    ASSUME NEW S, NEW R, NEW F, NEW t, NEW c
    PROVE  /\ Accepts(Db(S, R, F), FillNulls(t, c))
           /\ Effect(Db(S, R, F), FillNulls(t, c)) =
                Db(S, R, F \cup (IF t \in R THEN {<<t, c>>} ELSE {}))
  BY DEF Accepts, Effect, Db, FillNulls, Statement

-----------------------------------------------------------------------------
(* The tables. *)

LEMMA PlainKeys ==
    \A c, p : /\ ~Key(c, p).useAlter /\ ~Cascading(c, p).useAlter /\ ~Nulling(c, p).useAlter
              /\ Deferred(c, p).useAlter
  BY DEF ForeignKey, Key, Cascading, Nulling, Deferred

LEMMA KeyColumn ==
    /\ \A c, p : Key(c, p).column = c
    /\ \A c, p : Cascading(c, p).column = c
    /\ \A c, p : Nulling(c, p).column = c
  BY DEF ForeignKey, Key, Cascading, Nulling

LEMMA KeyParent ==
    /\ \A c, p : Key(c, p).parent = p
    /\ \A c, p : Cascading(c, p).parent = p
    /\ \A c, p : Nulling(c, p).parent = p
  BY DEF ForeignKey, Key, Cascading, Nulling

LEMMA KeyOnDelete ==
    /\ \A c, p : Key(c, p).onDelete = "NO ACTION"
    /\ \A c, p : Cascading(c, p).onDelete = "CASCADE"
    /\ \A c, p : Nulling(c, p).onDelete = "SET NULL"
  BY DEF ForeignKey, Key, Cascading, Nulling

LEMMA ModelsPlain ==
    \A t \in Tables : \A k \in Models[t].keys : ~k.useAlter
  BY PlainKeys DEF Models, Model, Tables, Columns,
    Review, ModelRun, TaxonomyVersion, TaxonomyNode, TaxonomyChange, ReviewAnalysis, ReviewAspect,
    Anomaly, Insight, InsightAction, SyncRun, Job, EvaluationRun, Setting, SourceCredential

(* The five fields of a table. *)
IsTable(d) ==
    /\ DOMAIN d = {"required", "optional", "unique", "rules", "keys"}
    /\ d = [x \in DOMAIN d |-> d[x]]

LEMMA TableFields ==
    ASSUME NEW d, IsTable(d)
    PROVE  d = [required |-> d.required, optional |-> d.optional, unique |-> d.unique,
                rules |-> d.rules, keys |-> d.keys]
  BY DEF IsTable

LEMMA CompiledPlain ==
    ASSUME NEW def, IsTable(def), \A k \in def.keys : ~k.useAlter
    PROVE  Compiled(def) = def
  BY TableFields DEF Compiled

LEMMA ModelsTables == \A t \in Tables : IsTable(Models[t])
<1>1. IsTable(Review) /\ IsTable(ModelRun) /\ IsTable(TaxonomyVersion) /\ IsTable(TaxonomyNode)
  BY DEF IsTable, Columns, Review, ModelRun, TaxonomyVersion, TaxonomyNode
<1>2. IsTable(TaxonomyChange) /\ IsTable(ReviewAnalysis) /\ IsTable(ReviewAspect)
  BY DEF IsTable, Columns, TaxonomyChange, ReviewAnalysis, ReviewAspect
<1>3. IsTable(Anomaly) /\ IsTable(Insight) /\ IsTable(InsightAction) /\ IsTable(SyncRun)
  BY DEF IsTable, Columns, Anomaly, Insight, InsightAction, SyncRun
<1>4. IsTable(Job) /\ IsTable(EvaluationRun) /\ IsTable(Setting) /\ IsTable(SourceCredential)
  BY DEF IsTable, Columns, Job, EvaluationRun, Setting, SourceCredential
<1> QED
  BY <1>1, <1>2, <1>3, <1>4 DEF Models, Model, Tables

LEMMA CompiledModels == \A t \in Tables : Compiled(Models[t]) = Models[t]
  BY CompiledPlain, ModelsPlain, ModelsTables

(* The tables that the baseline creates as db/models.py declares them. *)
LEMMA SameAsModels ==
    /\ jobs = Models["jobs"] /\ settings = Models["settings"] /\ sync_runs = Models["sync_runs"]
    /\ review_analyses = Models["review_analyses"] /\ taxonomy_changes = Models["taxonomy_changes"]
    /\ taxonomy_nodes = Models["taxonomy_nodes"] /\ anomalies = Models["anomalies"]
    /\ review_aspects = Models["review_aspects"] /\ insights = Models["insights"]
    /\ insight_actions = Models["insight_actions"]
    /\ source_credentials = Models["source_credentials"]
<1>1. /\ Models["jobs"] = Job /\ Models["settings"] = Setting /\ Models["sync_runs"] = SyncRun
      /\ Models["review_analyses"] = ReviewAnalysis /\ Models["taxonomy_changes"] = TaxonomyChange
      /\ Models["taxonomy_nodes"] = TaxonomyNode /\ Models["anomalies"] = Anomaly
      /\ Models["review_aspects"] = ReviewAspect /\ Models["insights"] = Insight
      /\ Models["insight_actions"] = InsightAction
      /\ Models["source_credentials"] = SourceCredential
  BY DEF Models, Model, Tables
<1>2. jobs = Job /\ settings = Setting /\ sync_runs = SyncRun
  BY DEF jobs, Job, settings, Setting, sync_runs, SyncRun, Columns
<1>3. review_analyses = ReviewAnalysis
  BY DEF review_analyses, ReviewAnalysis, Columns
<1>4. taxonomy_changes = TaxonomyChange
  BY DEF taxonomy_changes, TaxonomyChange, Columns
<1>5. taxonomy_nodes = TaxonomyNode
  BY DEF taxonomy_nodes, TaxonomyNode, Columns
<1>6. anomalies = Anomaly
  BY DEF anomalies, Anomaly, Columns
<1>7. review_aspects = ReviewAspect
  BY DEF review_aspects, ReviewAspect, Columns
<1>8. insights = Insight /\ insight_actions = InsightAction
  BY DEF insights, Insight, insight_actions, InsightAction, Columns
<1>9. source_credentials = SourceCredential
  BY DEF source_credentials, SourceCredential, Columns
<1> QED
  BY <1>1, <1>2, <1>3, <1>4, <1>5, <1>6, <1>7, <1>8, <1>9

LEMMA CompiledOthers ==
    Compiled(reviews) = reviews /\ Compiled(evaluation_runs) = evaluation_runs
<1>1. IsTable(reviews) /\ \A k \in reviews.keys : ~k.useAlter
  BY DEF reviews, Columns, IsTable
<1>2. IsTable(evaluation_runs)
  BY DEF evaluation_runs, Columns, IsTable
<1>3. \A k \in evaluation_runs.keys : ~k.useAlter
  BY PlainKeys DEF evaluation_runs, Columns
<1> QED
  BY <1>1, <1>2, <1>3, CompiledPlain

(* The tables of the baseline in the order of their creation. *)
Order ==
    <<"jobs", "model_runs", "reviews", "settings", "sync_runs", "taxonomy_versions",
      "evaluation_runs", "review_analyses", "taxonomy_changes", "taxonomy_nodes",
      "anomalies", "review_aspects", "insights", "insight_actions">>

Definitions ==
    <<jobs, model_runs, reviews, settings, sync_runs, taxonomy_versions,
      evaluation_runs, review_analyses, taxonomy_changes, taxonomy_nodes,
      anomalies, review_aspects, insights, insight_actions>>

(* The first m of them. *)
Earliest(m) == {Order[i] : i \in 1 .. m}

LEMMA BaselineScripts ==
    /\ Len(Baseline.upgrade) = 14 /\ Len(Baseline.downgrade) = 14
    /\ \A i \in 1 .. 14 :
         /\ Baseline.upgrade[i] = CreateTable(Order[i], Definitions[i])
         /\ Baseline.downgrade[i] = DropTable(Order[15 - i])
  BY DEF Baseline, Order, Definitions

LEMMA OrderDistinct ==
    \A i, j \in 1 .. 14 : Order[i] = Order[j] => i = j
  BY DEF Order

LEMMA EarliestAll == Earliest(14) = TablesAt(1)
  BY DEF Earliest, Order, TablesAt, Tables

LEMMA DefinitionsTables == \A i \in 1 .. 14 : IsTable(Definitions[i])
<1>1. /\ IsTable(jobs) /\ IsTable(settings) /\ IsTable(sync_runs) /\ IsTable(review_analyses)
      /\ IsTable(taxonomy_changes) /\ IsTable(taxonomy_nodes) /\ IsTable(anomalies)
      /\ IsTable(review_aspects) /\ IsTable(insights) /\ IsTable(insight_actions)
  BY SameAsModels, ModelsTables DEF Tables
<1>2. IsTable(reviews) /\ IsTable(model_runs)
  BY DEF reviews, model_runs, Columns, IsTable
<1>3. IsTable(taxonomy_versions) /\ IsTable(evaluation_runs)
  BY DEF taxonomy_versions, evaluation_runs, Columns, IsTable
<1> QED
  BY <1>1, <1>2, <1>3 DEF Definitions

LEMMA CompiledBaseline ==
    \A i \in 1 .. 14 : Compiled(Definitions[i]) = TableAt(Order[i], 1)
<1>1. /\ TableAt("reviews", 1) = reviews /\ TableAt("evaluation_runs", 1) = EvaluationRunAt(1)
      /\ EvaluationRunAt(1) = evaluation_runs
      /\ TableAt("model_runs", 1) = Compiled(model_runs)
      /\ TableAt("taxonomy_versions", 1) = Compiled(taxonomy_versions)
      /\ \A t \in Tables : t \notin {"reviews", "evaluation_runs", "model_runs", "taxonomy_versions"}
            => TableAt(t, 1) = Models[t]
  BY DEF TableAt, EvaluationRunAt
<1> SUFFICES ASSUME NEW i \in 1 .. 14 PROVE Compiled(Definitions[i]) = TableAt(Order[i], 1)
  OBVIOUS
<1>2. CASE i \in {2, 3, 6, 7}
  <2>1. i = 2 \/ i = 3 \/ i = 6 \/ i = 7
    BY <1>2
  <2> QED
    BY <1>1, <2>1, CompiledOthers DEF Definitions, Order
<1>3. CASE i \notin {2, 3, 6, 7}
  <2>1. /\ Order[i] \in Tables
        /\ Order[i] \notin {"reviews", "evaluation_runs", "model_runs", "taxonomy_versions"}
    BY <1>3 DEF Order, Tables
  <2>2. Definitions[i] = Models[Order[i]]
    BY <1>3, SameAsModels DEF Definitions, Order
  <2> QED
    BY <1>1, <2>1, <2>2, CompiledModels
<1> QED
  BY <1>2, <1>3

LEMMA BaselineParents ==
    /\ \A k \in jobs.keys \cup reviews.keys \cup settings.keys \cup sync_runs.keys : FALSE
    /\ \A k \in model_runs.keys : k.useAlter
    /\ \A k \in taxonomy_versions.keys : k.useAlter \/ k.parent = "taxonomy_versions"
    /\ \A k \in evaluation_runs.keys \cup taxonomy_changes.keys : k.parent = "taxonomy_versions"
    /\ \A k \in review_analyses.keys : k.parent \in {"model_runs", "reviews", "taxonomy_versions"}
    /\ \A k \in taxonomy_nodes.keys : k.parent \in {"taxonomy_nodes", "taxonomy_versions"}
    /\ \A k \in anomalies.keys : k.parent \in {"taxonomy_nodes", "taxonomy_versions"}
    /\ \A k \in review_aspects.keys : k.parent \in {"review_analyses", "taxonomy_nodes"}
    /\ \A k \in insights.keys : k.parent \in {"anomalies", "model_runs", "taxonomy_nodes"}
    /\ \A k \in insight_actions.keys : k.parent = "insights"
<1>1. /\ jobs.keys = {} /\ reviews.keys = {} /\ settings.keys = {} /\ sync_runs.keys = {}
      /\ model_runs.keys = {Deferred("taxonomy_version_id", "taxonomy_versions")}
      /\ taxonomy_versions.keys = {Deferred("generation_model_run_id", "model_runs"),
                                   Key("parent_version_id", "taxonomy_versions")}
  BY DEF Columns, jobs, reviews, settings, sync_runs, model_runs, taxonomy_versions
<1>2. /\ evaluation_runs.keys = {Key("taxonomy_version_id", "taxonomy_versions")}
      /\ taxonomy_changes.keys = {Key("from_version_id", "taxonomy_versions"),
                                  Key("to_version_id", "taxonomy_versions")}
      /\ review_analyses.keys = {Key("model_run_id", "model_runs"),
                                 Cascading("review_id", "reviews"),
                                 Key("taxonomy_version_id", "taxonomy_versions")}
      /\ taxonomy_nodes.keys = {Cascading("parent_id", "taxonomy_nodes"),
                                Cascading("taxonomy_version_id", "taxonomy_versions")}
  BY DEF Columns, evaluation_runs, taxonomy_changes, review_analyses, taxonomy_nodes
<1>3. /\ anomalies.keys = {Key("taxonomy_node_id", "taxonomy_nodes"),
                           Key("taxonomy_version_id", "taxonomy_versions")}
      /\ review_aspects.keys = {Cascading("review_analysis_id", "review_analyses"),
                                Key("taxonomy_node_id", "taxonomy_nodes")}
      /\ insights.keys = {Key("anomaly_id", "anomalies"),
                          Key("generated_by_model_run_id", "model_runs"),
                          Key("taxonomy_node_id", "taxonomy_nodes")}
      /\ insight_actions.keys = {Cascading("insight_id", "insights")}
  BY DEF Columns, anomalies, review_aspects, insights, insight_actions
<1>4. /\ \A k \in evaluation_runs.keys \cup taxonomy_changes.keys : k.parent = "taxonomy_versions"
      /\ \A k \in review_analyses.keys : k.parent \in {"model_runs", "reviews", "taxonomy_versions"}
      /\ \A k \in taxonomy_nodes.keys : k.parent \in {"taxonomy_nodes", "taxonomy_versions"}
  BY <1>2, KeyParent
<1>5. /\ \A k \in anomalies.keys : k.parent \in {"taxonomy_nodes", "taxonomy_versions"}
      /\ \A k \in review_aspects.keys : k.parent \in {"review_analyses", "taxonomy_nodes"}
      /\ \A k \in insights.keys : k.parent \in {"anomalies", "model_runs", "taxonomy_nodes"}
      /\ \A k \in insight_actions.keys : k.parent = "insights"
  BY <1>3, KeyParent
<1>6. /\ \A k \in jobs.keys \cup reviews.keys \cup settings.keys \cup sync_runs.keys : FALSE
      /\ \A k \in model_runs.keys : k.useAlter
      /\ \A k \in taxonomy_versions.keys : k.useAlter \/ k.parent = "taxonomy_versions"
  BY <1>1, PlainKeys, KeyParent
<1> QED
  BY <1>4, <1>5, <1>6

LEMMA ParentsEarlier ==
    \A i \in 1 .. 14 : \A k \in Definitions[i].keys : k.useAlter \/ k.parent \in Earliest(i)
<1> SUFFICES ASSUME NEW i \in 1 .. 14, NEW k \in Definitions[i].keys, ~k.useAlter
             PROVE  k.parent \in Earliest(i)
  OBVIOUS
<1>1. \A j \in 1 .. i : Order[j] \in Earliest(i)
  BY DEF Earliest
<1>2. CASE i < 8
  BY <1>1, <1>2, BaselineParents DEF Definitions, Order
<1>3. CASE i >= 8
  BY <1>1, <1>3, BaselineParents DEF Definitions, Order
<1> QED
  BY <1>2, <1>3

-----------------------------------------------------------------------------
(* The baseline, table by table. *)

(* The schema of the first m tables of the baseline. *)
First(m) == [t \in Earliest(m) |-> TableAt(t, 1)]

LEMMA FirstAll == First(0) = SchemaOf(0) /\ First(14) = SchemaOf(1)
<1>1. Earliest(0) = {} /\ TablesAt(0) = {}
  BY DEF Earliest, TablesAt
<1>2. First(0) = SchemaOf(0)
  BY <1>1 DEF First, SchemaOf
<1>3. First(14) = SchemaOf(1)
  BY EarliestAll DEF First, SchemaOf
<1> QED
  BY <1>2, <1>3

LEMMA EarliestNext ==
    ASSUME NEW i \in 1 .. 14
    PROVE  /\ Earliest(i) = Earliest(i - 1) \cup {Order[i]}
           /\ Order[i] \notin Earliest(i - 1)
<1>1. Earliest(i) = Earliest(i - 1) \cup {Order[i]}
  BY DEF Earliest
<1>2. Order[i] \notin Earliest(i - 1)
  BY OrderDistinct DEF Earliest
<1> QED
  BY <1>1, <1>2

LEMMA BaselineUp ==
    ASSUME NEW R, NEW F
    PROVE  Outcomes(Db(SchemaOf(0), R, F), Baseline.upgrade) = {Db(SchemaOf(1), R, F)}
<1> DEFINE script == Baseline.upgrade
           e == [i \in 1 .. 15 |-> Db(First(i - 1), R, F)]
<1>1. Len(script) \in Nat /\ Len(script) = 14 /\ Len(script) + 1 = 15
  BY BaselineScripts
<1>2. Traces(e, script)
  <2> SUFFICES ASSUME NEW i \in 1 .. 14
               PROVE  Accepts(e[i], script[i]) /\ e[i + 1] = Effect(e[i], script[i])
    BY <1>1 DEF Traces
  <2> DEFINE S == First(i - 1)
             t == Order[i]
             def == Definitions[i]
  <2>1. e[i] = Db(S, R, F) /\ e[i + 1] = Db(First(i), R, F) /\ script[i] = CreateTable(t, def)
    BY BaselineScripts
  <2>2. DOMAIN S = Earliest(i - 1)
    BY DEF First
  <2>3. t \notin DOMAIN S /\ \A k \in def.keys : k.useAlter \/ k.parent \in DOMAIN S \cup {t}
    BY <2>2, EarliestNext, ParentsEarlier
  <2>4. Created(S, t, def) = First(i)
    <3>1. DOMAIN S \cup {t} = Earliest(i) /\ t \notin Earliest(i - 1)
      BY <2>2, EarliestNext
    <3>2. \A u \in Earliest(i) : TableAt(u, 1) = IF u = t THEN Compiled(def) ELSE S[u]
      <4> SUFFICES ASSUME NEW u \in Earliest(i)
                   PROVE  TableAt(u, 1) = IF u = t THEN Compiled(def) ELSE S[u]
        OBVIOUS
      <4>1. CASE u = t
        BY <4>1, CompiledBaseline
      <4>2. CASE u # t
        <5>1. u \in Earliest(i - 1)
          BY <4>2, EarliestNext
        <5> QED
          BY <4>2, <5>1 DEF First
      <4> QED
        BY <4>1, <4>2
    <3> HIDE DEF S, t, def
    <3> QED
      BY <3>1, <3>2 DEF First, Created
  <2> HIDE DEF S, t, def, e, script
  <2>5. /\ Accepts(Db(S, R, F), CreateTable(t, def))
        /\ Effect(Db(S, R, F), CreateTable(t, def)) =
             Db(Created(S, t, def), R, F)
    BY <2>3, CreateTableStep
  <2> QED
    BY <2>1, <2>4, <2>5
<1>3. e[1] = Db(SchemaOf(0), R, F) /\ e[15] = Db(SchemaOf(1), R, F)
  BY FirstAll
<1> HIDE DEF e
<1>4. Outcomes(e[1], script) = {e[Len(script) + 1]}
  BY <1>1, <1>2, Trace, Zenon
<1> QED
  BY <1>1, <1>3, <1>4

LEMMA BaselineDown ==
    ASSUME NEW R, NEW F, R \subseteq TablesAt(1), \A c \in F : c[1] \in R
    PROVE  Outcomes(Db(SchemaOf(1), R, F), Baseline.downgrade) = {Db(SchemaOf(0), {}, {})}
<1> DEFINE script == Baseline.downgrade
           Left(m) == Db(First(m), R \cap Earliest(m), {c \in F : c[1] \in Earliest(m)})
           e == [i \in 1 .. 15 |-> Left(15 - i)]
<1>1. Len(script) \in Nat /\ Len(script) = 14 /\ Len(script) + 1 = 15
  BY BaselineScripts
<1>2. Traces(e, script)
  <2> SUFFICES ASSUME NEW i \in 1 .. 14
               PROVE  Accepts(e[i], script[i]) /\ e[i + 1] = Effect(e[i], script[i])
    BY <1>1 DEF Traces
  <2> DEFINE m == 15 - i
             t == Order[m]
             S == First(m)
             R1 == R \cap Earliest(m)
             F1 == {c \in F : c[1] \in Earliest(m)}
  <2>1. m \in 1 .. 14 /\ m - 1 = 15 - (i + 1)
    OBVIOUS
  <2>2. e[i] = Db(S, R1, F1) /\ e[i + 1] = Left(m - 1) /\ script[i] = DropTable(t)
    <3>1. script[i] = DropTable(t)
      BY BaselineScripts
    <3>2. e[i] = Left(m)
      OBVIOUS
    <3>3. e[i + 1] = Left(15 - (i + 1))
      <4>1. i + 1 \in 1 .. 15
        OBVIOUS
      <4> HIDE DEF Left, m
      <4> QED
        BY <4>1
    <3>4. Left(m) = Db(S, R1, F1)
      OBVIOUS
    <3> HIDE DEF e, script, Left, S, R1, F1, t, m
    <3> QED
      BY <2>1, <3>1, <3>2, <3>3, <3>4
  <2>3. DOMAIN S = Earliest(m)
    BY DEF First
  <2>4. Earliest(m) = Earliest(m - 1) \cup {t} /\ t \notin Earliest(m - 1)
    BY <2>1, EarliestNext
  <2>5. Unreferenced(S, t)
    <3> SUFFICES ASSUME NEW u \in DOMAIN S \ {t}, NEW k \in S[u].keys PROVE k.parent # t
      BY DEF Unreferenced
    <3>1. PICK j \in 1 .. m : u = Order[j]
      BY <2>3 DEF Earliest
    <3>2. j \in 1 .. m - 1 /\ j \in 1 .. 14
      BY <2>1, <3>1
    <3>3. S[u] = Compiled(Definitions[j])
      BY <2>3, <3>1, <3>2, CompiledBaseline DEF First
    <3>4. k \in Definitions[j].keys /\ ~k.useAlter
      <4>1. Compiled(Definitions[j]).keys = {l \in Definitions[j].keys : ~l.useAlter}
        <5>1. IsTable(Definitions[j])
          BY <3>2, DefinitionsTables
        <5> QED
          BY <5>1 DEF Compiled, IsTable
      <4> QED
        BY <3>3, <4>1
    <3>5. k.parent \in Earliest(j)
      BY <3>2, <3>4, ParentsEarlier
    <3>6. Earliest(j) \subseteq Earliest(m - 1)
      BY <2>1, <3>2 DEF Earliest
    <3> QED
      BY <2>4, <3>5, <3>6
  <2>6. Dropped(S, t) = First(m - 1)
    BY <2>3, <2>4 DEF First, Dropped
  <2>7. R1 \ {t} = R \cap Earliest(m - 1)
    BY <2>4
  <2>8. Without(F1, t) = {c \in F : c[1] \in Earliest(m - 1)}
    BY <2>4 DEF Without
  <2>9. Left(m - 1) = Db(Dropped(S, t), R1 \ {t}, Without(F1, t))
    BY <2>6, <2>7, <2>8
  <2> HIDE DEF m, S, t, R1, F1, e, script, Left
  <2>10. /\ Accepts(Db(S, R1, F1), DropTable(t))
         /\ Effect(Db(S, R1, F1), DropTable(t)) =
              Db(Dropped(S, t), R1 \ {t}, Without(F1, t))
    BY <2>5, DropTableStep
  <2> QED
    BY <2>2, <2>9, <2>10, Zenon
<1>3. Earliest(0) = {}
  BY DEF Earliest
<1>4. e[1] = Left(14) /\ e[15] = Left(0)
  OBVIOUS
<1>5. Left(14) = Db(SchemaOf(1), R, F)
  BY FirstAll, EarliestAll
<1>6. Left(0) = Db(SchemaOf(0), {}, {})
  BY <1>3, FirstAll
<1> HIDE DEF e, Left
<1>7. Outcomes(e[1], script) = {e[Len(script) + 1]}
  BY <1>1, <1>2, Trace, Zenon
<1> QED
  BY <1>1, <1>4, <1>5, <1>6, <1>7

-----------------------------------------------------------------------------
(* The later revisions. *)

LEMMA PutTwice == \A S, t, a, b : Put(Put(S, t, a), t, b) = Put(S, t, b)
  BY DEF Put

LEMMA PutFacts ==
    ASSUME NEW S, NEW t \in DOMAIN S, NEW def
    PROVE  /\ Put(S, t, def)[t] = def
           /\ DOMAIN Put(S, t, def) = DOMAIN S
           /\ \A u \in DOMAIN S \ {t} : Put(S, t, def)[u] = S[u]
  BY DEF Put

LEMMA SchemaDomain == \A n : DOMAIN SchemaOf(n) = TablesAt(n)
  BY DEF SchemaOf

LEMMA SchemaTable == \A n : \A t \in TablesAt(n) : SchemaOf(n)[t] = TableAt(t, n)
  BY DEF SchemaOf

LEMMA LaterTables == \A n \in 2 .. 7 : TablesAt(n) = Tables
  BY DEF TablesAt

(* A script that changes one table. *)
LEMMA PutNext ==
    ASSUME NEW n \in 2 .. 7, NEW m \in 2 .. 7, NEW t \in Tables,
           \A u \in Tables \ {t} : TableAt(u, n) = TableAt(u, m)
    PROVE  Put(SchemaOf(n), t, TableAt(t, m)) = SchemaOf(m)
  BY LaterTables DEF Put, SchemaOf

LEMMA SameTable ==
    ASSUME NEW a, NEW b, IsTable(a), IsTable(b), a.required = b.required, a.optional = b.optional,
           a.unique = b.unique, a.rules = b.rules, a.keys = b.keys
    PROVE  a = b
  BY TableFields

(* Only evaluation_runs changes from one of the revisions 2 .. 6 to another. *)
LEMMA OnlyEvaluationRuns ==
    ASSUME NEW n \in 2 .. 6, NEW m \in 2 .. 6, NEW u \in Tables \ {"evaluation_runs"}
    PROVE  TableAt(u, n) = TableAt(u, m)
  BY DEF TableAt

LEMMA WithFields ==
    ASSUME NEW def, IsTable(def), NEW c, NEW k, NEW u
    PROVE  /\ IsTable(WithColumn(def, c)) /\ IsTable(WithUnique(def, u)) /\ IsTable(WithKey(def, k))
           /\ IsTable(Nullable(def, c)) /\ IsTable(Required(def, c)) /\ IsTable(Compiled(def))
  BY DEF IsTable, WithColumn, WithUnique, WithKey, Nullable, Required, Compiled

LEMMA DropAddedColumn ==
    ASSUME NEW def, IsTable(def), NEW c, c \notin def.required \cup def.optional,
           \A u \in def.unique : c \notin u, \A k \in def.keys : k.column # c
    PROVE  WithoutColumn(WithColumn(def, c), c) = def
<1> DEFINE a == WithoutColumn(WithColumn(def, c), c)
<1>1. /\ IsTable(a) /\ a.required = def.required \ {c}
      /\ a.optional = (def.optional \cup {c}) \ {c} /\ a.rules = def.rules
      /\ a.unique = {u \in def.unique : c \notin u}
      /\ a.keys = {k \in def.keys : k.column # c}
  BY DEF IsTable, WithoutColumn, WithColumn
<1> HIDE DEF a
<1>2. /\ IsTable(a) /\ a.required = def.required /\ a.optional = def.optional
      /\ a.rules = def.rules /\ a.unique = def.unique /\ a.keys = def.keys
  BY <1>1
<1>3. a = def
  BY <1>2, SameTable
<1> QED
  BY <1>3 DEF a

LEMMA DropAddedUnique ==
    ASSUME NEW def, IsTable(def), NEW u, u \notin def.unique
    PROVE  WithoutUnique(WithUnique(def, u), u) = def
<1> DEFINE a == WithoutUnique(WithUnique(def, u), u)
<1>1. /\ IsTable(a) /\ a.required = def.required /\ a.optional = def.optional
      /\ a.rules = def.rules /\ a.unique = (def.unique \cup {u}) \ {u} /\ a.keys = def.keys
  BY DEF IsTable, WithoutUnique, WithUnique
<1> HIDE DEF a
<1>2. /\ IsTable(a) /\ a.required = def.required /\ a.optional = def.optional
      /\ a.rules = def.rules /\ a.unique = def.unique /\ a.keys = def.keys
  BY <1>1
<1>3. a = def
  BY <1>2, SameTable
<1> QED
  BY <1>3 DEF a

LEMMA DropAddedKey ==
    ASSUME NEW def, IsTable(def), NEW k, k \notin def.keys
    PROVE  WithoutKey(WithKey(def, k), k) = def
<1> DEFINE a == WithoutKey(WithKey(def, k), k)
<1>1. /\ IsTable(a) /\ a.required = def.required /\ a.optional = def.optional
      /\ a.rules = def.rules /\ a.unique = def.unique /\ a.keys = (def.keys \cup {k}) \ {k}
  BY DEF IsTable, WithoutKey, WithKey
<1> HIDE DEF a
<1>2. /\ IsTable(a) /\ a.required = def.required /\ a.optional = def.optional
      /\ a.rules = def.rules /\ a.unique = def.unique /\ a.keys = def.keys
  BY <1>1
<1>3. a = def
  BY <1>2, SameTable
<1> QED
  BY <1>3 DEF a

LEMMA TightenAgain ==
    ASSUME NEW def, IsTable(def), NEW c, c \in def.required, c \notin def.optional
    PROVE  Required(Nullable(def, c), c) = def
<1> DEFINE a == Required(Nullable(def, c), c)
<1>1. /\ IsTable(a) /\ a.required = (def.required \ {c}) \cup {c}
      /\ a.optional = (def.optional \cup {c}) \ {c}
      /\ a.rules = def.rules /\ a.unique = def.unique /\ a.keys = def.keys
  BY DEF IsTable, Nullable, Required
<1> HIDE DEF a
<1>2. /\ IsTable(a) /\ a.required = def.required /\ a.optional = def.optional
      /\ a.rules = def.rules /\ a.unique = def.unique /\ a.keys = def.keys
  BY <1>1
<1>3. a = def
  BY <1>2, SameTable
<1> QED
  BY <1>3 DEF a

-----------------------------------------------------------------------------
OfJob    == Key("job_id", "jobs")
OfOldJob == Nulling("job_id", "jobs")

(* evaluation_runs after c4a17b9d2e60, a71f4c9b3d82 and c87f5e6195fd *)
Versioned   == WithColumn(evaluation_runs, "taxonomy_version")
Marked      == WithColumn(Versioned, "job_id")
Sole        == WithUnique(Marked, {"job_id"})
Owned       == WithKey(Sole, OfJob)
Survivor    == WithKey(Sole, OfOldJob)

LEMMA EvaluationRunTables ==
    /\ EvaluationRunAt(1) = evaluation_runs /\ EvaluationRunAt(2) = evaluation_runs
    /\ EvaluationRunAt(3) = Versioned /\ EvaluationRunAt(4) = Owned
    /\ EvaluationRunAt(5) = Survivor
    /\ EvaluationRunAt(6) = EvaluationRun /\ EvaluationRunAt(7) = EvaluationRun
  BY DEF EvaluationRunAt, Versioned, Marked, Sole, Owned, Survivor, OfJob, OfOldJob

OfVersion == Key("taxonomy_version_id", "taxonomy_versions")

FewColumns == {"model_version", "taxonomy_version_id", "notes"}

LEMMA EvaluationRunFields ==
    /\ IsTable(evaluation_runs) /\ evaluation_runs.unique = {}
    /\ evaluation_runs.keys = {OfVersion}
    /\ evaluation_runs.optional = FewColumns
    /\ \A c \in {"taxonomy_version", "job_id", "prompt_version"} :
        c \notin evaluation_runs.required
  BY DEF evaluation_runs, Columns, IsTable, OfVersion, FewColumns

LEMMA KeysOfEvaluationRuns ==
    /\ OfVersion.column = "taxonomy_version_id" /\ OfJob.column = "job_id"
    /\ OfOldJob.column = "job_id" /\ OfOldJob # OfJob /\ OfVersion # OfJob /\ OfVersion # OfOldJob
    /\ OfVersion.parent = "taxonomy_versions" /\ OfJob.parent = "jobs" /\ OfOldJob.parent = "jobs"
    /\ OfVersion.onDelete = "NO ACTION" /\ OfJob.onDelete = "NO ACTION"
    /\ OfOldJob.onDelete = "SET NULL"
  BY DEF OfVersion, OfJob, OfOldJob, Key, Nulling, ForeignKey

LEMMA EvaluationRunMoves ==
    /\ IsTable(Versioned) /\ IsTable(Marked) /\ IsTable(Sole) /\ IsTable(Owned) /\ IsTable(Survivor)
    /\ Versioned.required = evaluation_runs.required
    /\ Versioned.optional = FewColumns \cup {"taxonomy_version"}
    /\ Versioned.unique = {} /\ Versioned.keys = {OfVersion}
    /\ Marked.required = evaluation_runs.required
    /\ Marked.optional = FewColumns \cup {"taxonomy_version", "job_id"}
    /\ Marked.unique = {} /\ Marked.keys = {OfVersion}
    /\ Sole.required = evaluation_runs.required
    /\ Sole.optional = FewColumns \cup {"taxonomy_version", "job_id"}
    /\ Sole.unique = {{"job_id"}} /\ Sole.keys = {OfVersion}
    /\ Owned.required = evaluation_runs.required
    /\ Owned.optional = FewColumns \cup {"taxonomy_version", "job_id"}
    /\ Owned.unique = {{"job_id"}} /\ Owned.keys = {OfVersion, OfJob}
    /\ Survivor.required = evaluation_runs.required
    /\ Survivor.optional = FewColumns \cup {"taxonomy_version", "job_id"}
    /\ Survivor.unique = {{"job_id"}} /\ Survivor.keys = {OfVersion, OfOldJob}
<1>1. /\ IsTable(Versioned) /\ Versioned.required = evaluation_runs.required
      /\ Versioned.optional = FewColumns \cup {"taxonomy_version"}
      /\ Versioned.unique = {} /\ Versioned.keys = {OfVersion}
  BY EvaluationRunFields DEF Versioned, WithColumn, IsTable
<1>2. /\ IsTable(Marked) /\ Marked.required = evaluation_runs.required
      /\ Marked.optional = FewColumns \cup {"taxonomy_version", "job_id"}
      /\ Marked.unique = {} /\ Marked.keys = {OfVersion}
  BY <1>1 DEF Marked, WithColumn, IsTable
<1>3. /\ IsTable(Sole) /\ Sole.required = evaluation_runs.required
      /\ Sole.optional = FewColumns \cup {"taxonomy_version", "job_id"}
      /\ Sole.unique = {{"job_id"}} /\ Sole.keys = {OfVersion}
  BY <1>2 DEF Sole, WithUnique, IsTable
<1>4. /\ IsTable(Owned) /\ Owned.required = evaluation_runs.required
      /\ Owned.optional = FewColumns \cup {"taxonomy_version", "job_id"}
      /\ Owned.unique = {{"job_id"}} /\ Owned.keys = {OfVersion, OfJob}
  BY <1>3 DEF Owned, WithKey, IsTable
<1>5. /\ IsTable(Survivor) /\ Survivor.required = evaluation_runs.required
      /\ Survivor.optional = FewColumns \cup {"taxonomy_version", "job_id"}
      /\ Survivor.unique = {{"job_id"}} /\ Survivor.keys = {OfVersion, OfOldJob}
  BY <1>3 DEF Survivor, WithKey, IsTable
<1> QED
  BY <1>1, <1>2, <1>3, <1>4, <1>5

LEMMA HeadEvaluationRun == WithColumn(Survivor, "prompt_version") = EvaluationRun
<1> DEFINE a == WithColumn(Survivor, "prompt_version")
<1>1. /\ IsTable(a) /\ a.required = evaluation_runs.required
      /\ a.optional = FewColumns \cup {"taxonomy_version", "job_id", "prompt_version"}
      /\ a.unique = {{"job_id"}} /\ a.keys = {OfVersion, OfOldJob}
      /\ a.rules = evaluation_runs.rules
  <2>1. a.rules = evaluation_runs.rules
    BY DEF Survivor, Sole, Marked, Versioned, WithColumn, WithKey, WithUnique, evaluation_runs, Columns
  <2> QED
    BY <2>1, EvaluationRunMoves DEF WithColumn, IsTable
<1>2. /\ IsTable(EvaluationRun) /\ EvaluationRun.required = evaluation_runs.required
      /\ EvaluationRun.optional = FewColumns \cup {"taxonomy_version", "job_id", "prompt_version"}
      /\ EvaluationRun.unique = {{"job_id"}} /\ EvaluationRun.keys = {OfVersion, OfOldJob}
      /\ EvaluationRun.rules = evaluation_runs.rules
  BY DEF evaluation_runs, EvaluationRun, Columns, IsTable, OfVersion, OfOldJob, FewColumns
<1> HIDE DEF a
<1> QED
  BY <1>1, <1>2, SameTable DEF a

-----------------------------------------------------------------------------
(* What the chain ends with. *)

OfRun == Key("generation_model_run_id", "model_runs")

LEMMA HeadTables ==
    /\ Models["reviews"] = Review /\ Models["model_runs"] = ModelRun
    /\ Models["taxonomy_versions"] = TaxonomyVersion
    /\ Models["evaluation_runs"] = EvaluationRun
    /\ DOMAIN Models = Tables
  BY DEF Models, Model, Tables

LEMMA HeadReview ==
    /\ IsTable(reviews) /\ "review_text" \in reviews.required /\ "review_text" \notin reviews.optional
    /\ Nullable(reviews, "review_text") = Review
<1>1. /\ IsTable(reviews) /\ "review_text" \in reviews.required
      /\ "review_text" \notin reviews.optional
  BY DEF reviews, Columns, IsTable
<1> DEFINE a == Nullable(reviews, "review_text")
<1>2. /\ IsTable(a) /\ a.required = reviews.required \ {"review_text"}
      /\ a.optional = reviews.optional \cup {"review_text"}
      /\ a.rules = reviews.rules /\ a.unique = reviews.unique /\ a.keys = reviews.keys
  BY <1>1 DEF Nullable, IsTable
<1>3. IsTable(Review) /\ Review.required = reviews.required \ {"review_text"}
  BY DEF reviews, Review, Columns, IsTable
<1>4. /\ Review.optional = reviews.optional \cup {"review_text"}
      /\ Review.rules = reviews.rules /\ Review.unique = reviews.unique /\ Review.keys = reviews.keys
  BY DEF reviews, Review, Columns, IsTable
<1> HIDE DEF a
<1>5. a = Review
  BY <1>2, <1>3, <1>4, SameTable
<1> QED
  BY <1>1, <1>5 DEF a

LEMMA HeadModelRun ==
    /\ IsTable(Compiled(model_runs)) /\ OfVersion \notin Compiled(model_runs).keys
    /\ WithKey(Compiled(model_runs), OfVersion) = ModelRun
<1>1. IsTable(model_runs) /\ model_runs.keys = {Deferred("taxonomy_version_id", "taxonomy_versions")}
  BY DEF model_runs, Columns, IsTable
<1> DEFINE a == Compiled(model_runs)
           b == WithKey(a, OfVersion)
<1>2. /\ IsTable(a) /\ a.required = model_runs.required /\ a.optional = model_runs.optional
      /\ a.rules = model_runs.rules /\ a.unique = model_runs.unique
      /\ a.keys = {k \in model_runs.keys : ~k.useAlter}
  BY <1>1 DEF Compiled, IsTable
<1>3. a.keys = {}
  BY <1>1, <1>2, PlainKeys
<1> HIDE DEF a
<1>4. /\ IsTable(b) /\ b.required = a.required /\ b.optional = a.optional /\ b.rules = a.rules
      /\ b.unique = a.unique /\ b.keys = {OfVersion}
  BY <1>2, <1>3 DEF WithKey, IsTable
<1>5. /\ IsTable(ModelRun) /\ ModelRun.required = model_runs.required
      /\ ModelRun.optional = model_runs.optional /\ ModelRun.rules = model_runs.rules
      /\ ModelRun.unique = model_runs.unique /\ ModelRun.keys = {OfVersion}
  BY DEF model_runs, ModelRun, Columns, IsTable, OfVersion
<1> HIDE DEF b
<1>6. b = ModelRun
  BY <1>2, <1>4, <1>5, SameTable
<1> QED
  BY <1>2, <1>3, <1>6 DEF a, b

LEMMA HeadTaxonomyVersion ==
    /\ IsTable(Compiled(taxonomy_versions)) /\ OfRun \notin Compiled(taxonomy_versions).keys
    /\ WithKey(Compiled(taxonomy_versions), OfRun) = TaxonomyVersion
<1> DEFINE parent == Key("parent_version_id", "taxonomy_versions")
<1>1. /\ IsTable(taxonomy_versions)
      /\ taxonomy_versions.keys = {Deferred("generation_model_run_id", "model_runs"), parent}
  BY DEF taxonomy_versions, Columns, IsTable
<1> DEFINE a == Compiled(taxonomy_versions)
           b == WithKey(a, OfRun)
<1>2. /\ IsTable(a) /\ a.required = taxonomy_versions.required
      /\ a.optional = taxonomy_versions.optional
      /\ a.rules = taxonomy_versions.rules /\ a.unique = taxonomy_versions.unique
      /\ a.keys = {k \in taxonomy_versions.keys : ~k.useAlter}
  BY <1>1 DEF Compiled, IsTable
<1>3. a.keys = {parent}
  BY <1>1, <1>2, PlainKeys
<1>4. OfRun # parent
  BY DEF OfRun, Key, ForeignKey
<1>5. /\ IsTable(TaxonomyVersion) /\ TaxonomyVersion.required = taxonomy_versions.required
      /\ TaxonomyVersion.optional = taxonomy_versions.optional
      /\ TaxonomyVersion.rules = taxonomy_versions.rules
      /\ TaxonomyVersion.unique = taxonomy_versions.unique
      /\ TaxonomyVersion.keys = {parent, OfRun}
  BY DEF taxonomy_versions, TaxonomyVersion, Columns, IsTable, OfRun
<1> HIDE DEF a, parent
<1>6. /\ IsTable(b) /\ b.required = a.required /\ b.optional = a.optional /\ b.rules = a.rules
      /\ b.unique = a.unique /\ b.keys = {parent, OfRun}
  BY <1>2, <1>3 DEF WithKey, IsTable
<1> HIDE DEF b
<1>7. b = TaxonomyVersion
  BY <1>2, <1>5, <1>6, SameTable
<1> QED
  BY <1>2, <1>3, <1>4, <1>7 DEF a, b

LEMMA HeadSchema == SchemaOf(7) = Models
<1>1. \A t \in Tables : TableAt(t, 7) = Models[t]
  BY HeadTables, EvaluationRunTables DEF TableAt
<1>2. Models = [t \in Tables |-> Models[t]]
  BY DEF Models
<1>3. SchemaOf(7) = [t \in Tables |-> TableAt(t, 7)]
  BY LaterTables DEF SchemaOf
<1> QED
  BY <1>1, <1>2, <1>3

(* A key of a model is a reference, and the other way round. *)
LEMMA ReferencesAreKeys ==
    \A r : r \in References <=>
        \E t \in Tables : \E k \in Models[t].keys :
            r = [table |-> t, column |-> k.column, parent |-> k.parent]
  BY HeadTables DEF References

LEMMA SomeReferences ==
    /\ [table |-> "evaluation_runs", column |-> "job_id", parent |-> "jobs"] \in References
    /\ [table |-> "model_runs", column |-> "taxonomy_version_id", parent |-> "taxonomy_versions"]
        \in References
    /\ [table |-> "taxonomy_versions", column |-> "generation_model_run_id", parent |-> "model_runs"]
        \in References
<1>1. /\ OfOldJob \in EvaluationRun.keys /\ OfVersion \in ModelRun.keys
      /\ OfRun \in TaxonomyVersion.keys
  BY DEF EvaluationRun, ModelRun, TaxonomyVersion, Columns, OfOldJob, OfVersion, OfRun
<1>2. /\ OfOldJob.column = "job_id" /\ OfOldJob.parent = "jobs"
      /\ OfVersion.column = "taxonomy_version_id" /\ OfVersion.parent = "taxonomy_versions"
      /\ OfRun.column = "generation_model_run_id" /\ OfRun.parent = "model_runs"
  BY DEF OfOldJob, OfVersion, OfRun, Key, Nulling, ForeignKey
<1>3. {"evaluation_runs", "model_runs", "taxonomy_versions"} \subseteq Tables
  BY DEF Tables
<1> QED
  BY <1>1, <1>2, <1>3, ReferencesAreKeys, HeadTables

-----------------------------------------------------------------------------
(* The scripts, one by one, from and to the schema of each revision. *)

(* What each table of DataTables that a script changes looks like before it. *)
LEMMA ChangedTables ==
    /\ SchemaOf(1)["reviews"] = reviews /\ SchemaOf(2)["reviews"] = Review
    /\ \A n \in 1 .. 7 : /\ "evaluation_runs" \in TablesAt(n)
                         /\ SchemaOf(n)["evaluation_runs"] = EvaluationRunAt(n)
    /\ SchemaOf(6)["model_runs"] = Compiled(model_runs) /\ SchemaOf(7)["model_runs"] = ModelRun
    /\ SchemaOf(6)["taxonomy_versions"] = Compiled(taxonomy_versions)
    /\ SchemaOf(7)["taxonomy_versions"] = TaxonomyVersion
<1>1. \A n \in 1 .. 7 : {"reviews", "evaluation_runs", "model_runs", "taxonomy_versions"}
        \subseteq TablesAt(n)
  BY DEF TablesAt, Tables
<1>2. /\ TableAt("reviews", 1) = reviews /\ TableAt("reviews", 2) = Review
      /\ \A n \in 1 .. 7 : TableAt("evaluation_runs", n) = EvaluationRunAt(n)
      /\ TableAt("model_runs", 6) = Compiled(model_runs)
      /\ TableAt("model_runs", 7) = ModelRun
      /\ TableAt("taxonomy_versions", 6) = Compiled(taxonomy_versions)
      /\ TableAt("taxonomy_versions", 7) = TaxonomyVersion
  BY HeadTables DEF TableAt
<1> QED
  BY <1>1, <1>2, SchemaTable

LEMMA ScriptsOf ==
    /\ Len(Chain) = 7
    /\ Chain[1] = Baseline /\ Chain[2] = Phase0Ingestion /\ Chain[3] = TaxonomyProvenance
    /\ Chain[4] = JobProvenance /\ Chain[5] = JobOnDelete /\ Chain[6] = PromptVersion
    /\ Chain[7] = UseAlterKeys
  BY DEF Chain

(* 3f8513e22ef8 *)
LEMMA Up2 ==
    ASSUME NEW R, NEW F
    PROVE  Outcomes(Db(SchemaOf(1), R, F), Chain[2].upgrade) = {Db(SchemaOf(2), R, F)}
<1> DEFINE S == SchemaOf(1)
           t == "source_credentials"
           S1 == Created(S, t, source_credentials)
           s1 == CreateTable(t, source_credentials)
           s2 == SetNullable("reviews", "review_text")
<1>1. Chain[2].upgrade = <<s1, s2>>
  BY ScriptsOf DEF Phase0Ingestion
<1>2. /\ DOMAIN S = Tables \ {t} /\ t \in Tables /\ t \notin DOMAIN S
      /\ "reviews" \in DOMAIN S /\ S["reviews"] = reviews
  BY SchemaDomain, ChangedTables DEF TablesAt, Tables
<1>3. source_credentials.keys = {}
  BY DEF source_credentials, Columns
<1>4. Compiled(source_credentials) = source_credentials /\ source_credentials = Models[t]
  BY SameAsModels, CompiledModels DEF Tables
<1>5. /\ Accepts(Db(S, R, F), s1) /\ Effect(Db(S, R, F), s1) = Db(S1, R, F)
  <2> HIDE DEF S, t
  <2> QED
    BY <1>2, <1>3, CreateTableStep
<1>6. /\ DOMAIN S1 = Tables /\ "reviews" \in DOMAIN S1 /\ S1["reviews"] = reviews
      /\ S1[t] = Models[t] /\ \A u \in Tables \ {t} : S1[u] = S[u]
  <2> HIDE DEF S, t
  <2> QED
    BY <1>2, <1>4 DEF Created
<1> HIDE DEF S1
<1>7. /\ Accepts(Db(S1, R, F), s2)
      /\ Effect(Db(S1, R, F), s2) = Db(Put(S1, "reviews", Review), R, F)
  BY <1>6, SetNullableStep, HeadReview
<1>8. Put(S1, "reviews", Review) = SchemaOf(2)
  <2>1. \A u \in Tables : TableAt(u, 2) = IF u = "reviews" THEN Review ELSE S1[u]
    <3> SUFFICES ASSUME NEW u \in Tables
                 PROVE  TableAt(u, 2) = IF u = "reviews" THEN Review ELSE S1[u]
      OBVIOUS
    <3>1. CASE u = "reviews"
      BY <3>1, HeadTables DEF TableAt
    <3>2. CASE u = t
      BY <3>2, <1>6 DEF TableAt
    <3>3. CASE u \notin {"reviews", t}
      <4>1. S1[u] = TableAt(u, 1)
        BY <1>2, <1>6, <3>3, SchemaTable, SchemaDomain
      <4>2. TableAt(u, 1) = TableAt(u, 2)
        BY <3>3, EvaluationRunTables DEF TableAt
      <4> QED
        BY <3>3, <4>1, <4>2
    <3> QED
      BY <3>1, <3>2, <3>3
  <2>2. SchemaOf(2) = [u \in Tables |-> TableAt(u, 2)]
    BY LaterTables DEF SchemaOf
  <2> QED
    BY <1>6, <2>1, <2>2 DEF Put
<1> HIDE DEF S, s1, s2
<1>9. Outcomes(Db(S, R, F), <<s1, s2>>) = {Db(SchemaOf(2), R, F)}
  BY <1>5, <1>7, <1>8, Trace2
<1> QED
  BY <1>1, <1>9 DEF S

LEMMA ModelKeys ==
    /\ \A t \in {"reviews", "sync_runs", "jobs", "settings", "source_credentials"} :
         Models[t].keys = {}
    /\ Models["model_runs"].keys = {Key("taxonomy_version_id", "taxonomy_versions")}
    /\ Models["taxonomy_versions"].keys =
         {Key("parent_version_id", "taxonomy_versions"), Key("generation_model_run_id", "model_runs")}
    /\ Models["taxonomy_nodes"].keys =
         {Cascading("taxonomy_version_id", "taxonomy_versions"),
          Cascading("parent_id", "taxonomy_nodes")}
    /\ Models["taxonomy_changes"].keys =
         {Key("from_version_id", "taxonomy_versions"), Key("to_version_id", "taxonomy_versions")}
    /\ Models["review_analyses"].keys =
         {Cascading("review_id", "reviews"), Key("taxonomy_version_id", "taxonomy_versions"),
          Key("model_run_id", "model_runs")}
    /\ Models["review_aspects"].keys =
         {Cascading("review_analysis_id", "review_analyses"),
          Key("taxonomy_node_id", "taxonomy_nodes")}
    /\ Models["anomalies"].keys =
         {Key("taxonomy_node_id", "taxonomy_nodes"),
          Key("taxonomy_version_id", "taxonomy_versions")}
    /\ Models["insights"].keys =
         {Key("anomaly_id", "anomalies"), Key("taxonomy_node_id", "taxonomy_nodes"),
          Key("generated_by_model_run_id", "model_runs")}
    /\ Models["insight_actions"].keys = {Cascading("insight_id", "insights")}
    /\ Models["evaluation_runs"].keys =
         {Nulling("job_id", "jobs"), Key("taxonomy_version_id", "taxonomy_versions")}
<1>1. /\ Models["reviews"] = Review /\ Models["model_runs"] = ModelRun
      /\ Models["taxonomy_versions"] = TaxonomyVersion /\ Models["taxonomy_nodes"] = TaxonomyNode
      /\ Models["taxonomy_changes"] = TaxonomyChange
      /\ Models["review_analyses"] = ReviewAnalysis /\ Models["review_aspects"] = ReviewAspect
      /\ Models["anomalies"] = Anomaly /\ Models["insights"] = Insight
      /\ Models["insight_actions"] = InsightAction /\ Models["sync_runs"] = SyncRun
      /\ Models["jobs"] = Job /\ Models["evaluation_runs"] = EvaluationRun
      /\ Models["settings"] = Setting /\ Models["source_credentials"] = SourceCredential
  BY DEF Models, Model, Tables
<1>2. /\ Review.keys = {} /\ SyncRun.keys = {} /\ Job.keys = {} /\ Setting.keys = {}
      /\ SourceCredential.keys = {}
      /\ ModelRun.keys = {Key("taxonomy_version_id", "taxonomy_versions")}
      /\ TaxonomyVersion.keys =
           {Key("parent_version_id", "taxonomy_versions"), Key("generation_model_run_id", "model_runs")}
  BY DEF Review, SyncRun, Job, Setting, SourceCredential, ModelRun, TaxonomyVersion, Columns
<1>3. /\ TaxonomyNode.keys =
           {Cascading("taxonomy_version_id", "taxonomy_versions"),
            Cascading("parent_id", "taxonomy_nodes")}
      /\ TaxonomyChange.keys =
           {Key("from_version_id", "taxonomy_versions"), Key("to_version_id", "taxonomy_versions")}
      /\ ReviewAnalysis.keys =
           {Cascading("review_id", "reviews"), Key("taxonomy_version_id", "taxonomy_versions"),
            Key("model_run_id", "model_runs")}
      /\ ReviewAspect.keys =
           {Cascading("review_analysis_id", "review_analyses"),
            Key("taxonomy_node_id", "taxonomy_nodes")}
  BY DEF TaxonomyNode, TaxonomyChange, ReviewAnalysis, ReviewAspect, Columns
<1>4. /\ Anomaly.keys =
           {Key("taxonomy_node_id", "taxonomy_nodes"),
            Key("taxonomy_version_id", "taxonomy_versions")}
      /\ Insight.keys =
           {Key("anomaly_id", "anomalies"), Key("taxonomy_node_id", "taxonomy_nodes"),
            Key("generated_by_model_run_id", "model_runs")}
      /\ InsightAction.keys = {Cascading("insight_id", "insights")}
      /\ EvaluationRun.keys =
           {Nulling("job_id", "jobs"), Key("taxonomy_version_id", "taxonomy_versions")}
  BY DEF Anomaly, Insight, InsightAction, EvaluationRun, Columns
<1> QED
  BY <1>1, <1>2, <1>3, <1>4

(* The tables that keys refer to. *)
Parents == {"taxonomy_versions", "model_runs", "taxonomy_nodes", "reviews", "review_analyses",
            "anomalies", "insights", "jobs"}

LEMMA ParentsOfModels == \A t \in Tables : \A k \in Models[t].keys : k.parent \in Parents
<1> SUFFICES ASSUME NEW t \in Tables, NEW k \in Models[t].keys PROVE k.parent \in Parents
  OBVIOUS
<1>1. CASE t \in {"reviews", "sync_runs", "jobs", "settings", "source_credentials"}
  BY <1>1, ModelKeys
<1>2. CASE t \in {"model_runs", "taxonomy_versions", "taxonomy_nodes", "taxonomy_changes"}
  BY <1>2, ModelKeys, KeyParent DEF Parents
<1>3. CASE t \in {"review_analyses", "review_aspects", "anomalies"}
  BY <1>3, ModelKeys, KeyParent DEF Parents
<1>4. CASE t \in {"insights", "insight_actions", "evaluation_runs"}
  BY <1>4, ModelKeys, KeyParent DEF Parents
<1> QED
  BY <1>1, <1>2, <1>3, <1>4 DEF Tables

(* Every revision has the keys of the models, but for the one that c87f5e6195fd replaces. *)
LEMMA KeysAt ==
    ASSUME NEW n \in 1 .. 7, NEW t \in TablesAt(n), NEW k \in TableAt(t, n).keys
    PROVE  k \in Models[t].keys \/ (t = "evaluation_runs" /\ k = OfJob /\ n = 4)
<1>1. CASE t \notin {"reviews", "evaluation_runs", "model_runs", "taxonomy_versions"}
  BY <1>1 DEF TableAt
<1>2. CASE t = "reviews"
  <2>1. reviews.keys = {}
    BY DEF reviews, Columns
  <2> QED
    BY <1>2, <2>1 DEF TableAt
<1>3. CASE t \in {"model_runs", "taxonomy_versions"}
  <2>1. Compiled(model_runs).keys \subseteq WithKey(Compiled(model_runs), OfVersion).keys
    BY HeadModelRun DEF WithKey, IsTable
  <2>2. Compiled(taxonomy_versions).keys \subseteq WithKey(Compiled(taxonomy_versions), OfRun).keys
    BY HeadTaxonomyVersion DEF WithKey, IsTable
  <2> QED
    BY <1>3, <2>1, <2>2, HeadModelRun, HeadTaxonomyVersion, HeadTables DEF TableAt
<1>4. CASE t = "evaluation_runs"
  <2>1. TableAt(t, n) = EvaluationRunAt(n) /\ Models[t].keys = {OfOldJob, OfVersion}
    BY <1>4, ModelKeys DEF TableAt, OfOldJob, OfVersion
  <2>2. n = 1 \/ n = 2 \/ n = 3 \/ n = 4 \/ n = 5 \/ n = 6 \/ n = 7
    OBVIOUS
  <2> QED
    BY <1>4, <2>1, <2>2, EvaluationRunTables, EvaluationRunFields, EvaluationRunMoves, HeadTables
<1> QED
  BY <1>1, <1>2, <1>3, <1>4

LEMMA ParentsAt ==
    ASSUME NEW n \in 1 .. 7, NEW t \in TablesAt(n), NEW k \in TableAt(t, n).keys
    PROVE  k.parent \in Parents
<1>1. t \in Tables
  BY DEF TablesAt, Tables
<1>2. OfJob.parent \in Parents
  BY KeysOfEvaluationRuns DEF Parents
<1> QED
  BY <1>1, <1>2, KeysAt, ParentsOfModels

(* What the downgrade of 3f8513e22ef8 fills. *)
Texted(R, F) == F \cup (IF "reviews" \in R THEN {<<"reviews", "review_text">>} ELSE {})

LEMMA Down2 ==
    ASSUME NEW R, NEW F
    PROVE  Outcomes(Db(SchemaOf(2), R, F), Chain[2].downgrade)
             = {Db(SchemaOf(1), R \ {"source_credentials"},
                   Without(Texted(R, F), "source_credentials"))}
<1> DEFINE S == SchemaOf(2)
           t == "source_credentials"
           G == Texted(R, F)
           S1 == Put(S, "reviews", reviews)
           s1 == FillNulls("reviews", "review_text")
           s2 == SetRequired("reviews", "review_text")
           s3 == DropTable(t)
<1>1. Chain[2].downgrade = <<s1, s2, s3>>
  BY ScriptsOf DEF Phase0Ingestion
<1>2. /\ DOMAIN S = Tables /\ "reviews" \in DOMAIN S /\ S["reviews"] = Review
      /\ t # "reviews"
  BY SchemaDomain, ChangedTables DEF TablesAt, Tables
<1>3. /\ Accepts(Db(S, R, F), s1) /\ Effect(Db(S, R, F), s1) = Db(S, R, G)
  BY FillNullsStep DEF Texted
<1>4. Required(Review, "review_text") = reviews
  BY HeadReview, TightenAgain
<1>5. /\ Accepts(Db(S, R, G), s2) /\ Effect(Db(S, R, G), s2) = Db(S1, R, G)
  <2>1. "reviews" \in R => <<"reviews", "review_text">> \in G
    BY DEF Texted
  <2> HIDE DEF S, G
  <2> QED
    BY <1>2, <1>4, <2>1, SetRequiredStep
<1>6. DOMAIN S1 = Tables /\ S1["reviews"] = reviews /\ \A u \in Tables \ {"reviews"} : S1[u] = S[u]
  <2> HIDE DEF S
  <2> QED
    BY <1>2 DEF Put
<1> HIDE DEF S1
<1>7. Unreferenced(S1, t)
  <2> SUFFICES ASSUME NEW u \in Tables, NEW k \in S1[u].keys PROVE k.parent # t
    BY <1>6 DEF Unreferenced
  <2>1. CASE u = "reviews"
    <3>1. reviews.keys = {}
      BY DEF reviews, Columns
    <3> QED
      BY <1>6, <2>1, <3>1
  <2>2. CASE u # "reviews"
    <3>1. u \in TablesAt(2) /\ S1[u] = TableAt(u, 2)
      BY <1>2, <1>6, <2>2, SchemaDomain, SchemaTable
    <3>2. k.parent \in Parents
      BY <3>1, ParentsAt
    <3> QED
      BY <3>2 DEF Parents
  <2> QED
    BY <2>1, <2>2
<1>8. /\ Accepts(Db(S1, R, G), s3)
      /\ Effect(Db(S1, R, G), s3) = Db(Dropped(S1, t), R \ {t}, Without(G, t))
  <2> HIDE DEF G
  <2> QED
    BY <1>7, DropTableStep
<1>9. Dropped(S1, t) = SchemaOf(1)
  <2>1. \A u \in Tables \ {t} : S1[u] = TableAt(u, 1)
    <3> SUFFICES ASSUME NEW u \in Tables \ {t} PROVE S1[u] = TableAt(u, 1)
      OBVIOUS
    <3>1. CASE u = "reviews"
      BY <1>6, <3>1 DEF TableAt
    <3>2. CASE u # "reviews"
      <4>1. S1[u] = TableAt(u, 2)
        BY <1>2, <1>6, <3>2, SchemaTable, SchemaDomain
      <4>2. TableAt(u, 1) = TableAt(u, 2)
        BY <3>2, EvaluationRunTables DEF TableAt
      <4> QED
        BY <4>1, <4>2
    <3> QED
      BY <3>1, <3>2
  <2>2. SchemaOf(1) = [u \in Tables \ {t} |-> TableAt(u, 1)]
    BY DEF SchemaOf, TablesAt
  <2> QED
    BY <1>6, <2>1, <2>2 DEF Dropped
<1> HIDE DEF S, G, s1, s2, s3
<1>10. Outcomes(Db(S, R, F), <<s1, s2, s3>>) = {Db(SchemaOf(1), R \ {t}, Without(G, t))}
  BY <1>3, <1>5, <1>8, <1>9, Trace3
<1> QED
  BY <1>1, <1>10 DEF S, G

(* A revision from n to m that only changes evaluation_runs. *)
LEMMA EvaluationRunNext ==
    ASSUME NEW n \in 2 .. 6, NEW m \in 2 .. 6
    PROVE  Put(SchemaOf(n), "evaluation_runs", EvaluationRunAt(m)) = SchemaOf(m)
<1>1. n \in 2 .. 7 /\ m \in 2 .. 7 /\ "evaluation_runs" \in Tables
  BY DEF Tables
<1>2. \A u \in Tables \ {"evaluation_runs"} : TableAt(u, n) = TableAt(u, m)
  BY OnlyEvaluationRuns
<1>3. TableAt("evaluation_runs", m) = EvaluationRunAt(m)
  BY DEF TableAt
<1>4. Put(SchemaOf(n), "evaluation_runs", TableAt("evaluation_runs", m)) = SchemaOf(m)
  BY <1>1, <1>2, PutNext
<1> QED
  BY <1>3, <1>4

(* c4a17b9d2e60 *)
LEMMA Column3 ==
    /\ IsTable(evaluation_runs) /\ "taxonomy_version" \notin evaluation_runs.required \cup evaluation_runs.optional
    /\ "taxonomy_version" \in Versioned.optional
    /\ WithColumn(evaluation_runs, "taxonomy_version") = Versioned
    /\ WithoutColumn(Versioned, "taxonomy_version") = evaluation_runs
<1>1. WithColumn(evaluation_runs, "taxonomy_version") = Versioned
  BY HeadEvaluationRun DEF Versioned
<1>2. /\ IsTable(evaluation_runs) /\ "taxonomy_version" \notin evaluation_runs.required \cup evaluation_runs.optional
      /\ \A u \in evaluation_runs.unique : "taxonomy_version" \notin u
      /\ \A k \in evaluation_runs.keys : k.column # "taxonomy_version"
  BY EvaluationRunFields, KeysOfEvaluationRuns DEF FewColumns
<1>3. WithoutColumn(WithColumn(evaluation_runs, "taxonomy_version"), "taxonomy_version") = evaluation_runs
  BY <1>2, DropAddedColumn
<1>4. "taxonomy_version" \in WithColumn(evaluation_runs, "taxonomy_version").optional
  BY <1>2 DEF WithColumn, IsTable
<1> QED
  BY <1>1, <1>2, <1>3, <1>4

LEMMA Up3 ==
    ASSUME NEW R, NEW F
    PROVE  Outcomes(Db(SchemaOf(2), R, F), Chain[3].upgrade) = {Db(SchemaOf(3), R, F)}
<1> DEFINE S == SchemaOf(2)
           s1 == AddColumn("evaluation_runs", "taxonomy_version")
<1>1. Chain[3].upgrade = <<s1>>
  BY ScriptsOf DEF TaxonomyProvenance
<1>2. S["evaluation_runs"] = evaluation_runs
  BY ChangedTables, EvaluationRunTables
<1>3. Put(S, "evaluation_runs", Versioned) = SchemaOf(3)
  BY EvaluationRunNext, EvaluationRunTables
<1> HIDE DEF S
<1>4. /\ Accepts(Db(S, R, F), s1) /\ Effect(Db(S, R, F), s1) = Db(SchemaOf(3), R, F)
  BY <1>2, <1>3, AddColumnStep, Column3
<1> HIDE DEF s1
<1> QED
  BY <1>1, <1>4, Trace1 DEF S

LEMMA Down3 ==
    ASSUME NEW R, NEW F
    PROVE  Outcomes(Db(SchemaOf(3), R, F), Chain[3].downgrade)
             = {Db(SchemaOf(2), R, Emptied(F, "evaluation_runs", "taxonomy_version"))}
<1> DEFINE S == SchemaOf(3)
           G == Emptied(F, "evaluation_runs", "taxonomy_version")
           s1 == DropColumn("evaluation_runs", "taxonomy_version")
<1>1. Chain[3].downgrade = <<s1>>
  BY ScriptsOf DEF TaxonomyProvenance
<1>2. S["evaluation_runs"] = Versioned
  BY ChangedTables, EvaluationRunTables
<1>3. Put(S, "evaluation_runs", evaluation_runs) = SchemaOf(2)
  BY EvaluationRunNext, EvaluationRunTables
<1> HIDE DEF S
<1>4. /\ "taxonomy_version" \in S["evaluation_runs"].required \cup S["evaluation_runs"].optional
      /\ Put(S, "evaluation_runs", WithoutColumn(S["evaluation_runs"], "taxonomy_version")) = SchemaOf(2)
  BY <1>2, <1>3, Column3
<1>5. /\ Accepts(Db(S, R, F), s1) /\ Effect(Db(S, R, F), s1) = Db(SchemaOf(2), R, G)
  BY <1>4, DropColumnStep
<1> HIDE DEF s1, G
<1>6. Outcomes(Db(S, R, F), <<s1>>) = {Db(SchemaOf(2), R, G)}
  BY <1>5, Trace1
<1> QED
  BY <1>1, <1>6 DEF S, G

(* 537d54fe5104 *)
LEMMA Column6 ==
    /\ IsTable(Survivor) /\ "prompt_version" \notin Survivor.required \cup Survivor.optional
    /\ "prompt_version" \in EvaluationRun.optional
    /\ WithColumn(Survivor, "prompt_version") = EvaluationRun
    /\ WithoutColumn(EvaluationRun, "prompt_version") = Survivor
<1>1. WithColumn(Survivor, "prompt_version") = EvaluationRun
  BY HeadEvaluationRun DEF Versioned
<1>2. /\ IsTable(Survivor) /\ "prompt_version" \notin Survivor.required \cup Survivor.optional
      /\ \A u \in Survivor.unique : "prompt_version" \notin u
      /\ \A k \in Survivor.keys : k.column # "prompt_version"
  <2>1. /\ IsTable(Survivor) /\ "prompt_version" \notin Survivor.required \cup Survivor.optional
    BY EvaluationRunFields, EvaluationRunMoves DEF FewColumns
  <2>2. Survivor.unique = {{"job_id"}} /\ Survivor.keys = {OfVersion, OfOldJob}
    BY EvaluationRunMoves
  <2>3. \A u \in {{"job_id"}} : "prompt_version" \notin u
    OBVIOUS
  <2>4. \A k \in {OfVersion, OfOldJob} : k.column # "prompt_version"
    BY KeysOfEvaluationRuns
  <2> QED
    BY <2>1, <2>2, <2>3, <2>4, Zenon
<1>3. WithoutColumn(WithColumn(Survivor, "prompt_version"), "prompt_version") = Survivor
  BY <1>2, DropAddedColumn
<1>4. "prompt_version" \in WithColumn(Survivor, "prompt_version").optional
  BY <1>2 DEF WithColumn, IsTable
<1> QED
  BY <1>1, <1>2, <1>3, <1>4

LEMMA Up6 ==
    ASSUME NEW R, NEW F
    PROVE  Outcomes(Db(SchemaOf(5), R, F), Chain[6].upgrade) = {Db(SchemaOf(6), R, F)}
<1> DEFINE S == SchemaOf(5)
           s1 == AddColumn("evaluation_runs", "prompt_version")
<1>1. Chain[6].upgrade = <<s1>>
  BY ScriptsOf DEF PromptVersion
<1>2. S["evaluation_runs"] = Survivor
  BY ChangedTables, EvaluationRunTables
<1>3. Put(S, "evaluation_runs", EvaluationRun) = SchemaOf(6)
  BY EvaluationRunNext, EvaluationRunTables
<1> HIDE DEF S
<1>4. /\ Accepts(Db(S, R, F), s1) /\ Effect(Db(S, R, F), s1) = Db(SchemaOf(6), R, F)
  BY <1>2, <1>3, AddColumnStep, Column6
<1> HIDE DEF s1
<1> QED
  BY <1>1, <1>4, Trace1 DEF S

LEMMA Down6 ==
    ASSUME NEW R, NEW F
    PROVE  Outcomes(Db(SchemaOf(6), R, F), Chain[6].downgrade)
             = {Db(SchemaOf(5), R, Emptied(F, "evaluation_runs", "prompt_version"))}
<1> DEFINE S == SchemaOf(6)
           G == Emptied(F, "evaluation_runs", "prompt_version")
           s1 == DropColumn("evaluation_runs", "prompt_version")
<1>1. Chain[6].downgrade = <<s1>>
  BY ScriptsOf DEF PromptVersion
<1>2. S["evaluation_runs"] = EvaluationRun
  BY ChangedTables, EvaluationRunTables
<1>3. Put(S, "evaluation_runs", Survivor) = SchemaOf(5)
  BY EvaluationRunNext, EvaluationRunTables
<1> HIDE DEF S
<1>4. /\ "prompt_version" \in S["evaluation_runs"].required \cup S["evaluation_runs"].optional
      /\ Put(S, "evaluation_runs", WithoutColumn(S["evaluation_runs"], "prompt_version")) = SchemaOf(5)
  BY <1>2, <1>3, Column6
<1>5. /\ Accepts(Db(S, R, F), s1) /\ Effect(Db(S, R, F), s1) = Db(SchemaOf(5), R, G)
  BY <1>4, DropColumnStep
<1> HIDE DEF s1, G
<1>6. Outcomes(Db(S, R, F), <<s1>>) = {Db(SchemaOf(5), R, G)}
  BY <1>5, Trace1
<1> QED
  BY <1>1, <1>6 DEF S, G

(* a71f4c9b3d82 and c87f5e6195fd on evaluation_runs *)
LEMMA JobMoves ==
    /\ "job_id" \notin Versioned.required \cup Versioned.optional
    /\ {"job_id"} \notin Marked.unique /\ OfJob \notin Sole.keys /\ OfOldJob \notin Sole.keys
    /\ WithoutKey(Owned, OfJob) = Sole /\ OfJob \in Owned.keys
    /\ WithoutKey(Survivor, OfOldJob) = Sole /\ OfOldJob \in Survivor.keys
    /\ WithoutUnique(Sole, {"job_id"}) = Marked /\ {"job_id"} \in Sole.unique
    /\ WithoutColumn(Marked, "job_id") = Versioned
    /\ "job_id" \in Marked.required \cup Marked.optional
<1>1. "job_id" \notin Versioned.required \cup Versioned.optional
  BY EvaluationRunMoves, EvaluationRunFields DEF FewColumns
<1>2. /\ {"job_id"} \notin Marked.unique /\ OfJob \notin Sole.keys /\ OfOldJob \notin Sole.keys
      /\ OfJob \in Owned.keys /\ OfOldJob \in Survivor.keys /\ {"job_id"} \in Sole.unique
      /\ "job_id" \in Marked.required \cup Marked.optional
  BY EvaluationRunMoves, KeysOfEvaluationRuns
<1>3. WithoutKey(Owned, OfJob) = Sole
  BY <1>2, EvaluationRunMoves, DropAddedKey DEF Owned
<1>4. WithoutKey(Survivor, OfOldJob) = Sole
  BY <1>2, EvaluationRunMoves, DropAddedKey DEF Survivor
<1>5. WithoutUnique(Sole, {"job_id"}) = Marked
  BY <1>2, EvaluationRunMoves, DropAddedUnique DEF Sole
<1>6. WithoutColumn(Marked, "job_id") = Versioned
  <2>1. /\ \A u \in Versioned.unique : "job_id" \notin u
        /\ \A k \in Versioned.keys : k.column # "job_id"
    BY EvaluationRunMoves, KeysOfEvaluationRuns
  <2> QED
    BY <1>1, <2>1, EvaluationRunMoves, DropAddedColumn DEF Marked
<1> QED
  BY <1>1, <1>2, <1>3, <1>4, <1>5, <1>6

(* evaluation_runs.job_id refers to a row of jobs that is there. *)
JobThere(R, F) == <<"evaluation_runs", "job_id">> \in F => "jobs" \in R

LEMMA LaterDomain == \A n \in 2 .. 7 : DOMAIN SchemaOf(n) = Tables
  BY SchemaDomain, LaterTables

LEMMA SomeTables ==
    {"jobs", "evaluation_runs", "model_runs", "taxonomy_versions"} \subseteq Tables
  BY DEF Tables

(* a71f4c9b3d82 *)
LEMMA Up4 ==
    ASSUME NEW R, NEW F, JobThere(R, F)
    PROVE  Outcomes(Db(SchemaOf(3), R, F), Chain[4].upgrade) = {Db(SchemaOf(4), R, F)}
<1> DEFINE e == "evaluation_runs"
           S == SchemaOf(3)
           S1 == Put(S, e, Marked)
           S2 == Put(S1, e, Sole)
           s1 == AddColumn(e, "job_id")
           s2 == AddUnique(e, "job_id")
           s3 == AddForeignKey(e, OfJob)
<1>1. Chain[4].upgrade = <<s1, s2, s3>>
  BY ScriptsOf DEF JobProvenance, OfJob
<1>2. S[e] = Versioned /\ DOMAIN S = Tables /\ e \in DOMAIN S
  BY ChangedTables, EvaluationRunTables, LaterDomain, SomeTables
<1>3. Put(S, e, Owned) = SchemaOf(4)
  BY EvaluationRunNext, EvaluationRunTables
<1> HIDE DEF S
<1>4. S1[e] = Marked /\ DOMAIN S1 = Tables /\ e \in DOMAIN S1
  BY <1>2, PutFacts
<1>5. Accepts(Db(S, R, F), s1) /\ Effect(Db(S, R, F), s1) = Db(S1, R, F)
  BY <1>2, AddColumnStep, JobMoves DEF Marked
<1>6. Put(S1, e, Owned) = SchemaOf(4)
  BY <1>3, PutTwice
<1> HIDE DEF S1
<1>7. S2[e] = Sole /\ DOMAIN S2 = Tables /\ e \in DOMAIN S2
  BY <1>4, PutFacts
<1>8. Accepts(Db(S1, R, F), s2) /\ Effect(Db(S1, R, F), s2) = Db(S2, R, F)
  BY <1>4, AddUniqueStep, JobMoves DEF Sole
<1>9. Put(S2, e, Owned) = SchemaOf(4)
  BY <1>6, PutTwice
<1> HIDE DEF S2
<1>10. OfJob \notin S2[e].keys /\ OfJob.parent \in DOMAIN S2 /\ OfJob.parent = "jobs" /\ OfJob.column = "job_id"
  BY <1>7, JobMoves, KeysOfEvaluationRuns, SomeTables
<1>11. Accepts(Db(S2, R, F), s3) /\ Effect(Db(S2, R, F), s3) = Db(SchemaOf(4), R, F)
  BY <1>7, <1>9, <1>10, AddForeignKeyStep DEF Owned, JobThere
<1> HIDE DEF s1, s2, s3, e
<1>12. Outcomes(Db(S, R, F), <<s1, s2, s3>>) = {Db(SchemaOf(4), R, F)}
  BY <1>5, <1>8, <1>11, Trace3
<1> QED
  BY <1>1, <1>12 DEF S

LEMMA Down4 ==
    ASSUME NEW R, NEW F
    PROVE  Outcomes(Db(SchemaOf(4), R, F), Chain[4].downgrade)
             = {Db(SchemaOf(3), R, Emptied(F, "evaluation_runs", "job_id"))}
<1> DEFINE e == "evaluation_runs"
           S == SchemaOf(4)
           S1 == Put(S, e, Sole)
           S2 == Put(S1, e, Marked)
           G == Emptied(F, e, "job_id")
           s1 == DropForeignKey(e, OfJob)
           s2 == DropUnique(e, "job_id")
           s3 == DropColumn(e, "job_id")
<1>1. Chain[4].downgrade = <<s1, s2, s3>>
  BY ScriptsOf DEF JobProvenance, OfJob
<1>2. S[e] = Owned /\ e \in DOMAIN S
  BY ChangedTables, EvaluationRunTables, LaterDomain, SomeTables
<1>3. Put(S, e, Versioned) = SchemaOf(3)
  BY EvaluationRunNext, EvaluationRunTables
<1> HIDE DEF S
<1>4. S1[e] = Sole /\ e \in DOMAIN S1
  BY <1>2, PutFacts
<1>5. Accepts(Db(S, R, F), s1) /\ Effect(Db(S, R, F), s1) = Db(S1, R, F)
  BY <1>2, DropForeignKeyStep, JobMoves
<1>6. Put(S1, e, Versioned) = SchemaOf(3)
  BY <1>3, PutTwice
<1> HIDE DEF S1
<1>7. S2[e] = Marked /\ e \in DOMAIN S2
  BY <1>4, PutFacts
<1>8. Accepts(Db(S1, R, F), s2) /\ Effect(Db(S1, R, F), s2) = Db(S2, R, F)
  BY <1>4, DropUniqueStep, JobMoves
<1>9. Put(S2, e, Versioned) = SchemaOf(3)
  BY <1>6, PutTwice
<1> HIDE DEF S2
<1>10. /\ "job_id" \in S2[e].required \cup S2[e].optional
       /\ Put(S2, e, WithoutColumn(S2[e], "job_id")) = SchemaOf(3)
  BY <1>7, <1>9, JobMoves
<1>11. Accepts(Db(S2, R, F), s3) /\ Effect(Db(S2, R, F), s3) = Db(SchemaOf(3), R, G)
  BY <1>10, DropColumnStep
<1> HIDE DEF s1, s2, s3, e, G
<1>12. Outcomes(Db(S, R, F), <<s1, s2, s3>>) = {Db(SchemaOf(3), R, G)}
  BY <1>5, <1>8, <1>11, Trace3
<1> QED
  BY <1>1, <1>12 DEF S, G, e

(* c87f5e6195fd *)
(* From revision n to m the key of job_id is exchanged for another. *)
Rekeys(n, m, from, to) ==
    /\ WithoutKey(EvaluationRunAt(n), from) = Sole /\ from \in EvaluationRunAt(n).keys
    /\ EvaluationRunAt(m) = WithKey(Sole, to) /\ to \notin Sole.keys
    /\ to.parent = "jobs" /\ to.column = "job_id"

LEMMA Rekey ==
    ASSUME NEW R, NEW F, JobThere(R, F), NEW n \in 2 .. 6, NEW m \in 2 .. 6, NEW from, NEW to,
           Rekeys(n, m, from, to)
    PROVE  Outcomes(Db(SchemaOf(n), R, F), Rekeyed(from, to)) = {Db(SchemaOf(m), R, F)}
<1> DEFINE e == "evaluation_runs"
           S == SchemaOf(n)
           S1 == Put(S, e, Sole)
           s1 == DropForeignKey(e, from)
           s2 == AddForeignKey(e, to)
<1>1. S[e] = EvaluationRunAt(n) /\ DOMAIN S = Tables /\ e \in DOMAIN S
  BY ChangedTables, LaterDomain, SomeTables
<1>2. Put(S, e, EvaluationRunAt(m)) = SchemaOf(m)
  BY EvaluationRunNext
<1> HIDE DEF S
<1>3. S1[e] = Sole /\ DOMAIN S1 = Tables /\ e \in DOMAIN S1
  BY <1>1, PutFacts
<1>4. Accepts(Db(S, R, F), s1) /\ Effect(Db(S, R, F), s1) = Db(S1, R, F)
  BY <1>1, DropForeignKeyStep DEF Rekeys
<1>5. Put(S1, e, EvaluationRunAt(m)) = SchemaOf(m)
  BY <1>2, PutTwice
<1> HIDE DEF S1
<1>6. Accepts(Db(S1, R, F), s2) /\ Effect(Db(S1, R, F), s2) = Db(SchemaOf(m), R, F)
  BY <1>3, <1>5, SomeTables, AddForeignKeyStep DEF JobThere, Rekeys
<1> HIDE DEF s1, s2, e
<1>7. Outcomes(Db(S, R, F), <<s1, s2>>) = {Db(SchemaOf(m), R, F)}
  BY <1>4, <1>6, Trace2
<1> QED
  BY <1>7 DEF S, Rekeyed, s1, s2, e

LEMMA Move5 ==
    ASSUME NEW R, NEW F, JobThere(R, F)
    PROVE  /\ Outcomes(Db(SchemaOf(4), R, F), Chain[5].upgrade) = {Db(SchemaOf(5), R, F)}
           /\ Outcomes(Db(SchemaOf(5), R, F), Chain[5].downgrade) = {Db(SchemaOf(4), R, F)}
<1>1. Chain[5].upgrade = Rekeyed(OfJob, OfOldJob) /\ Chain[5].downgrade = Rekeyed(OfOldJob, OfJob)
  BY ScriptsOf DEF JobOnDelete, OfJob, OfOldJob
<1>2. Rekeys(4, 5, OfJob, OfOldJob)
  <2>1. EvaluationRunAt(4) = Owned /\ EvaluationRunAt(5) = WithKey(Sole, OfOldJob)
    BY EvaluationRunTables DEF Survivor
  <2> QED
    BY <2>1, JobMoves, KeysOfEvaluationRuns DEF Rekeys
<1>3. Rekeys(5, 4, OfOldJob, OfJob)
  <2>1. EvaluationRunAt(5) = Survivor /\ EvaluationRunAt(4) = WithKey(Sole, OfJob)
    BY EvaluationRunTables DEF Owned
  <2> QED
    BY <2>1, JobMoves, KeysOfEvaluationRuns DEF Rekeys
<1>4. Outcomes(Db(SchemaOf(4), R, F), Rekeyed(OfJob, OfOldJob)) = {Db(SchemaOf(5), R, F)}
  BY <1>2, Rekey
<1>5. Outcomes(Db(SchemaOf(5), R, F), Rekeyed(OfOldJob, OfJob)) = {Db(SchemaOf(4), R, F)}
  BY <1>3, Rekey
<1> QED
  BY <1>1, <1>4, <1>5

(* e2b7c4a91f36 *)
LEMMA VersionMoves ==
    /\ OfVersion \notin Compiled(model_runs).keys /\ OfVersion \in ModelRun.keys
    /\ WithKey(Compiled(model_runs), OfVersion) = ModelRun
    /\ WithoutKey(ModelRun, OfVersion) = Compiled(model_runs)
    /\ OfRun \notin Compiled(taxonomy_versions).keys /\ OfRun \in TaxonomyVersion.keys
    /\ WithKey(Compiled(taxonomy_versions), OfRun) = TaxonomyVersion
    /\ WithoutKey(TaxonomyVersion, OfRun) = Compiled(taxonomy_versions)
    /\ OfVersion.parent = "taxonomy_versions" /\ OfVersion.column = "taxonomy_version_id"
    /\ OfRun.parent = "model_runs" /\ OfRun.column = "generation_model_run_id"
<1>1. /\ OfVersion \notin Compiled(model_runs).keys
      /\ WithKey(Compiled(model_runs), OfVersion) = ModelRun
      /\ WithoutKey(ModelRun, OfVersion) = Compiled(model_runs)
  BY HeadModelRun, DropAddedKey
<1>2. /\ OfRun \notin Compiled(taxonomy_versions).keys
      /\ WithKey(Compiled(taxonomy_versions), OfRun) = TaxonomyVersion
      /\ WithoutKey(TaxonomyVersion, OfRun) = Compiled(taxonomy_versions)
  BY HeadTaxonomyVersion, DropAddedKey
<1>3. OfVersion \in ModelRun.keys /\ OfRun \in TaxonomyVersion.keys
  BY DEF ModelRun, TaxonomyVersion, Columns, OfVersion, OfRun
<1>4. /\ OfVersion.parent = "taxonomy_versions" /\ OfVersion.column = "taxonomy_version_id"
      /\ OfRun.parent = "model_runs" /\ OfRun.column = "generation_model_run_id"
  BY DEF OfVersion, OfRun, Key, ForeignKey
<1> QED
  BY <1>1, <1>2, <1>3, <1>4

(* The two tables that refer to each other do. *)
VersionsThere(R, F) ==
    /\ <<"model_runs", "taxonomy_version_id">> \in F => "taxonomy_versions" \in R
    /\ <<"taxonomy_versions", "generation_model_run_id">> \in F => "model_runs" \in R

LEMMA PutTwo ==
    ASSUME NEW S, NEW S1, DOMAIN S = Tables, S = [t \in Tables |-> S[t]],
           S1 = [t \in Tables |-> S1[t]],
           \A t \in Tables \ {"model_runs", "taxonomy_versions"} : S[t] = S1[t]
    PROVE  /\ Put(Put(S, "model_runs", S1["model_runs"]), "taxonomy_versions",
                  S1["taxonomy_versions"]) = S1
           /\ Put(Put(S, "taxonomy_versions", S1["taxonomy_versions"]), "model_runs",
                  S1["model_runs"]) = S1
  BY DEF Put

LEMMA VersionTables ==
    /\ \A n \in {6, 7} : /\ DOMAIN SchemaOf(n) = Tables
                         /\ SchemaOf(n) = [t \in Tables |-> SchemaOf(n)[t]]
    /\ \A t \in Tables \ {"model_runs", "taxonomy_versions"} : SchemaOf(6)[t] = SchemaOf(7)[t]
<1>1. /\ SchemaOf(6) = [t \in Tables |-> TableAt(t, 6)]
      /\ SchemaOf(7) = [t \in Tables |-> TableAt(t, 7)]
  BY LaterTables DEF SchemaOf
<1>2. \A t \in Tables \ {"model_runs", "taxonomy_versions"} : TableAt(t, 6) = TableAt(t, 7)
  BY EvaluationRunTables DEF TableAt
<1> QED
  BY <1>1, <1>2

LEMMA Up7 ==
    ASSUME NEW R, NEW F, VersionsThere(R, F)
    PROVE  Outcomes(Db(SchemaOf(6), R, F), Chain[7].upgrade) = {Db(SchemaOf(7), R, F)}
<1> DEFINE a == "model_runs"
           b == "taxonomy_versions"
           S == SchemaOf(6)
           S1 == Put(S, a, ModelRun)
           s1 == AddForeignKey(a, OfVersion)
           s2 == AddForeignKey(b, OfRun)
<1>1. Chain[7].upgrade = <<s1, s2>>
  BY ScriptsOf DEF UseAlterKeys, OfVersion, OfRun
<1>2. /\ S[a] = Compiled(model_runs) /\ S[b] = Compiled(taxonomy_versions) /\ a # b
      /\ DOMAIN S = Tables /\ a \in Tables /\ b \in Tables
  BY ChangedTables, LaterDomain, SomeTables
<1>3. Put(S1, b, TaxonomyVersion) = SchemaOf(7)
  <2>1. SchemaOf(7)[a] = ModelRun /\ SchemaOf(7)[b] = TaxonomyVersion
    BY ChangedTables
  <2> QED
    BY <2>1, PutTwo, VersionTables
<1> HIDE DEF S
<1>4. S1[b] = Compiled(taxonomy_versions) /\ DOMAIN S1 = Tables
  BY <1>2, PutFacts
<1>5. Accepts(Db(S, R, F), s1) /\ Effect(Db(S, R, F), s1) = Db(S1, R, F)
  BY <1>2, AddForeignKeyStep, VersionMoves DEF VersionsThere
<1> HIDE DEF S1
<1>6. Accepts(Db(S1, R, F), s2) /\ Effect(Db(S1, R, F), s2) = Db(SchemaOf(7), R, F)
  BY <1>2, <1>3, <1>4, AddForeignKeyStep, VersionMoves DEF VersionsThere
<1> HIDE DEF s1, s2, a, b
<1>7. Outcomes(Db(S, R, F), <<s1, s2>>) = {Db(SchemaOf(7), R, F)}
  BY <1>5, <1>6, Trace2
<1> QED
  BY <1>1, <1>7 DEF S

LEMMA Down7 ==
    ASSUME NEW R, NEW F
    PROVE  Outcomes(Db(SchemaOf(7), R, F), Chain[7].downgrade) = {Db(SchemaOf(6), R, F)}
<1> DEFINE a == "model_runs"
           b == "taxonomy_versions"
           S == SchemaOf(7)
           S1 == Put(S, b, Compiled(taxonomy_versions))
           s1 == DropForeignKey(b, OfRun)
           s2 == DropForeignKey(a, OfVersion)
<1>1. Chain[7].downgrade = <<s1, s2>>
  BY ScriptsOf DEF UseAlterKeys, OfVersion, OfRun
<1>2. /\ S[a] = ModelRun /\ S[b] = TaxonomyVersion /\ a # b
      /\ DOMAIN S = Tables /\ a \in Tables /\ b \in Tables
  BY ChangedTables, LaterDomain, SomeTables
<1>3. Put(S1, a, Compiled(model_runs)) = SchemaOf(6)
  <2>1. SchemaOf(6)[a] = Compiled(model_runs) /\ SchemaOf(6)[b] = Compiled(taxonomy_versions)
    BY ChangedTables
  <2> QED
    BY <2>1, PutTwo, VersionTables
<1> HIDE DEF S
<1>4. S1[a] = ModelRun /\ DOMAIN S1 = Tables
  BY <1>2, PutFacts
<1>5. Accepts(Db(S, R, F), s1) /\ Effect(Db(S, R, F), s1) = Db(S1, R, F)
  BY <1>2, DropForeignKeyStep, VersionMoves
<1> HIDE DEF S1
<1>6. Accepts(Db(S1, R, F), s2) /\ Effect(Db(S1, R, F), s2) = Db(SchemaOf(6), R, F)
  BY <1>3, <1>4, DropForeignKeyStep, VersionMoves
<1> HIDE DEF s1, s2, a, b
<1>7. Outcomes(Db(S, R, F), <<s1, s2>>) = {Db(SchemaOf(6), R, F)}
  BY <1>5, <1>6, Trace2
<1> QED
  BY <1>1, <1>7 DEF S

-----------------------------------------------------------------------------
(* Every script, on the rows that the program can have stored. *)

LEMMA FitNext ==
    ASSUME NEW n \in 0 .. 6, NEW R, NEW F, Fit(n, R, F)
    PROVE  Fit(n + 1, R, F)
<1>1. TablesAt(n) \subseteq TablesAt(n + 1)
  BY DEF TablesAt
<1>2. n + 1 < 4 => n < 4
  OBVIOUS
<1> QED
  BY <1>1, <1>2 DEF Fit

LEMMA FitThere ==
    ASSUME NEW n, NEW R, NEW F, Fit(n, R, F)
    PROVE  JobThere(R, F) /\ VersionsThere(R, F)
  BY SomeReferences DEF Fit, JobThere, VersionsThere

(* Every upgrade goes through, whatever rows there are, and leaves them alone. *)
LEMMA UpgradeOutcome ==
    ASSUME NEW n \in 0 .. 6, NEW R, NEW F, Fit(n, R, F)
    PROVE  Outcomes(Db(SchemaOf(n), R, F), Chain[n + 1].upgrade) = {Db(SchemaOf(n + 1), R, F)}
<1>1. JobThere(R, F) /\ VersionsThere(R, F)
  BY FitThere
<1>2. CASE n = 0
  BY <1>2, ScriptsOf, BaselineUp
<1>3. CASE n = 1
  BY <1>3, Up2
<1>4. CASE n = 2
  BY <1>4, Up3
<1>5. CASE n = 3
  BY <1>1, <1>5, Up4
<1>6. CASE n = 4
  BY <1>1, <1>6, Move5
<1>7. CASE n = 5
  BY <1>7, Up6
<1>8. CASE n = 6
  BY <1>1, <1>8, Up7
<1> QED
  BY <1>2, <1>3, <1>4, <1>5, <1>6, <1>7, <1>8

(* Fit is about fewer filled columns in fewer revisions. *)
LEMMA FitLess ==
    ASSUME NEW n, NEW m, NEW R, NEW F, Fit(n, R, F), NEW G, G \subseteq F,
           TablesAt(m) = TablesAt(n), m < 4 => <<"evaluation_runs", "job_id">> \notin G
    PROVE  Fit(m, R, G)
  BY DEF Fit

LEMMA FitBeforePhase0 ==
    ASSUME NEW R, NEW F, Fit(2, R, F)
    PROVE  Fit(1, R \ {"source_credentials"}, Without(Texted(R, F), "source_credentials"))
<1> DEFINE t == "source_credentials"
           G == Without(Texted(R, F), t)
<1>1. R \ {t} \subseteq TablesAt(1)
  BY DEF Fit, TablesAt
<1>2. ASSUME NEW c \in G PROVE c[1] \in R \ {t} /\ (c \in F \/ c = <<"reviews", "review_text">>)
  BY <1>2 DEF Without, Texted, Fit
<1>3. <<"evaluation_runs", "job_id">> \notin G
  BY <1>2 DEF Fit
<1>4. ASSUME NEW r \in References, <<r.table, r.column>> \in G
      PROVE  r.parent \in R \ {t}
  <2>1. PICK u \in Tables : \E k \in Models[u].keys :
            r = [table |-> u, column |-> k.column, parent |-> k.parent]
    BY ReferencesAreKeys
  <2>2. PICK k \in Models[u].keys : r = [table |-> u, column |-> k.column, parent |-> k.parent]
    BY <2>1
  <2>3. u # "reviews" /\ r.table = u /\ r.parent = k.parent
    BY <2>2, ModelKeys
  <2>4. <<r.table, r.column>> \in F
    BY <1>2, <1>4, <2>3
  <2>5. r.parent \in R /\ r.parent # t
    BY <2>2, <2>3, <2>4, ParentsOfModels DEF Fit, Parents
  <2> QED
    BY <2>5
<1> HIDE DEF G, t
<1> QED
  BY <1>1, <1>2, <1>3, <1>4 DEF Fit, G, t

(* So does every downgrade; the rows that stay refer to rows that stay. *)
LEMMA DowngradeOutcome ==
    ASSUME NEW n \in 1 .. 7, NEW R, NEW F, Fit(n, R, F)
    PROVE  \E R1, F1 : /\ Outcomes(Db(SchemaOf(n), R, F), Chain[n].downgrade)
                            = {Db(SchemaOf(n - 1), R1, F1)}
                       /\ Fit(n - 1, R1, F1)
<1>1. JobThere(R, F) /\ VersionsThere(R, F)
  BY FitThere
<1>2. \A t, c : Emptied(F, t, c) \subseteq F /\ <<t, c>> \notin Emptied(F, t, c)
  BY DEF Emptied
<1>3. \A i, m \in 2 .. 7 : TablesAt(i) = TablesAt(m)
  BY LaterTables
<1>4. CASE n = 1
  <2>1. Outcomes(Db(SchemaOf(1), R, F), Baseline.downgrade) = {Db(SchemaOf(0), {}, {})}
    BY <1>4, BaselineDown DEF Fit
  <2>2. Fit(0, {}, {})
    BY DEF Fit
  <2>3. n - 1 = 0 /\ Chain[n].downgrade = Baseline.downgrade
    BY <1>4, ScriptsOf
  <2> QED
    BY <1>4, <2>1, <2>2, <2>3
<1>5. CASE n = 2
  <2> DEFINE R1 == R \ {"source_credentials"}
             F1 == Without(Texted(R, F), "source_credentials")
  <2>1. n - 1 = 1 /\ Fit(1, R1, F1)
    BY <1>5, FitBeforePhase0
  <2>2. Outcomes(Db(SchemaOf(2), R, F), Chain[2].downgrade) = {Db(SchemaOf(1), R1, F1)}
    BY Down2
  <2> HIDE DEF R1, F1
  <2> QED
    BY <1>5, <2>1, <2>2
<1>6. CASE n = 3
  <2> DEFINE G == Emptied(F, "evaluation_runs", "taxonomy_version")
  <2>1. G \subseteq F /\ Fit(3, R, F) /\ TablesAt(2) = TablesAt(3)
    BY <1>3, <1>6 DEF Emptied
  <2>2. Outcomes(Db(SchemaOf(3), R, F), Chain[3].downgrade) = {Db(SchemaOf(2), R, G)}
    BY Down3
  <2> HIDE DEF G
  <2>3. 2 < 4 => <<"evaluation_runs", "job_id">> \notin G
    BY <2>1 DEF Fit
  <2>4. n - 1 = 2 /\ Fit(2, R, G)
    BY <2>1, <2>3, <1>6, FitLess
  <2> HIDE DEF G
  <2> QED
    BY <1>6, <2>2, <2>4
<1>7. CASE n = 4
  <2> DEFINE G == Emptied(F, "evaluation_runs", "job_id")
  <2>1. n - 1 = 3 /\ Fit(3, R, G)
    BY <1>2, <1>3, <1>7, FitLess
  <2>2. Outcomes(Db(SchemaOf(4), R, F), Chain[4].downgrade) = {Db(SchemaOf(3), R, G)}
    BY Down4
  <2> HIDE DEF G
  <2> QED
    BY <1>7, <2>1, <2>2
<1>8. CASE n = 5
  <2>1. n - 1 = 4 /\ Fit(4, R, F)
    BY <1>3, <1>8, FitLess
  <2>2. Outcomes(Db(SchemaOf(5), R, F), Chain[5].downgrade) = {Db(SchemaOf(4), R, F)}
    BY <1>1, Move5
  <2> QED
    BY <1>8, <2>1, <2>2
<1>9. CASE n = 6
  <2> DEFINE G == Emptied(F, "evaluation_runs", "prompt_version")
  <2>1. G \subseteq F /\ Fit(6, R, F) /\ TablesAt(5) = TablesAt(6)
    BY <1>3, <1>9 DEF Emptied
  <2>2. Outcomes(Db(SchemaOf(6), R, F), Chain[6].downgrade) = {Db(SchemaOf(5), R, G)}
    BY Down6
  <2> HIDE DEF G
  <2>3. 5 < 4 => <<"evaluation_runs", "job_id">> \notin G
    BY <2>1 DEF Fit
  <2>4. n - 1 = 5 /\ Fit(5, R, G)
    BY <2>1, <2>3, <1>9, FitLess
  <2> HIDE DEF G
  <2> QED
    BY <1>9, <2>2, <2>4
<1>10. CASE n = 7
  <2>1. n - 1 = 6 /\ Fit(6, R, F)
    BY <1>3, <1>10, FitLess
  <2>2. Outcomes(Db(SchemaOf(7), R, F), Chain[7].downgrade) = {Db(SchemaOf(6), R, F)}
    BY Down7
  <2> QED
    BY <1>10, <2>1, <2>2
<1> QED
  BY <1>4, <1>5, <1>6, <1>7, <1>8, <1>9, <1>10

-----------------------------------------------------------------------------
(* References. *)

(* A column refers to the same table wherever it occurs. *)
ParentOf(c) ==
    CASE c = "parent_id"          -> "taxonomy_nodes"
      [] c = "taxonomy_node_id"   -> "taxonomy_nodes"
      [] c = "review_id"          -> "reviews"
      [] c = "review_analysis_id" -> "review_analyses"
      [] c = "anomaly_id"         -> "anomalies"
      [] c = "insight_id"         -> "insights"
      [] c = "job_id"             -> "jobs"
      [] c \in {"model_run_id", "generation_model_run_id", "generated_by_model_run_id"} ->
            "model_runs"
      [] OTHER                    -> "taxonomy_versions"

LEMMA ParentsByColumn == \A t \in Tables : \A k \in Models[t].keys : k.parent = ParentOf(k.column)
<1> SUFFICES ASSUME NEW t \in Tables, NEW k \in Models[t].keys PROVE k.parent = ParentOf(k.column)
  OBVIOUS
<1>1. CASE t \in {"reviews", "sync_runs", "jobs", "settings", "source_credentials"}
  BY <1>1, ModelKeys
<1>2. CASE t \in {"model_runs", "taxonomy_versions", "taxonomy_nodes", "taxonomy_changes"}
  BY <1>2, ModelKeys, KeyParent, KeyColumn DEF ParentOf
<1>3. CASE t \in {"review_analyses", "review_aspects", "anomalies"}
  BY <1>3, ModelKeys, KeyParent, KeyColumn DEF ParentOf
<1>4. CASE t \in {"insights", "insight_actions", "evaluation_runs"}
  BY <1>4, ModelKeys, KeyParent, KeyColumn DEF ParentOf
<1> QED
  BY <1>1, <1>2, <1>3, <1>4 DEF Tables

LEMMA ReferenceParent ==
    \A r \in References : /\ r.table \in Tables /\ r.table # "reviews" /\ r.parent = ParentOf(r.column)
                          /\ \E k \in Models[r.table].keys : k.column = r.column /\ k.parent = r.parent
<1> SUFFICES ASSUME NEW r \in References
             PROVE  /\ r.table \in Tables /\ r.table # "reviews" /\ r.parent = ParentOf(r.column)
                    /\ \E k \in Models[r.table].keys : k.column = r.column /\ k.parent = r.parent
  OBVIOUS
<1>1. PICK u \in Tables : \E k \in Models[u].keys :
          r = [table |-> u, column |-> k.column, parent |-> k.parent]
  BY ReferencesAreKeys
<1>2. PICK k \in Models[u].keys : r = [table |-> u, column |-> k.column, parent |-> k.parent]
  BY <1>1
<1>3. r.table = u /\ r.column = k.column /\ r.parent = k.parent
  BY <1>2
<1>4. u # "reviews"
  BY <1>2, ModelKeys
<1> QED
  BY <1>2, <1>3, <1>4, ParentsByColumn

LEMMA PrunableTables ==
    /\ Prunable = {"anomalies", "insights", "insight_actions", "sync_runs", "jobs", "settings",
                   "source_credentials"}
    /\ Prunable \cap Retained = {}
  BY HeadTables DEF Prunable, Retained, Tables

(* The keys on tables that may be pruned. *)
LEMMA PrunableModelKeys ==
    ASSUME NEW t \in Tables, NEW k \in Models[t].keys, k.parent \in Prunable
    PROVE  \/ t = "insights" /\ k = Key("anomaly_id", "anomalies")
           \/ t = "insight_actions" /\ k = Cascading("insight_id", "insights")
           \/ t = "evaluation_runs" /\ k = OfOldJob
<1>1. CASE t \in {"reviews", "sync_runs", "jobs", "settings", "source_credentials"}
  BY <1>1, ModelKeys
<1>2. CASE t \in {"model_runs", "taxonomy_versions", "taxonomy_nodes", "taxonomy_changes"}
  BY <1>2, ModelKeys, KeyParent, PrunableTables
<1>3. CASE t \in {"review_analyses", "review_aspects", "anomalies"}
  BY <1>3, ModelKeys, KeyParent, PrunableTables
<1>4. CASE t \in {"insights", "insight_actions", "evaluation_runs"}
  BY <1>4, ModelKeys, KeyParent, PrunableTables DEF OfOldJob
<1> QED
  BY <1>1, <1>2, <1>3, <1>4 DEF Tables

LEMMA PrunableKeys ==
    ASSUME NEW n \in 1 .. 7, NEW u \in TablesAt(n), NEW k \in TableAt(u, n).keys,
           k.parent \in Prunable
    PROVE  /\ k.onDelete = "CASCADE" => u = "insight_actions" /\ k.parent = "insights"
           /\ n >= 5 /\ k.parent = "jobs" => k.onDelete = "SET NULL"
           /\ k.parent # "insight_actions"
<1>1. u \in Tables
  BY DEF TablesAt, Tables
<1>2. CASE k \in Models[u].keys
  <2>1. \/ u = "insights" /\ k = Key("anomaly_id", "anomalies")
        \/ u = "insight_actions" /\ k = Cascading("insight_id", "insights")
        \/ u = "evaluation_runs" /\ k = OfOldJob
    BY <1>1, <1>2, PrunableModelKeys
  <2>2. CASE k = Key("anomaly_id", "anomalies")
    <3>1. k.onDelete = "NO ACTION" /\ k.parent = "anomalies"
      BY <2>2, KeyParent, KeyOnDelete
    <3> QED
      BY <3>1
  <2>3. CASE u = "insight_actions" /\ k = Cascading("insight_id", "insights")
    <3>1. k.onDelete = "CASCADE" /\ k.parent = "insights"
      BY <2>3, KeyParent, KeyOnDelete
    <3> QED
      BY <2>3, <3>1
  <2>4. CASE k = OfOldJob
    <3>1. k.onDelete = "SET NULL" /\ k.parent = "jobs"
      BY <2>4, KeysOfEvaluationRuns
    <3> QED
      BY <3>1
  <2> QED
    BY <2>1, <2>2, <2>3, <2>4
<1>3. CASE k = OfJob /\ n = 4
  <2>1. k.onDelete = "NO ACTION" /\ k.parent = "jobs"
    BY <1>3, KeysOfEvaluationRuns
  <2>2. ~(n >= 5)
    BY <1>3
  <2> QED
    BY <2>1, <2>2
<1>4. k \in Models[u].keys \/ (k = OfJob /\ n = 4)
  BY KeysAt
<1> QED
  BY <1>2, <1>3, <1>4, Zenon

(* A reference to a table that may be pruned has its key at every revision. *)
LEMMA PrunableReference ==
    ASSUME NEW n \in 1 .. 7, NEW r \in References, r.parent \in Prunable, r.table \in TablesAt(n),
           n < 4 => <<r.table, r.column>> # <<"evaluation_runs", "job_id">>
    PROVE  \E k \in TableAt(r.table, n).keys :
              /\ k.column = r.column /\ k.parent = r.parent
              /\ k.onDelete \in {"NO ACTION", "CASCADE", "SET NULL"}
<1>1. PICK k \in Models[r.table].keys : k.column = r.column /\ k.parent = r.parent
  BY ReferenceParent
<1>2. \/ r.table = "insights" /\ k = Key("anomaly_id", "anomalies")
      \/ r.table = "insight_actions" /\ k = Cascading("insight_id", "insights")
      \/ r.table = "evaluation_runs" /\ k = OfOldJob
  BY <1>1, PrunableModelKeys, ReferenceParent
<1>3. CASE r.table \in {"insights", "insight_actions"}
  <2>1. TableAt(r.table, n) = Models[r.table]
    BY <1>3 DEF TableAt
  <2> QED
    BY <1>1, <1>2, <1>3, <2>1, KeyOnDelete
<1>4. CASE r.table = "evaluation_runs" /\ k = OfOldJob
  <2>1. n \in 4 .. 7
    <3>1. r.column = "job_id"
      BY <1>1, <1>4, KeysOfEvaluationRuns
    <3>2. <<r.table, r.column>> = <<"evaluation_runs", "job_id">>
      BY <1>4, <3>1
    <3> QED
      BY <3>2
  <2>2. TableAt(r.table, n) = EvaluationRunAt(n)
    BY <1>4 DEF TableAt
  <2>3. OfOldJob \in EvaluationRun.keys
    BY DEF EvaluationRun, Columns, OfOldJob
  <2>4. n = 4 \/ n = 5 \/ n = 6 \/ n = 7
    BY <2>1
  <2>5. OfJob \in EvaluationRunAt(n).keys \/ OfOldJob \in EvaluationRunAt(n).keys
    BY <2>3, <2>4, EvaluationRunTables, EvaluationRunMoves
  <2> QED
    BY <1>1, <1>4, <2>2, <2>5, KeysOfEvaluationRuns
<1> QED
  BY <1>2, <1>3, <1>4

-----------------------------------------------------------------------------
(* Rows. *)

(* What the invariant says of the state. *)
LEMMA InvFacts ==
    ASSUME MigrationInv
    PROVE  /\ revision \in 0 .. 7 /\ db = Db(SchemaOf(revision), db.rows, db.filled)
           /\ db.schema = SchemaOf(revision) /\ Fit(revision, db.rows, db.filled)
           /\ db.rows \subseteq TablesAt(revision)
<1>1. revision \in 0 .. 7
  BY ScriptsOf DEF MigrationInv
<1>2. db = Db(SchemaOf(revision), db.rows, db.filled)
  BY DEF MigrationInv, Db
<1>3. db.schema = SchemaOf(revision)
  <2> DEFINE S == SchemaOf(revision)
  <2>1. db = [schema |-> S, rows |-> db.rows, filled |-> db.filled]
    BY DEF MigrationInv
  <2> HIDE DEF S
  <2>2. db.schema = S
    BY <2>1
  <2> QED
    BY <2>2 DEF S
<1> QED
  BY <1>1, <1>2, <1>3 DEF MigrationInv, Fit

LEMMA RowTables ==
    ASSUME MigrationInv, NEW u \in db.rows
    PROVE  /\ revision \in 1 .. 7 /\ u \in TablesAt(revision) /\ u \in Tables
           /\ db.schema[u] = TableAt(u, revision)
<1>1. TablesAt(0) = {} /\ \A n : TablesAt(n) \subseteq Tables
  BY DEF TablesAt
<1> QED
  BY <1>1, InvFacts, SchemaTable

(* One round of the cascade of a delete. *)
Cascade(S) == S \cup {u \in db.rows : KeysInto(u, S, "CASCADE") # {}}

(* g is the recursive function of Removed. *)
Reaching(g, t) ==
    g = [n \in 0 .. Cardinality(db.rows) |-> IF n = 0 THEN {t} ELSE Cascade(g[n - 1])]

(* There are as many rows as tables at most. *)
LEMMA RowsFinite ==
    ASSUME MigrationInv
    PROVE  /\ IsFiniteSet(db.rows) /\ Cardinality(db.rows) \in Nat
           /\ db.rows # {} => Cardinality(db.rows) # 0
<1> DEFINE P == {m \in Nat : m <= 14 => IsFiniteSet(Earliest(m))}
<1>1. 0 \in P
  <2>1. Earliest(0) = {}
    BY DEF Earliest
  <2> QED
    BY <2>1, FS_EmptySet
<1>2. ASSUME NEW m \in Nat, m \in P PROVE m + 1 \in P
  <2> SUFFICES ASSUME m + 1 <= 14 PROVE IsFiniteSet(Earliest(m + 1))
    OBVIOUS
  <2>1. IsFiniteSet(Earliest(m)) /\ m + 1 \in 1 .. 14 /\ (m + 1) - 1 = m
    BY <1>2
  <2>2. Earliest(m + 1) = Earliest(m) \cup {Order[m + 1]}
    BY <2>1, EarliestNext
  <2> QED
    BY <2>1, <2>2, FS_AddElement
<1> HIDE DEF P
<1>3. Nat \subseteq P
  BY <1>1, <1>2, CountUp
<1>4. IsFiniteSet(Earliest(14))
  <2>1. 14 \in P
    BY <1>3
  <2> QED
    BY <2>1 DEF P
<1>5. IsFiniteSet(Earliest(14) \cup {"source_credentials"})
  BY <1>4, FS_AddElement
<1>6. db.rows \subseteq Earliest(14) \cup {"source_credentials"}
  <2>1. \A n : TablesAt(n) \subseteq TablesAt(1) \cup {"source_credentials"}
    BY DEF TablesAt
  <2> QED
    BY <2>1, InvFacts, EarliestAll
<1>7. IsFiniteSet(db.rows)
  BY <1>5, <1>6, FS_Subset
<1> QED
  BY <1>7, FS_CardinalityType, FS_EmptySet

(* A cascade that has reached its end after one round is what a prune removes. *)
LEMMA RemovedBy ==
    ASSUME NEW t, Cardinality(db.rows) \in Nat \ {0}, Cascade(Cascade({t})) = Cascade({t})
    PROVE  Removed(t) = Cascade({t})
<1> DEFINE N == Cardinality(db.rows)
           w == [n \in 0 .. N |-> IF n = 0 THEN {t} ELSE Cascade({t})]
           g == CHOOSE h : Reaching(h, t)
<1>1. Reaching(w, t)
  <2> SUFFICES ASSUME NEW n \in 0 .. N
               PROVE  w[n] = IF n = 0 THEN {t} ELSE Cascade(w[n - 1])
    BY DEF Reaching
  <2>1. n = 0 \/ n = 1 \/ n \in 2 .. N
    OBVIOUS
  <2>2. CASE n = 0
    BY <2>2
  <2>3. CASE n = 1
    BY <2>3
  <2>4. CASE n \in 2 .. N
    <3>1. n # 0 /\ n - 1 \in 0 .. N /\ n - 1 # 0
      BY <2>4
    <3>2. w[n] = Cascade({t}) /\ w[n - 1] = Cascade({t})
      BY <3>1
    <3> QED
      BY <3>1, <3>2
  <2> QED
    BY <2>1, <2>2, <2>3, <2>4
<1>2. Reaching(g, t)
  <2> HIDE DEF w
  <2> QED
    BY <1>1, Zenon
<1>3. Removed(t) = g[N]
  BY DEF Removed, Reaching, Cascade
<1> DEFINE P == {n \in Nat : n + 1 <= N => g[n + 1] = Cascade({t})}
<1> HIDE DEF g
<1>4. \A n \in 0 .. N : g[n] = IF n = 0 THEN {t} ELSE Cascade(g[n - 1])
  BY <1>2 DEF Reaching
<1>5. 0 \in P
  <2>1. 1 \in 0 .. N /\ 0 \in 0 .. N
    OBVIOUS
  <2>2. g[0] = {t} /\ g[1] = Cascade(g[0])
    BY <1>4, <2>1
  <2> QED
    BY <2>2
<1>6. ASSUME NEW n \in Nat, n \in P PROVE n + 1 \in P
  <2> SUFFICES ASSUME n + 2 <= N PROVE g[n + 2] = Cascade({t})
    OBVIOUS
  <2>1. g[n + 1] = Cascade({t})
    BY <1>6
  <2>2. n + 2 \in 0 .. N /\ n + 2 # 0 /\ (n + 2) - 1 = n + 1
    OBVIOUS
  <2>3. g[n + 2] = Cascade(g[(n + 2) - 1])
    BY <1>4, <2>2
  <2> QED
    BY <2>1, <2>2, <2>3
<1> HIDE DEF P
<1>7. Nat \subseteq P
  BY <1>5, <1>6, CountUp
<1>8. N - 1 \in P /\ (N - 1) + 1 = N
  BY <1>7
<1>9. g[N] = Cascade({t})
  BY <1>8 DEF P
<1> QED
  BY <1>3, <1>9

(* The cascade of a prune: an insight takes its actions with it, and no more. *)
LEMMA CascadeOf ==
    ASSUME MigrationInv, NEW t \in db.rows \cap Prunable
    PROVE  /\ Cascade({t}) \subseteq db.rows \cap Prunable
           /\ Cascade({t}) \subseteq {t, "insight_actions"}
           /\ t \notin {"insights", "insight_actions"} => Cascade({t}) = {t}
           /\ Cascade(Cascade({t})) = Cascade({t})
<1>1. ASSUME NEW S, S \subseteq Prunable, NEW u \in db.rows, KeysInto(u, S, "CASCADE") # {}
      PROVE  u = "insight_actions" /\ "insights" \in S /\ KeysInto(u, {"insights"}, "CASCADE") # {}
  <2>1. PICK k \in db.schema[u].keys :
            k.onDelete = "CASCADE" /\ k.parent \in S /\ <<u, k.column>> \in db.filled
    BY <1>1 DEF KeysInto
  <2>2. k \in TableAt(u, revision).keys /\ k.parent \in Prunable
    BY <1>1, <2>1, RowTables
  <2>3. u = "insight_actions" /\ k.parent = "insights"
    BY <2>1, <2>2, RowTables, PrunableKeys
  <2>4. k \in KeysInto(u, {"insights"}, "CASCADE")
    BY <2>1, <2>3 DEF KeysInto
  <2> QED
    BY <2>1, <2>3, <2>4
<1>2. {t} \subseteq Prunable /\ "insight_actions" \in Prunable
  BY PrunableTables
<1>3. /\ Cascade({t}) \subseteq db.rows \cap Prunable /\ Cascade({t}) \subseteq {t, "insight_actions"}
      /\ t # "insights" => Cascade({t}) = {t}
  BY <1>1, <1>2 DEF Cascade
<1>4. Cascade(Cascade({t})) = Cascade({t})
  <2> SUFFICES ASSUME NEW u \in db.rows, KeysInto(u, Cascade({t}), "CASCADE") # {}
               PROVE  u \in Cascade({t})
    BY DEF Cascade
  <2>1. /\ u = "insight_actions" /\ "insights" \in Cascade({t})
        /\ KeysInto(u, {"insights"}, "CASCADE") # {}
    BY <1>1, <1>3
  <2>2. t = "insights"
    BY <1>3, <2>1
  <2> QED
    BY <2>1, <2>2 DEF Cascade
<1> QED
  BY <1>3, <1>4

LEMMA RemovedOf ==
    ASSUME MigrationInv, NEW t \in db.rows \cap Prunable
    PROVE  Removed(t) = Cascade({t})
<1>1. Cardinality(db.rows) \in Nat \ {0}
  BY RowsFinite
<1> QED
  BY <1>1, CascadeOf, RemovedBy

-----------------------------------------------------------------------------
(* The invariant. *)

LEMMA RowsExcept ==
    ASSUME NEW S, NEW A, NEW B, NEW R
    PROVE  [Db(S, A, B) EXCEPT !.rows = R] = Db(S, R, B)
  BY DEF Db

LEMMA FilledExcept ==
    ASSUME NEW S, NEW A, NEW B, NEW F
    PROVE  [Db(S, A, B) EXCEPT !.filled = F] = Db(S, A, F)
  BY DEF Db
(* A database with other rows. *)
Stored(d, R, F) == [d EXCEPT !.rows = R, !.filled = F]

LEMMA StoredDb ==
    ASSUME NEW S, NEW A, NEW B, NEW R, NEW F
    PROVE  Stored(Db(S, A, B), R, F) = Db(S, R, F)
<1> DEFINE d == Db(S, A, B)
           e == [d EXCEPT !.rows = R]
<1>1. e = Db(S, R, B)
  BY RowsExcept
<1> HIDE DEF d
<1>2. Stored(d, R, F) = [e EXCEPT !.filled = F]
  BY DEF Stored
<1> HIDE DEF e
<1>3. [e EXCEPT !.filled = F] = Db(S, R, F)
  BY <1>1, FilledExcept
<1> QED
  BY <1>2, <1>3 DEF d

(* What there is to show of a step that ends in revision n. *)
LEMMA InvFrom ==
    ASSUME NEW n \in 0 .. 7, revision' = n, NEW R, NEW F, db' = Db(SchemaOf(n), R, F), Fit(n, R, F)
    PROVE  MigrationInv'
<1>1. db'.rows = R /\ db'.filled = F
  BY DEF Db
<1>2. db' = [schema |-> SchemaOf(n), rows |-> db'.rows, filled |-> db'.filled]
  BY <1>1 DEF Db
<1>3. Fit(n, db'.rows, db'.filled)
  BY <1>1
<1>4. n \in 0 .. Len(Chain)
  BY ScriptsOf
<1>5. SchemaOf(revision') = SchemaOf(n) /\ SchemaOf(revision)' = SchemaOf(revision')
  OBVIOUS
<1> QED
  BY <1>2, <1>3, <1>4, <1>5 DEF MigrationInv

LEMMA InitInv == SchemaInit => MigrationInv
<1> SUFFICES ASSUME SchemaInit PROVE MigrationInv
  OBVIOUS
<1>1. SchemaOf(0) = <<>>
  BY DEF SchemaOf, TablesAt
<1>2. Fit(0, {}, {}) /\ db.rows = {} /\ db.filled = {} /\ db.schema = <<>> /\ revision = 0
  BY DEF Fit, SchemaInit, EmptyDatabase
<1>3. db = [schema |-> <<>>, rows |-> db.rows, filled |-> db.filled]
  BY <1>2 DEF SchemaInit, EmptyDatabase
<1> QED
  BY <1>1, <1>2, <1>3, ScriptsOf DEF MigrationInv

LEMMA UpgradeKeeps ==
    ASSUME MigrationInv, Upgrade
    PROVE  MigrationInv'
<1> DEFINE n == revision
           R == db.rows
           F == db.filled
<1>1. n \in 0 .. 6 /\ n + 1 \in 0 .. 7 /\ Fit(n, R, F) /\ db = Db(SchemaOf(n), R, F)
  BY InvFacts, ScriptsOf DEF Upgrade
<1>2. db' \in Outcomes(db, Chain[n + 1].upgrade) /\ revision' = n + 1
  BY DEF Upgrade
<1>3. Outcomes(db, Chain[n + 1].upgrade) = {Db(SchemaOf(n + 1), R, F)} /\ Fit(n + 1, R, F)
  BY <1>1, UpgradeOutcome, FitNext
<1>4. db' = Db(SchemaOf(n + 1), R, F)
  BY <1>2, <1>3
<1> HIDE DEF n, R, F
<1> QED
  BY <1>1, <1>2, <1>3, <1>4, InvFrom

LEMMA DowngradeKeeps ==
    ASSUME MigrationInv, Downgrade
    PROVE  MigrationInv'
<1> DEFINE n == revision
           R == db.rows
           F == db.filled
<1>1. n \in 1 .. 7 /\ n - 1 \in 0 .. 7 /\ Fit(n, R, F) /\ db = Db(SchemaOf(n), R, F)
  BY InvFacts DEF Downgrade
<1>2. db' \in Outcomes(db, Chain[n].downgrade) /\ revision' = n - 1
  BY DEF Downgrade
<1>3. PICK R1, F1 : /\ Outcomes(Db(SchemaOf(n), R, F), Chain[n].downgrade)
                         = {Db(SchemaOf(n - 1), R1, F1)}
                    /\ Fit(n - 1, R1, F1)
  BY <1>1, DowngradeOutcome
<1>4. db' = Db(SchemaOf(n - 1), R1, F1)
  BY <1>1, <1>2, <1>3
<1> HIDE DEF n, R, F
<1> QED
  BY <1>1, <1>2, <1>3, <1>4, InvFrom

(* A row is inserted with references to rows that are there. *)
LEMMA InsertKeeps ==
    ASSUME MigrationInv, NEW t \in DataTables, Insert(t)
    PROVE  MigrationInv'
<1> DEFINE n == revision
           values == {r.column : r \in Fillable(t)}
                        \cup (IF t = "reviews" THEN {"review_text"} ELSE {})
<1>1. /\ n \in 0 .. 7 /\ Fit(n, db.rows, db.filled) /\ db = Db(SchemaOf(n), db.rows, db.filled)
      /\ db.schema = SchemaOf(n) /\ revision' = n
  BY InvFacts DEF Insert
<1>2. t \in TablesAt(n)
  BY <1>1, SchemaDomain DEF Insert
<1>3. PICK columns \in SUBSET values :
        db' = [db EXCEPT !.rows = @ \cup {t}, !.filled = @ \cup {<<t, c>> : c \in columns}]
  BY DEF Insert
<1> DEFINE R == db.rows \cup {t}
           F == db.filled \cup {<<t, c>> : c \in columns}
<1>4. db' = Db(SchemaOf(n), R, F)
  <2>1. db' = Stored(db, R, F)
    BY <1>3 DEF Stored
  <2> DEFINE S == SchemaOf(n)
  <2>2. db = Db(S, db.rows, db.filled)
    BY <1>1
  <2> HIDE DEF S, R, F
  <2>3. Stored(db, R, F) = Db(S, R, F)
    BY <2>2, StoredDb
  <2>4. db' = Db(S, R, F)
    BY <2>1, <2>3
  <2> QED
    BY <2>4 DEF S
<1>5. \A c \in F : c[1] \in R
  BY <1>1 DEF Fit
<1>6. ASSUME n < 4 PROVE <<"evaluation_runs", "job_id">> \notin F
  <2> SUFFICES ASSUME t = "evaluation_runs", "job_id" \in columns PROVE FALSE
    BY <1>1, <1>6 DEF Fit
  <2>1. "job_id" \in Columned(t)
    BY DEF Fillable
  <2>2. n \in 1 .. 3
    BY <1>1, <1>2, <1>6 DEF TablesAt
  <2>3. db.schema[t] = EvaluationRunAt(n)
    BY <1>1, <2>2, ChangedTables
  <2>4. EvaluationRunAt(n) = evaluation_runs \/ EvaluationRunAt(n) = Versioned
    BY <2>2, EvaluationRunTables
  <2>5. /\ "job_id" \notin evaluation_runs.required \cup evaluation_runs.optional
        /\ "job_id" \notin Versioned.required \cup Versioned.optional
    BY EvaluationRunFields, JobMoves DEF FewColumns
  <2> QED
    BY <2>1, <2>3, <2>4, <2>5 DEF Columned
<1>7. ASSUME NEW r \in References, <<r.table, r.column>> \in F PROVE r.parent \in R
  <2>1. CASE <<r.table, r.column>> \in db.filled
    BY <1>1, <2>1 DEF Fit
  <2>2. CASE r.table = t /\ r.column \in columns
    <3>1. r.column # "review_text" \/ t # "reviews"
      BY <2>2, ReferenceParent
    <3>2. t # "reviews"
      BY <2>2, ReferenceParent
    <3>3. PICK q \in Fillable(t) : q.column = r.column
      BY <2>2, <3>2
    <3>4. q \in References /\ q.parent \in db.rows
      BY <3>3 DEF Fillable
    <3> QED
      BY <3>3, <3>4, ReferenceParent
  <2> QED
    BY <1>7, <2>1, <2>2
<1>8. Fit(n, R, F)
  <2>1. R \subseteq TablesAt(n)
    BY <1>1, <1>2 DEF Fit
  <2> HIDE DEF R, F
  <2> QED
    BY <1>5, <1>6, <1>7, <2>1 DEF Fit
<1> HIDE DEF n, R, F
<1> QED
  BY <1>1, <1>4, <1>8, InvFrom

(* What a prune leaves refers to rows that it leaves: NO ACTION would have refused it,  *)
(* CASCADE taken the row along, SET NULL emptied the column.                            *)
LEMMA PruneKeeps ==
    ASSUME MigrationInv, NEW t \in DataTables \cap Prunable, Prune(t)
    PROVE  MigrationInv'
<1> DEFINE n == revision
           X == Removed(t)
           R == db.rows \ X
           F == {c \in db.filled : /\ c[1] \notin X
                                   /\ \A k \in KeysInto(c[1], X, "SET NULL") : k.column # c[2]}
<1>1. /\ n \in 1 .. 7 /\ Fit(n, db.rows, db.filled) /\ db = Db(SchemaOf(n), db.rows, db.filled)
      /\ revision' = n /\ t \in db.rows \cap Prunable
  BY InvFacts, RowTables DEF Prune
<1>2. X = Cascade({t}) /\ Cascade(X) = X /\ X \subseteq db.rows \cap Prunable
  <2>1. t \in db.rows \cap Prunable
    BY <1>1
  <2>2. X = Cascade({t})
    BY <2>1, RemovedOf
  <2>3. Cascade({t}) \subseteq db.rows \cap Prunable /\ Cascade(Cascade({t})) = Cascade({t})
    BY <2>1, CascadeOf
  <2> HIDE DEF X
  <2> QED
    BY <2>2, <2>3
<1>3. db' = Db(SchemaOf(n), R, F)
  <2>1. db' = Stored(db, R, F)
    BY DEF Prune, Stored
  <2> DEFINE S == SchemaOf(n)
  <2>2. db = Db(S, db.rows, db.filled)
    BY <1>1
  <2> HIDE DEF S, R, F
  <2>3. Stored(db, R, F) = Db(S, R, F)
    BY <2>2, StoredDb
  <2>4. db' = Db(S, R, F)
    BY <2>1, <2>3
  <2> QED
    BY <2>4 DEF S
<1>4. F \subseteq db.filled /\ \A c \in F : c[1] \in R
  BY <1>1 DEF Fit
<1>5. ASSUME NEW r \in References, <<r.table, r.column>> \in F, r.parent \in X
      PROVE  FALSE
  <2> DEFINE u == r.table
  <2>1. u \in R /\ <<u, r.column>> \in db.filled
    BY <1>4, <1>5
  <2>2. u \in TablesAt(n) /\ db.schema[u] = TableAt(u, n)
    BY <2>1, RowTables
  <2>3. n < 4 => <<u, r.column>> # <<"evaluation_runs", "job_id">>
    BY <1>1, <2>1 DEF Fit
  <2>4. r.parent \in Prunable
    BY <1>2, <1>5
  <2>5. PICK k \in TableAt(u, n).keys :
            /\ k.column = r.column /\ k.parent = r.parent
            /\ k.onDelete \in {"NO ACTION", "CASCADE", "SET NULL"}
    BY <1>1, <2>2, <2>3, <2>4, PrunableReference
  <2>6. k \in KeysInto(u, X, k.onDelete)
    BY <1>5, <2>1, <2>2, <2>5 DEF KeysInto
  <2>7. CASE k.onDelete = "NO ACTION"
    BY <2>1, <2>6, <2>7 DEF Prune, Blocked
  <2>8. CASE k.onDelete = "CASCADE"
    <3>1. u \in Cascade(X)
      BY <2>1, <2>6, <2>8 DEF Cascade
    <3> QED
      BY <1>2, <2>1, <3>1
  <2>9. CASE k.onDelete = "SET NULL"
    BY <1>5, <2>5, <2>6, <2>9
  <2> QED
    BY <2>5, <2>7, <2>8, <2>9
<1>6. Fit(n, R, F)
  <2>1. R \subseteq TablesAt(n)
    BY <1>1 DEF Fit
  <2>2. ASSUME NEW r \in References, <<r.table, r.column>> \in F PROVE r.parent \in R
    <3>1. r.parent \in db.rows
      BY <1>1, <1>4, <2>2 DEF Fit
    <3> QED
      BY <1>5, <2>2, <3>1
  <2>3. n < 4 => <<"evaluation_runs", "job_id">> \notin F
    BY <1>1, <1>4 DEF Fit
  <2> HIDE DEF R, F, n
  <2> QED
    BY <1>4, <2>1, <2>2, <2>3 DEF Fit
<1> HIDE DEF n, R, F, X
<1> QED
  BY <1>1, <1>3, <1>6, InvFrom

(* At every revision the database has the schema of that revision, and rows *)
(* that fit it and refer to rows that are there.                            *)
THEOREM MigrationInvariant == SchemaSpec => []MigrationInv
<1>1. SchemaInit => MigrationInv
  BY InitInv
<1>2. MigrationInv /\ [SchemaNext]_schemaVars => MigrationInv'
  <2> SUFFICES ASSUME MigrationInv, [SchemaNext]_schemaVars PROVE MigrationInv'
    OBVIOUS
  <2>1. CASE Upgrade
    BY <2>1, UpgradeKeeps
  <2>2. CASE Downgrade
    BY <2>2, DowngradeKeeps
  <2>3. CASE \E t \in DataTables : Insert(t)
    BY <2>3, InsertKeeps
  <2>4. CASE \E t \in DataTables \cap Prunable : Prune(t)
    BY <2>4, PruneKeeps
  <2>5. CASE UNCHANGED schemaVars
    BY <2>5 DEF MigrationInv, schemaVars
  <2> QED
    BY <2>1, <2>2, <2>3, <2>4, <2>5 DEF SchemaNext
<1> QED
  BY <1>1, <1>2, PTL DEF SchemaSpec

-----------------------------------------------------------------------------
(* The schema of each revision. *)

(* g is the recursive function of SchemaAt. *)
Building(g) ==
    g = [n \in 0 .. Len(Chain) |->
            IF n = 0 THEN {EmptyDatabase}
            ELSE UNION {Outcomes(d, Chain[n].upgrade) : d \in g[n - 1]}]

LEMMA EmptyOutcome ==
    ASSUME NEW n \in 0 .. 6
    PROVE  UNION {Outcomes(d, Chain[n + 1].upgrade) : d \in {Db(SchemaOf(n), {}, {})}}
             = {Db(SchemaOf(n + 1), {}, {})}
<1>1. Fit(n, {}, {})
  BY DEF Fit
<1>2. Outcomes(Db(SchemaOf(n), {}, {}), Chain[n + 1].upgrade) = {Db(SchemaOf(n + 1), {}, {})}
  BY <1>1, UpgradeOutcome
<1> DEFINE e == Db(SchemaOf(n), {}, {})
<1> HIDE DEF e
<1>3. {Outcomes(d, Chain[n + 1].upgrade) : d \in {e}} = {Outcomes(e, Chain[n + 1].upgrade)}
  OBVIOUS
<1>4. UNION {Outcomes(d, Chain[n + 1].upgrade) : d \in {e}} = Outcomes(e, Chain[n + 1].upgrade)
  BY <1>3
<1> QED
  BY <1>2, <1>4 DEF e

LEMMA SchemaBuilt ==
    ASSUME NEW n \in 0 .. 7
    PROVE  SchemaAt[n] = {SchemaOf(n)}
<1> DEFINE w == [m \in 0 .. Len(Chain) |-> {Db(SchemaOf(m), {}, {})}]
           g == CHOOSE h : Building(h)
<1>1. EmptyDatabase = Db(SchemaOf(0), {}, {})
  BY DEF EmptyDatabase, Db, SchemaOf, TablesAt
<1>2. Building(w)
  <2> SUFFICES ASSUME NEW m \in 0 .. Len(Chain)
               PROVE  w[m] = IF m = 0 THEN {EmptyDatabase}
                             ELSE UNION {Outcomes(d, Chain[m].upgrade) : d \in w[m - 1]}
    BY DEF Building
  <2>1. CASE m = 0
    BY <1>1, <2>1
  <2>2. CASE m # 0
    <3>1. m - 1 \in 0 .. 6 /\ (m - 1) + 1 = m /\ m - 1 \in 0 .. Len(Chain)
      BY <2>2, ScriptsOf
    <3>2. w[m - 1] = {Db(SchemaOf(m - 1), {}, {})} /\ w[m] = {Db(SchemaOf(m), {}, {})}
      BY <3>1
    <3> HIDE DEF w
    <3>3. UNION {Outcomes(d, Chain[(m - 1) + 1].upgrade) : d \in {Db(SchemaOf(m - 1), {}, {})}}
            = {Db(SchemaOf((m - 1) + 1), {}, {})}
      BY <3>1, EmptyOutcome
    <3> QED
      BY <2>2, <3>1, <3>2, <3>3
  <2> QED
    BY <2>1, <2>2
<1>3. Building(g)
  <2> HIDE DEF w
  <2> QED
    BY <1>2, Zenon
<1>4. SchemaAt = [m \in 0 .. Len(Chain) |-> {d.schema : d \in g[m]}]
  BY DEF SchemaAt, Building
<1> DEFINE P == {m \in Nat : m <= 7 => g[m] = {Db(SchemaOf(m), {}, {})}}
<1> HIDE DEF g
<1>5. \A m \in 0 .. 7 : g[m] = IF m = 0 THEN {EmptyDatabase}
                               ELSE UNION {Outcomes(d, Chain[m].upgrade) : d \in g[m - 1]}
  BY <1>3, ScriptsOf DEF Building
<1>6. 0 \in P
  <2>1. g[0] = {EmptyDatabase}
    BY <1>5
  <2> QED
    BY <1>1, <2>1
<1>7. ASSUME NEW m \in Nat, m \in P PROVE m + 1 \in P
  <2> SUFFICES ASSUME m + 1 <= 7 PROVE g[m + 1] = {Db(SchemaOf(m + 1), {}, {})}
    OBVIOUS
  <2>1. m \in 0 .. 6 /\ m + 1 \in 0 .. 7 /\ m + 1 # 0 /\ (m + 1) - 1 = m
    OBVIOUS
  <2>2. g[m] = {Db(SchemaOf(m), {}, {})}
    BY <1>7
  <2>3. g[m + 1] = UNION {Outcomes(d, Chain[m + 1].upgrade) : d \in g[m]}
    BY <1>5, <2>1
  <2>4. UNION {Outcomes(d, Chain[m + 1].upgrade) : d \in {Db(SchemaOf(m), {}, {})}}
          = {Db(SchemaOf(m + 1), {}, {})}
    BY <2>1, EmptyOutcome
  <2> QED
    BY <2>2, <2>3, <2>4
<1> HIDE DEF P
<1>8. Nat \subseteq P
  BY <1>6, <1>7, CountUp
<1>9. g[n] = {Db(SchemaOf(n), {}, {})}
  BY <1>8 DEF P
<1> DEFINE e == Db(SchemaOf(n), {}, {})
<1>10. e.schema = SchemaOf(n)
  BY DEF Db
<1> HIDE DEF e
<1>11. g[n] = {e} /\ n \in 0 .. Len(Chain)
  BY <1>9, ScriptsOf DEF e
<1>12. {d.schema : d \in g[n]} = {e.schema}
  BY <1>11
<1> QED
  BY <1>4, <1>10, <1>11, <1>12

-----------------------------------------------------------------------------
(* The properties *)

(* The schema depends on the revision alone: no way up and down the chain   *)
(* leaves anything behind or short.                                         *)
THEOREM RevisionDeterminesSchema == SchemaSpec => []SchemaFollowsRevision
<1>1. MigrationInv => SchemaFollowsRevision
  BY InvFacts, SchemaBuilt DEF SchemaFollowsRevision
<1> QED
  BY <1>1, MigrationInvariant, PTL

(* The head of the chain is the schema that db/models.py declares. *)
THEOREM HeadIsModels == SchemaSpec => []HeadMatchesModels
<1>1. MigrationInv => HeadMatchesModels
  BY InvFacts, HeadSchema, ScriptsOf DEF HeadMatchesModels
<1> QED
  BY <1>1, MigrationInvariant, PTL

(* PostgreSQL accepts every next upgrade and downgrade, whatever rows there *)
(* are.                                                                     *)
THEOREM MigrationsApply == SchemaSpec => []EveryMigrationApplies
<1>1. MigrationInv => EveryMigrationApplies
  <2> SUFFICES ASSUME MigrationInv PROVE EveryMigrationApplies
    OBVIOUS
  <2> DEFINE n == revision
             S == SchemaOf(n)
  <2>1. n \in 0 .. 7 /\ Fit(n, db.rows, db.filled) /\ db = Db(S, db.rows, db.filled)
    BY InvFacts
  <2>2. ASSUME n < Len(Chain) PROVE Outcomes(db, Chain[n + 1].upgrade) # {}
    <3>1. n \in 0 .. 6
      BY <2>1, <2>2, ScriptsOf
    <3>2. Outcomes(Db(S, db.rows, db.filled), Chain[n + 1].upgrade)
            = {Db(SchemaOf(n + 1), db.rows, db.filled)}
      BY <2>1, <3>1, UpgradeOutcome
    <3> HIDE DEF n, S
    <3> QED
      BY <2>1, <3>2
  <2>3. ASSUME n > 0 PROVE Outcomes(db, Chain[n].downgrade) # {}
    <3>1. n \in 1 .. 7
      BY <2>1, <2>3
    <3>2. PICK R, F : /\ Outcomes(Db(S, db.rows, db.filled), Chain[n].downgrade)
                           = {Db(SchemaOf(n - 1), R, F)}
                      /\ Fit(n - 1, R, F)
      BY <2>1, <3>1, DowngradeOutcome
    <3> HIDE DEF n, S
    <3> QED
      BY <2>1, <3>2
  <2> QED
    BY <2>2, <2>3 DEF EveryMigrationApplies
<1> QED
  BY <1>1, MigrationInvariant, PTL

(* A prune never takes retained rows along, and from c87f5e6195fd on a job  *)
(* can always be pruned.                                                    *)
THEOREM HistoryIsSpared == SchemaSpec => []PruningSparesHistory
<1>1. MigrationInv => PruningSparesHistory
  <2> SUFFICES ASSUME MigrationInv, NEW t \in db.rows \cap Prunable
               PROVE  /\ Removed(t) \cap Retained = {}
                      /\ revision >= 5 /\ t = "jobs" => ~Blocked(t)
    BY DEF PruningSparesHistory
  <2>1. Removed(t) = Cascade({t})
    BY RemovedOf
  <2>2. Cascade({t}) \subseteq Prunable /\ (t = "jobs" => Cascade({t}) = {t})
    BY CascadeOf
  <2>3. Removed(t) \cap Retained = {}
    BY <2>1, <2>2, PrunableTables
  <2>4. ASSUME revision >= 5, t = "jobs", NEW u \in db.rows,
               NEW k \in KeysInto(u, Removed(t), "NO ACTION")
        PROVE  FALSE
    <3>1. Removed(t) = {"jobs"}
      BY <2>1, <2>2, <2>4
    <3>2. k \in db.schema[u].keys /\ k.onDelete = "NO ACTION" /\ k.parent = "jobs"
      BY <3>1, <2>4 DEF KeysInto
    <3>3. revision \in 1 .. 7 /\ u \in TablesAt(revision) /\ db.schema[u] = TableAt(u, revision)
      BY <2>4, RowTables
    <3>4. k \in TableAt(u, revision).keys /\ k.parent \in Prunable
      BY <3>2, <3>3, PrunableTables
    <3>5. k.onDelete = "SET NULL"
      BY <2>4, <3>2, <3>3, <3>4, PrunableKeys
    <3> QED
      BY <3>2, <3>5
  <2>5. ASSUME revision >= 5, t = "jobs" PROVE ~Blocked(t)
    BY <2>4, <2>5 DEF Blocked
  <2> QED
    BY <2>3, <2>5
<1> QED
  BY <1>1, MigrationInvariant, PTL
=============================================================================
