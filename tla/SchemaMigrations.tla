-------------------------- MODULE SchemaMigrations --------------------------
(***************************************************************************)
(* The migration chain of migrations/versions, run up and down by Alembic  *)
(* over a database that holds rows.  A revision is a pair of scripts, a    *)
(* script a sequence of statements, and PostgreSQL refuses a statement     *)
(* whose precondition fails: a script that is refused rolls back, because  *)
(* env.py runs it in a transaction.  A command over several revisions is   *)
(* one transaction and commits no state that single steps do not.          *)
(*                                                                         *)
(* Of the data the model keeps what constraints are about: a table of      *)
(* DataTables holds one row or none, and of its columns those that refer   *)
(* to another row, and reviews.review_text, are filled or NULL.  Rows of   *)
(* the tables section 24 of the data model retains are never deleted on    *)
(* their own account; the others are pruned at will.                       *)
(***************************************************************************)
EXTENDS DatabaseModels, Integers, Sequences, FiniteSets

CONSTANT DataTables

VARIABLES
    revision,   \* how many revisions of Chain are applied
    db          \* schema: table -> definition; rows: tables with a row; filled: columns

schemaVars == <<revision, db>>

EmptyDatabase == [schema |-> <<>>, rows |-> {}, filled |-> {}]

-----------------------------------------------------------------------------
(* Statements, and what PostgreSQL makes of them (external). *)

Statement(op, t, arg)    == [op |-> op, table |-> t, arg |-> arg]
CreateTable(t, def)      == Statement("create_table", t, def)
DropTable(t)             == Statement("drop_table", t, "")
AddColumn(t, c)          == Statement("add_column", t, c)
DropColumn(t, c)         == Statement("drop_column", t, c)
AddUnique(t, c)          == Statement("create_unique_constraint", t, {c})
DropUnique(t, c)         == Statement("drop_unique_constraint", t, {c})
AddForeignKey(t, key)    == Statement("create_foreign_key", t, key)
DropForeignKey(t, key)   == Statement("drop_foreign_key", t, key)
SetNullable(t, c)        == Statement("nullable", t, c)
SetRequired(t, c)        == Statement("not_null", t, c)
FillNulls(t, c)          == Statement("update_nulls", t, c)

Accepts(d, s) ==
    LET t == s.table
        def == d.schema[t]
    IN  CASE s.op = "create_table" ->
                /\ t \notin DOMAIN d.schema
                /\ \A k \in s.arg.keys : k.useAlter \/ k.parent \in DOMAIN d.schema \cup {t}
          [] s.op = "drop_table" ->
                \A u \in DOMAIN d.schema \ {t} : \A k \in d.schema[u].keys : k.parent # t
          [] s.op = "add_column" -> s.arg \notin def.required \cup def.optional
          [] s.op = "drop_column" -> s.arg \in def.required \cup def.optional
          [] s.op = "create_unique_constraint" -> s.arg \notin def.unique
          [] s.op = "drop_unique_constraint" -> s.arg \in def.unique
          [] s.op = "create_foreign_key" ->
                /\ s.arg \notin def.keys /\ s.arg.parent \in DOMAIN d.schema
                /\ <<t, s.arg.column>> \in d.filled => s.arg.parent \in d.rows
          [] s.op = "drop_foreign_key" -> s.arg \in def.keys
          [] s.op = "not_null" -> t \in d.rows => <<t, s.arg>> \in d.filled
          [] OTHER -> TRUE

(* CREATE TABLE is compiled without the constraints marked use_alter. *)
Compiled(def) == [def EXCEPT !.keys = {k \in @ : ~k.useAlter}]

WithColumn(def, c)    == [def EXCEPT !.optional = @ \cup {c}]
WithUnique(def, u)    == [def EXCEPT !.unique = @ \cup {u}]
WithKey(def, k)       == [def EXCEPT !.keys = @ \cup {k}]
WithoutUnique(def, u) == [def EXCEPT !.unique = @ \ {u}]
WithoutKey(def, k)    == [def EXCEPT !.keys = @ \ {k}]
Nullable(def, c)      == [def EXCEPT !.required = @ \ {c}, !.optional = @ \cup {c}]
Required(def, c)      == [def EXCEPT !.required = @ \cup {c}, !.optional = @ \ {c}]

(* A column takes the constraints with it that name it. *)
WithoutColumn(def, c) ==
    [def EXCEPT !.optional = @ \ {c}, !.required = @ \ {c},
                !.unique = {u \in @ : c \notin u}, !.keys = {k \in @ : k.column # c}]

Effect(d, s) ==
    LET t == s.table
        def == d.schema[t]
        Altered(new) == [d EXCEPT !.schema[t] = new]
    IN  CASE s.op = "create_table" ->
                [d EXCEPT !.schema = [u \in DOMAIN @ \cup {t} |->
                    IF u = t THEN Compiled(s.arg) ELSE @[u]]]
          [] s.op = "drop_table" ->
                [schema |-> [u \in DOMAIN d.schema \ {t} |-> d.schema[u]],
                 rows |-> d.rows \ {t}, filled |-> {c \in d.filled : c[1] # t}]
          [] s.op = "add_column" -> Altered(WithColumn(def, s.arg))
          [] s.op = "drop_column" ->
                [Altered(WithoutColumn(def, s.arg)) EXCEPT !.filled = @ \ {<<t, s.arg>>}]
          [] s.op = "create_unique_constraint" -> Altered(WithUnique(def, s.arg))
          [] s.op = "drop_unique_constraint" -> Altered(WithoutUnique(def, s.arg))
          [] s.op = "create_foreign_key" -> Altered(WithKey(def, s.arg))
          [] s.op = "drop_foreign_key" -> Altered(WithoutKey(def, s.arg))
          [] s.op = "nullable" -> Altered(Nullable(def, s.arg))
          [] s.op = "not_null" -> Altered(Required(def, s.arg))
          [] s.op = "update_nulls" ->
                [d EXCEPT !.filled = @ \cup (IF t \in d.rows THEN {<<t, s.arg>>} ELSE {})]

Run(ds, s) == {Effect(d, s) : d \in {d \in ds : Accepts(d, s)}}

(* The database after a script, or none when a statement was refused. *)
Outcomes(d, script) ==
    LET after[n \in 0 .. Len(script)] == IF n = 0 THEN {d} ELSE Run(after[n - 1], script[n])
    IN  after[Len(script)]

-----------------------------------------------------------------------------
(* Revision 70c5a19c093f *)

Deferred(column, parent) == ForeignKey(column, parent, "NO ACTION", TRUE)

jobs ==
    [Columns({"id", "job_type", "status", "payload", "attempt_count",
              "max_attempts", "queued_at"},
             {"started_at", "finished_at", "error_message"})
        EXCEPT !.rules = {"ck_jobs_status",
                         "ck_jobs_attempt_count_non_negative",
                         "ck_jobs_max_attempts_positive"}]

model_runs ==
    [Columns({"id", "task", "provider", "model_name", "input_count",
              "latency_ms", "success", "fallback_used", "output_valid",
              "metadata", "created_at"},
             {"model_version", "prompt_version", "taxonomy_version_id",
              "error_message"})
        EXCEPT !.keys = {Deferred("taxonomy_version_id", "taxonomy_versions")}]

reviews ==
    [Columns({"id", "source", "source_review_id", "rating", "review_text",
              "created_at", "updated_at", "language", "raw_payload",
              "analysis_status", "inserted_at"},
             {"reviewer_name", "owner_reply_text", "owner_reply_at"})
        EXCEPT !.unique = {{"source_review_id"}},
               !.rules = {"ck_reviews_analysis_status",
                         "ck_reviews_rating_range"}]

settings ==
    [Columns({"id", "key", "value", "updated_at"},
             {})
        EXCEPT !.unique = {{"key"}}]

sync_runs ==
    [Columns({"id", "source", "started_at", "status", "reviews_fetched",
              "reviews_created", "reviews_updated"},
             {"finished_at", "error_message", "cursor_state"})
        EXCEPT !.rules = {"ck_sync_runs_status"}]

taxonomy_versions ==
    [Columns({"id", "version_number", "status", "created_by", "created_at"},
             {"parent_version_id", "activated_at", "archived_at",
              "generation_model_run_id"})
        EXCEPT !.unique = {{"version_number"}},
               !.rules = {"ck_taxonomy_versions_status",
                         "uq_taxonomy_versions_single_active"},
               !.keys = {Deferred("generation_model_run_id", "model_runs"),
                       Key("parent_version_id", "taxonomy_versions")}]

evaluation_runs ==
    [Columns({"id", "evaluation_type", "model_name", "dataset_version",
              "metrics", "created_at"},
             {"model_version", "taxonomy_version_id", "notes"})
        EXCEPT !.keys = {Key("taxonomy_version_id", "taxonomy_versions")}]

review_analyses ==
    [Columns({"id", "review_id", "taxonomy_version_id", "classifier_type",
              "created_at"},
             {"model_run_id", "overall_confidence", "superseded_at"})
        EXCEPT !.rules = {"ck_review_analyses_classifier_type",
                         "ck_review_analyses_confidence_range"},
               !.keys = {Key("model_run_id", "model_runs"),
                       Cascading("review_id", "reviews"),
                       Key("taxonomy_version_id", "taxonomy_versions")}]

taxonomy_changes ==
    [Columns({"id", "to_version_id", "change_type", "source", "old_node_ids",
              "new_node_ids", "description", "created_at"},
             {"from_version_id"})
        EXCEPT !.rules = {"ck_taxonomy_changes_change_type"},
               !.keys = {Key("from_version_id", "taxonomy_versions"),
                       Key("to_version_id", "taxonomy_versions")}]

taxonomy_nodes ==
    [Columns({"id", "taxonomy_version_id", "name", "description", "slug",
              "depth", "sort_order", "created_at"},
             {"parent_id"})
        EXCEPT !.unique = {{"taxonomy_version_id", "slug"}},
               !.rules = {"ck_taxonomy_nodes_depth_non_negative"},
               !.keys = {Cascading("parent_id", "taxonomy_nodes"),
                       Cascading("taxonomy_version_id", "taxonomy_versions")}]

anomalies ==
    [Columns({"id", "taxonomy_node_id", "taxonomy_version_id",
              "period_start", "period_end", "observed_value",
              "expected_value", "anomaly_score", "support_count", "status",
              "method", "metadata", "created_at"},
             {})
        EXCEPT !.rules = {"ck_anomalies_status", "ck_anomalies_period_order",
                         "ck_anomalies_support_non_negative"},
               !.keys = {Key("taxonomy_node_id", "taxonomy_nodes"),
                       Key("taxonomy_version_id", "taxonomy_versions")}]

review_aspects ==
    [Columns({"id", "review_analysis_id", "taxonomy_node_id", "sentiment",
              "confidence", "evidence_text", "source", "created_at"},
             {})
        EXCEPT !.rules = {"ck_review_aspects_sentiment",
                         "ck_review_aspects_confidence_range"},
               !.keys = {Cascading("review_analysis_id", "review_analyses"),
                       Key("taxonomy_node_id", "taxonomy_nodes")}]

insights ==
    [Columns({"id", "title", "summary", "severity", "evidence_summary",
              "status", "created_at", "updated_at", "manual_status_override"},
             {"anomaly_id", "taxonomy_node_id", "generated_by_model_run_id",
              "resolved_at"})
        EXCEPT !.rules = {"ck_insights_status"},
               !.keys = {Key("anomaly_id", "anomalies"),
                       Key("generated_by_model_run_id", "model_runs"),
                       Key("taxonomy_node_id", "taxonomy_nodes")}]

insight_actions ==
    [Columns({"id", "insight_id", "action_text", "status", "created_at",
              "updated_at"},
             {"action_date", "note_text"})
        EXCEPT !.rules = {"ck_insight_actions_status"},
               !.keys = {Cascading("insight_id", "insights")}]

(* Tables are dropped children first, the reverse of their creation. *)
Baseline ==
    [upgrade |-> <<
        CreateTable("jobs", jobs), CreateTable("model_runs", model_runs),
        CreateTable("reviews", reviews), CreateTable("settings", settings),
        CreateTable("sync_runs", sync_runs),
        CreateTable("taxonomy_versions", taxonomy_versions),
        CreateTable("evaluation_runs", evaluation_runs),
        CreateTable("review_analyses", review_analyses),
        CreateTable("taxonomy_changes", taxonomy_changes),
        CreateTable("taxonomy_nodes", taxonomy_nodes),
        CreateTable("anomalies", anomalies),
        CreateTable("review_aspects", review_aspects),
        CreateTable("insights", insights),
        CreateTable("insight_actions", insight_actions)>>,
     downgrade |-> <<
        DropTable("insight_actions"), DropTable("insights"),
        DropTable("review_aspects"), DropTable("anomalies"),
        DropTable("taxonomy_nodes"), DropTable("taxonomy_changes"),
        DropTable("review_analyses"), DropTable("evaluation_runs"),
        DropTable("taxonomy_versions"), DropTable("sync_runs"),
        DropTable("settings"), DropTable("reviews"), DropTable("model_runs"),
        DropTable("jobs")>>]

-----------------------------------------------------------------------------
(* The revisions after it, in the order of the chain. *)

source_credentials ==
    [Columns({"id", "source", "status", "scopes", "updated_at"},
             {"account_id", "location_id", "access_token_encrypted",
              "refresh_token_encrypted", "token_expires_at", "connected_at"})
        EXCEPT !.unique = {{"source"}},
               !.rules = {"ck_source_credentials_status",
                          "ck_source_credentials_connected_has_token"}]

(* Variants, each with one plausible slip, are named Definition__slip. *)
Phase0Ingestion__not_filled ==
    [upgrade |-> <<CreateTable("source_credentials", source_credentials),
                   SetNullable("reviews", "review_text")>>,
     downgrade |-> <<SetRequired("reviews", "review_text"), DropTable("source_credentials")>>]

Phase0Ingestion__stays_nullable ==
    [upgrade |-> <<CreateTable("source_credentials", source_credentials),
                   SetNullable("reviews", "review_text")>>,
     downgrade |-> <<DropTable("source_credentials")>>]

(* 3f8513e22ef8 *)
Phase0Ingestion ==
    [upgrade |-> <<CreateTable("source_credentials", source_credentials),
                   SetNullable("reviews", "review_text")>>,
     downgrade |-> <<FillNulls("reviews", "review_text"),
                     SetRequired("reviews", "review_text"),
                     DropTable("source_credentials")>>]

(* c4a17b9d2e60 *)
TaxonomyProvenance ==
    [upgrade |-> <<AddColumn("evaluation_runs", "taxonomy_version")>>,
     downgrade |-> <<DropColumn("evaluation_runs", "taxonomy_version")>>]

(* a71f4c9b3d82 *)
JobProvenance ==
    [upgrade |-> <<AddColumn("evaluation_runs", "job_id"),
                   AddUnique("evaluation_runs", "job_id"),
                   AddForeignKey("evaluation_runs", Key("job_id", "jobs"))>>,
     downgrade |-> <<DropForeignKey("evaluation_runs", Key("job_id", "jobs")),
                     DropUnique("evaluation_runs", "job_id"),
                     DropColumn("evaluation_runs", "job_id")>>]

Rekeyed(from, to) ==
    <<DropForeignKey("evaluation_runs", from), AddForeignKey("evaluation_runs", to)>>

JobOnDelete__cascade ==
    [upgrade |-> Rekeyed(Key("job_id", "jobs"), Cascading("job_id", "jobs")),
     downgrade |-> Rekeyed(Cascading("job_id", "jobs"), Key("job_id", "jobs"))]

(* c87f5e6195fd *)
JobOnDelete ==
    [upgrade |-> Rekeyed(Key("job_id", "jobs"), Nulling("job_id", "jobs")),
     downgrade |-> Rekeyed(Nulling("job_id", "jobs"), Key("job_id", "jobs"))]

(* 537d54fe5104 *)
PromptVersion ==
    [upgrade |-> <<AddColumn("evaluation_runs", "prompt_version")>>,
     downgrade |-> <<DropColumn("evaluation_runs", "prompt_version")>>]

UseAlterKeys__one_side ==
    [upgrade |-> <<AddForeignKey("model_runs", Key("taxonomy_version_id", "taxonomy_versions"))>>,
     downgrade |->
        <<DropForeignKey("model_runs", Key("taxonomy_version_id", "taxonomy_versions"))>>]

(* e2b7c4a91f36 *)
UseAlterKeys ==
    [upgrade |->
        <<AddForeignKey("model_runs", Key("taxonomy_version_id", "taxonomy_versions")),
          AddForeignKey("taxonomy_versions", Key("generation_model_run_id", "model_runs"))>>,
     downgrade |->
        <<DropForeignKey("taxonomy_versions", Key("generation_model_run_id", "model_runs")),
          DropForeignKey("model_runs", Key("taxonomy_version_id", "taxonomy_versions"))>>]

Chain ==
    <<Baseline, Phase0Ingestion, TaxonomyProvenance, JobProvenance, JobOnDelete,
      PromptVersion, UseAlterKeys>>

-----------------------------------------------------------------------------
(* Alembic, and the program's rows *)

SchemaInit == revision = 0 /\ db = EmptyDatabase

Upgrade ==
    /\ revision < Len(Chain)
    /\ db' \in Outcomes(db, Chain[revision + 1].upgrade)
    /\ revision' = revision + 1

Downgrade ==
    /\ revision > 0
    /\ db' \in Outcomes(db, Chain[revision].downgrade)
    /\ revision' = revision - 1

Columned(t) == db.schema[t].required \cup db.schema[t].optional

(* The references of t that can be filled, their parent having a row: the   *)
(* program stores ids it has read.                                          *)
Fillable(t) ==
    {r \in References : /\ r.table = t /\ r.column \in Columned(t)
                        /\ r.parent \in db.rows \ {t}}

(* A row is inserted; what is required of its references is filled. *)
Insert(t) ==
    /\ t \in DOMAIN db.schema /\ t \notin db.rows
    /\ LET references == {r.column : r \in {r \in References : r.table = t}}
           values == {r.column : r \in Fillable(t)}
                        \cup (IF t = "reviews" THEN {"review_text"} ELSE {})
           tracked == references \cup values
       IN  \E columns \in SUBSET values :
             /\ db.schema[t].required \cap tracked \subseteq columns
             /\ db' = [db EXCEPT !.rows = @ \cup {t},
                                 !.filled = @ \cup {<<t, c>> : c \in columns}]
    /\ UNCHANGED revision

(* The filled keys of row u on rows of S. *)
KeysInto(u, S, onDelete) ==
    {k \in db.schema[u].keys :
        k.onDelete = onDelete /\ k.parent \in S /\ <<u, k.column>> \in db.filled}

(* The rows that go with the row of t. *)
Removed(t) ==
    LET Dependents(S) == S \cup {u \in db.rows : KeysInto(u, S, "CASCADE") # {}}
        reached[n \in 0 .. Cardinality(db.rows)] ==
            IF n = 0 THEN {t} ELSE Dependents(reached[n - 1])
    IN  reached[Cardinality(db.rows)]

Blocked(t) == \E u \in db.rows \ Removed(t) : KeysInto(u, Removed(t), "NO ACTION") # {}

(* A row of a table that is not retained is deleted. *)
Prune(t) ==
    /\ t \in db.rows /\ ~Blocked(t)
    /\ db' = [db EXCEPT !.rows = @ \ Removed(t),
                        !.filled = {c \in @ : /\ c[1] \notin Removed(t)
                                              /\ \A k \in KeysInto(c[1], Removed(t), "SET NULL") :
                                                    k.column # c[2]}]
    /\ UNCHANGED revision

SchemaNext ==
    \/ Upgrade \/ Downgrade
    \/ \E t \in DataTables : Insert(t)
    \/ \E t \in DataTables \cap Prunable : Prune(t)

SchemaSpec == SchemaInit /\ [][SchemaNext]_schemaVars

-----------------------------------------------------------------------------
(* Properties *)

(* The schema of each revision when the chain is run on an empty database. *)
SchemaAt ==
    LET built[n \in 0 .. Len(Chain)] ==
            IF n = 0 THEN {EmptyDatabase}
            ELSE UNION {Outcomes(d, Chain[n].upgrade) : d \in built[n - 1]}
    IN  [n \in 0 .. Len(Chain) |-> {d.schema : d \in built[n]}]

(* The schema depends on the revision alone: every downgrade undoes exactly *)
(* what its upgrade did, so no way up and down the chain leaves a column, a *)
(* NOT NULL, a constraint or an ON DELETE behind or short.                  *)
SchemaFollowsRevision == db.schema \in SchemaAt[revision]

(* At the head of the chain the database is the one db/models.py declares,  *)
(* the two keys included that the baseline lost ("have never existed in any *)
(* database built from this chain", 537d54fe5104).                          *)
HeadMatchesModels == revision = Len(Chain) => db.schema = Models

(* Whatever rows the program stored, PostgreSQL accepts the next upgrade    *)
(* and the next downgrade: a key finds the rows it refers to, NOT NULL      *)
(* finds no NULL, a dropped table is referred to by none.                   *)
EveryMigrationApplies ==
    /\ revision < Len(Chain) => Outcomes(db, Chain[revision + 1].upgrade) # {}
    /\ revision > 0 => Outcomes(db, Chain[revision].downgrade) # {}

(* Pruning never takes a row with it that the data model retains, and once  *)
(* c87f5e6195fd is applied a job can always be pruned ("a routine prune     *)
(* had to stay possible there").                                            *)
PruningSparesHistory ==
    \A t \in db.rows \cap Prunable :
        /\ Removed(t) \cap Retained = {}
        /\ revision >= 5 /\ t = "jobs" => ~Blocked(t)

-----------------------------------------------------------------------------
(* Why they hold *)

TablesAt(n) ==
    CASE n = 0 -> {}
      [] n = 1 -> Tables \ {"source_credentials"}
      [] OTHER -> Tables

EvaluationRunAt(n) ==
    LET versioned  == WithColumn(evaluation_runs, "taxonomy_version")
        Owned(key) == WithKey(WithUnique(WithColumn(versioned, "job_id"), {"job_id"}), key)
    IN  CASE n < 3 -> evaluation_runs
          [] n = 3 -> versioned
          [] n = 4 -> Owned(Key("job_id", "jobs"))
          [] n = 5 -> Owned(Nulling("job_id", "jobs"))
          [] OTHER -> EvaluationRun

(* What the scripts up to revision n leave different from db/models.py. *)
TableAt(t, n) ==
    CASE t = "reviews" /\ n = 1           -> reviews
      [] t = "evaluation_runs"            -> EvaluationRunAt(n)
      [] t = "model_runs" /\ n < 7        -> Compiled(model_runs)
      [] t = "taxonomy_versions" /\ n < 7 -> Compiled(taxonomy_versions)
      [] OTHER                            -> Models[t]

SchemaOf(n) == [t \in TablesAt(n) |-> TableAt(t, n)]

(* The rows fit the schema of revision n and refer to rows that are there,  *)
(* whether a constraint of that schema sees to it or not.                   *)
Fit(n, rows, filled) ==
    /\ rows \subseteq TablesAt(n)
    /\ \A c \in filled : c[1] \in rows
    /\ n < 4 => <<"evaluation_runs", "job_id">> \notin filled
    /\ \A r \in References : <<r.table, r.column>> \in filled => r.parent \in rows

MigrationInv ==
    /\ revision \in 0 .. Len(Chain)
    /\ db = [schema |-> SchemaOf(revision), rows |-> db.rows, filled |-> db.filled]
    /\ Fit(revision, db.rows, db.filled)
=============================================================================
