--------------------------- MODULE DatabaseModels ---------------------------
(***************************************************************************)
(* The schema db/models.py declares: per table its columns, required (NOT  *)
(* NULL) or optional, its unique constraints as sets of columns, its check *)
(* constraints and partial unique indexes by name, and its foreign keys    *)
(* with what a delete of the parent does.  Column types, server defaults   *)
(* and plain indexes are left out: no property is about them.              *)
(***************************************************************************)
Columns(required, optional) ==
    [required |-> required, optional |-> optional,
     unique |-> {}, rules |-> {}, keys |-> {}]

ForeignKey(column, parent, onDelete, useAlter) ==
    [column |-> column, parent |-> parent, onDelete |-> onDelete, useAlter |-> useAlter]

Key(column, parent)       == ForeignKey(column, parent, "NO ACTION", FALSE)
Cascading(column, parent) == ForeignKey(column, parent, "CASCADE", FALSE)
Nulling(column, parent)   == ForeignKey(column, parent, "SET NULL", FALSE)

-----------------------------------------------------------------------------
Review ==
    [Columns({"id", "source", "source_review_id", "rating", "created_at",
              "updated_at", "language", "raw_payload", "analysis_status",
              "inserted_at"},
             {"review_text", "reviewer_name", "owner_reply_text",
              "owner_reply_at"})
        EXCEPT !.unique = {{"source_review_id"}},
               !.rules = {"ck_reviews_rating_range",
                         "ck_reviews_analysis_status"}]

ModelRun ==
    [Columns({"id", "task", "provider", "model_name", "input_count",
              "latency_ms", "success", "fallback_used", "output_valid",
              "metadata", "created_at"},
             {"model_version", "prompt_version", "taxonomy_version_id",
              "error_message"})
        EXCEPT !.keys = {Key("taxonomy_version_id", "taxonomy_versions")}]

TaxonomyVersion ==
    [Columns({"id", "version_number", "status", "created_by", "created_at"},
             {"parent_version_id", "activated_at", "archived_at",
              "generation_model_run_id"})
        EXCEPT !.unique = {{"version_number"}},
               !.rules = {"ck_taxonomy_versions_status",
                         "uq_taxonomy_versions_single_active"},
               !.keys = {Key("parent_version_id", "taxonomy_versions"),
                       Key("generation_model_run_id", "model_runs")}]

TaxonomyNode ==
    [Columns({"id", "taxonomy_version_id", "name", "description", "slug",
              "depth", "sort_order", "created_at"},
             {"parent_id"})
        EXCEPT !.unique = {{"taxonomy_version_id", "slug"}},
               !.rules = {"ck_taxonomy_nodes_depth_non_negative"},
               !.keys = {Cascading("taxonomy_version_id", "taxonomy_versions"),
                       Cascading("parent_id", "taxonomy_nodes")}]

TaxonomyChange ==
    [Columns({"id", "to_version_id", "change_type", "source", "old_node_ids",
              "new_node_ids", "description", "created_at"},
             {"from_version_id"})
        EXCEPT !.rules = {"ck_taxonomy_changes_change_type"},
               !.keys = {Key("from_version_id", "taxonomy_versions"),
                       Key("to_version_id", "taxonomy_versions")}]

ReviewAnalysis ==
    [Columns({"id", "review_id", "taxonomy_version_id", "classifier_type",
              "created_at"},
             {"model_run_id", "overall_confidence", "superseded_at"})
        EXCEPT !.rules = {"ck_review_analyses_classifier_type",
                         "ck_review_analyses_confidence_range"},
               !.keys = {Cascading("review_id", "reviews"),
                       Key("taxonomy_version_id", "taxonomy_versions"),
                       Key("model_run_id", "model_runs")}]

ReviewAspect ==
    [Columns({"id", "review_analysis_id", "taxonomy_node_id", "sentiment",
              "confidence", "evidence_text", "source", "created_at"},
             {})
        EXCEPT !.rules = {"ck_review_aspects_sentiment",
                         "ck_review_aspects_confidence_range"},
               !.keys = {Cascading("review_analysis_id", "review_analyses"),
                       Key("taxonomy_node_id", "taxonomy_nodes")}]

Anomaly ==
    [Columns({"id", "taxonomy_node_id", "taxonomy_version_id",
              "period_start", "period_end", "observed_value",
              "expected_value", "anomaly_score", "support_count", "status",
              "method", "metadata", "created_at"},
             {})
        EXCEPT !.rules = {"ck_anomalies_status", "ck_anomalies_period_order",
                         "ck_anomalies_support_non_negative"},
               !.keys = {Key("taxonomy_node_id", "taxonomy_nodes"),
                       Key("taxonomy_version_id", "taxonomy_versions")}]

Insight ==
    [Columns({"id", "title", "summary", "severity", "evidence_summary",
              "status", "created_at", "updated_at", "manual_status_override"},
             {"anomaly_id", "taxonomy_node_id", "generated_by_model_run_id",
              "resolved_at"})
        EXCEPT !.rules = {"ck_insights_status"},
               !.keys = {Key("anomaly_id", "anomalies"),
                       Key("taxonomy_node_id", "taxonomy_nodes"),
                       Key("generated_by_model_run_id", "model_runs")}]

InsightAction ==
    [Columns({"id", "insight_id", "action_text", "status", "created_at",
              "updated_at"},
             {"action_date", "note_text"})
        EXCEPT !.rules = {"ck_insight_actions_status"},
               !.keys = {Cascading("insight_id", "insights")}]

SyncRun ==
    [Columns({"id", "source", "started_at", "status", "reviews_fetched",
              "reviews_created", "reviews_updated"},
             {"finished_at", "error_message", "cursor_state"})
        EXCEPT !.rules = {"ck_sync_runs_status"}]

Job ==
    [Columns({"id", "job_type", "status", "payload", "attempt_count",
              "max_attempts", "queued_at"},
             {"started_at", "finished_at", "error_message"})
        EXCEPT !.rules = {"ck_jobs_status",
                         "ck_jobs_attempt_count_non_negative",
                         "ck_jobs_max_attempts_positive"}]

EvaluationRun ==
    [Columns({"id", "evaluation_type", "model_name", "dataset_version",
              "metrics", "created_at"},
             {"job_id", "model_version", "prompt_version",
              "taxonomy_version_id", "taxonomy_version", "notes"})
        EXCEPT !.unique = {{"job_id"}},
               !.keys = {Nulling("job_id", "jobs"),
                       Key("taxonomy_version_id", "taxonomy_versions")}]

Setting ==
    [Columns({"id", "key", "value", "updated_at"},
             {})
        EXCEPT !.unique = {{"key"}}]

SourceCredential ==
    [Columns({"id", "source", "status", "scopes", "updated_at"},
             {"account_id", "location_id", "access_token_encrypted",
              "refresh_token_encrypted", "token_expires_at", "connected_at"})
        EXCEPT !.unique = {{"source"}},
               !.rules = {"ck_source_credentials_status",
                         "ck_source_credentials_connected_has_token"}]

Tables ==
    {"reviews", "model_runs", "taxonomy_versions", "taxonomy_nodes",
     "taxonomy_changes", "review_analyses", "review_aspects", "anomalies",
     "insights", "insight_actions", "sync_runs", "jobs", "evaluation_runs",
     "settings", "source_credentials"}

Model(t) ==
    CASE t = "reviews" -> Review
      [] t = "model_runs" -> ModelRun
      [] t = "taxonomy_versions" -> TaxonomyVersion
      [] t = "taxonomy_nodes" -> TaxonomyNode
      [] t = "taxonomy_changes" -> TaxonomyChange
      [] t = "review_analyses" -> ReviewAnalysis
      [] t = "review_aspects" -> ReviewAspect
      [] t = "anomalies" -> Anomaly
      [] t = "insights" -> Insight
      [] t = "insight_actions" -> InsightAction
      [] t = "sync_runs" -> SyncRun
      [] t = "jobs" -> Job
      [] t = "evaluation_runs" -> EvaluationRun
      [] t = "settings" -> Setting
      [] t = "source_credentials" -> SourceCredential

Models == [t \in Tables |-> Model(t)]

-----------------------------------------------------------------------------
(* Which column of which table refers to which table. *)
References ==
    UNION {{[table |-> t, column |-> k.column, parent |-> k.parent] : k \in Models[t].keys} :
             t \in DOMAIN Models}

(* "Retain raw reviews, taxonomy history, previous analyses, model runs, and *)
(* evaluation runs" (docs/data-model.md section 24); the rest may be pruned.  *)
Retained ==
    {"reviews", "taxonomy_versions", "taxonomy_nodes", "taxonomy_changes",
     "review_analyses", "review_aspects", "model_runs", "evaluation_runs"}

Prunable == DOMAIN Models \ Retained
=============================================================================
