----------------------------- MODULE MCDatabase -----------------------------
(***************************************************************************)
(* Instance of the database's modules for TLC: the migrations, the reads   *)
(* of the dashboard that race with ingestion, and the taxonomy from the    *)
(* model's reply to the tree shown.  They share no variable, so a          *)
(* behaviour is a behaviour of one of them.                                *)
(***************************************************************************)
EXTENDS SchemaMigrations, DashboardReads, TaxonomyTree

(* A category's two sentiments. *)
CONSTANTS praised, criticised

(* "Staff" and "Staff 2": the second "Staff" would slug like the other. *)
CollidingNames == {<<"staff">>, <<"staff", 2>>, <<"food">>}

VARIABLE part

(* The modules that are not the part stay at one of their initial states. *)
MCInit ==
    /\ part \in {"migrations", "requests", "tree"}
    /\ SchemaInit
    /\ IF part = "requests" THEN TRUE ELSE kind = "walk" /\ corpus = <<>>
    /\ DashboardInit
    /\ IF part = "tree" THEN TRUE ELSE reply = CHOOSE r \in GeneratedTaxonomies : TRUE
    /\ TreeInit

MCNext ==
    \/ part = "migrations" /\ SchemaNext /\ UNCHANGED <<dashboardVars, treeVars, part>>
    \/ part = "requests" /\ DashboardNext /\ UNCHANGED <<schemaVars, treeVars, part>>
    \/ part = "tree" /\ TreeNext /\ UNCHANGED <<schemaVars, dashboardVars, part>>

MCSpec == MCInit /\ [][MCNext]_<<schemaVars, dashboardVars, treeVars, part>>
=============================================================================
