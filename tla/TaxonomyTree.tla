---------------------------- MODULE TaxonomyTree ----------------------------
(***************************************************************************)
(* A taxonomy on its way through the database: the reply of the model, two *)
(* levels of names, is stored node by node with a slug each                *)
(* (TaxonomyGenerationService._store_nodes), listed again as flat rows     *)
(* (TaxonomyReader.list_nodes) and nested into the tree the dashboard      *)
(* shows (services/taxonomy.py).  A name stands for what its slug keeps of *)
(* it, a sequence of words; _2, the suffix of a name already used, is one  *)
(* word more, so the slug of one name can be the suffixed slug of another. *)
(***************************************************************************)
EXTENDS Integers, Sequences, FiniteSets, SequencesExt, Functions

CONSTANTS
    Names,          \* the names a reply may use, non-empty sequences of words
    Longest,        \* VARCHAR(255), in words
    MaxNodes,       \* bound on the categories of a reply
    MaxChildren     \* bound on the children of a category

ASSUME TreeAssumption ==
    /\ \A name \in Names : Len(name) \in Nat /\ name = [w \in 1 .. Len(name) |-> name[w]]
    /\ Longest \in Nat /\ MaxNodes \in Nat /\ MaxChildren \in Nat

VARIABLES
    reply,          \* a GeneratedTaxonomy: categories with their children
    rows,           \* taxonomy_nodes of the version, in insertion order
    listing,        \* the order list_nodes returned them in
    attached,       \* parent, or 0 for none -> its children, of the rows visited
    progress        \* storing, refused, listed

treeVars == <<reply, rows, listing, attached, progress>>

SeqsUpTo(S, lo, hi) == UNION {[1 .. n -> S] : n \in lo .. hi}

(* At least one category (schemas/taxonomy_generation.py). *)
GeneratedTaxonomies ==
    SeqsUpTo([name : Names, children : SeqsUpTo(Names, 0, MaxChildren)], 1, MaxNodes)

TreeInit ==
    /\ reply \in GeneratedTaxonomies
    /\ rows = <<>> /\ listing = <<>>
    /\ attached = [p \in {0} |-> <<>>]
    /\ progress = "storing"

-----------------------------------------------------------------------------
(* Storing *)

Used == {rows[r].slug : r \in DOMAIN rows}

UniqueSlug__always_2(name) == IF name \in Used THEN Append(name, 2) ELSE name

(* The name itself, or with the first suffix from 2 that is free. *)
UniqueSlug(name) ==
    IF name \notin Used THEN name
    ELSE LET free == {k \in 2 .. Len(rows) + 2 : Append(name, k) \notin Used}
         IN  Append(name, CHOOSE k \in free : \A l \in free : k <= l)

(* The nodes of the reply in the order of the two loops: a category, its    *)
(* place, and the place of a child in it or 0.                              *)
Planned ==
    FlattenSeq([c \in DOMAIN reply |->
        [n \in 1 .. Len(reply[c].children) + 1 |-> <<c, n - 1>>]])

(* The row stored for category c of the reply, which no other node follows. *)
RowOf(c) == CHOOSE r \in DOMAIN rows : Planned[r] = <<c, 0>>

NameAt(c, n) == IF n = 0 THEN reply[c].name ELSE reply[c].children[n]

Node(c, n) ==
    [name |-> NameAt(c, n), slug |-> UniqueSlug(NameAt(c, n)),
     parent |-> IF n = 0 THEN 0 ELSE RowOf(c),
     depth |-> IF n = 0 THEN 0 ELSE 1,
     sort_order |-> IF n = 0 THEN c - 1 ELSE n - 1]

NextNode == Planned[Len(rows) + 1]

(* PostgreSQL takes a row whose slug is new to the version and fits. *)
Fits(row) == row.slug \notin Used /\ Len(row.slug) <= Longest

StoreNode ==
    /\ progress = "storing" /\ Len(rows) < Len(Planned)
    /\ LET row == Node(NextNode[1], NextNode[2])
       IN  IF Fits(row) THEN rows' = Append(rows, row) /\ UNCHANGED progress
           ELSE rows' = <<>> /\ progress' = "refused"
    /\ UNCHANGED <<reply, listing, attached>>

-----------------------------------------------------------------------------
(* Reading it back *)

Precedes__depth_unordered(a, b) == rows[a].sort_order < rows[b].sort_order

(* ORDER BY depth, sort_order *)
Precedes(a, b) ==
    \/ rows[a].depth < rows[b].depth
    \/ rows[a].depth = rows[b].depth /\ rows[a].sort_order < rows[b].sort_order

(* Rows of different parents tie, and come in any order. *)
ListNodes ==
    /\ progress = "storing" /\ Len(rows) = Len(Planned)
    /\ progress' = "listed"
    /\ listing' \in {o \in Bijection(DOMAIN rows, DOMAIN rows) :
                        \A m, n \in DOMAIN rows : m < n => ~Precedes(o[n], o[m])}
    /\ UNCHANGED <<reply, rows, attached>>

(* One turn of _build_tree: a node goes under its parent if that has been   *)
(* visited, and to the roots if not.                                        *)
BuildNode ==
    LET visited == DOMAIN attached \ {0}
    IN  /\ progress = "listed" /\ Cardinality(visited) < Len(listing)
        /\ LET node == listing[Cardinality(visited) + 1]
               under == IF rows[node].parent \in visited THEN rows[node].parent ELSE 0
           IN  attached' = [r \in DOMAIN attached \cup {node} |->
                               CASE r = node  -> <<>>
                                 [] r = under -> Append(attached[r], node)
                                 [] OTHER     -> attached[r]]
        /\ UNCHANGED <<reply, rows, listing, progress>>

Built == progress = "listed" /\ Cardinality(DOMAIN attached) = Len(listing) + 1

TreeNext == StoreNode \/ ListNodes \/ BuildNode

TreeSpec == TreeInit /\ [][TreeNext]_treeVars

-----------------------------------------------------------------------------
(* Property *)

NamesUnder(parent) == [n \in DOMAIN attached[parent] |-> rows[attached[parent][n]].name]

(* The dashboard shows the taxonomy the model gave: every category, in the  *)
(* model's order, with its own children in theirs, although rows of         *)
(* different parents come back in an arbitrary order and every node is      *)
(* attached in the one pass that meets it (_build_tree, "guaranteeing a     *)
(* node's parent is visited before it").  It shows nothing only if a name   *)
(* does not fit: no names, repeated or looking like suffixed ones, make two *)
(* slugs meet ("Nothing stops a model returning the same name twice").      *)
TreeIsReply ==
    /\ Built => /\ NamesUnder(0) = [c \in DOMAIN reply |-> reply[c].name]
                /\ \A c \in DOMAIN reply : NamesUnder(attached[0][c]) = reply[c].children
    /\ progress = "refused" =>
         \E c \in DOMAIN reply :
             \E name \in {reply[c].name} \cup ToSet(reply[c].children) : Len(name) >= Longest

-----------------------------------------------------------------------------
(* Why it holds *)

(* Every row is the node planned for its place, under the row of its        *)
(* category.                                                                *)
RowsFollowPlan ==
    /\ Len(rows) <= Len(Planned)
    /\ \A r \in DOMAIN rows :
         LET c == Planned[r][1]
             n == Planned[r][2]
         IN  /\ rows[r].name = NameAt(c, n)
             /\ rows[r].depth = IF n = 0 THEN 0 ELSE 1
             /\ rows[r].sort_order = IF n = 0 THEN c - 1 ELSE n - 1
             /\ IF n = 0 THEN rows[r].parent = 0
                ELSE rows[r].parent \in DOMAIN rows /\ Planned[rows[r].parent] = <<c, 0>>

(* The listing keeps the order asked for. *)
ListingInOrder ==
    /\ listing \in Bijection(DOMAIN rows, DOMAIN rows)
    /\ \A m, n \in DOMAIN rows : m < n => ~Precedes(listing[n], listing[m])

Visited == DOMAIN attached \ {0}

(* The rows visited are the first of the listing, and every one of them is  *)
(* under its own parent, siblings in their order.                           *)
AttachedInOrder ==
    /\ 0 \in DOMAIN attached
    /\ \E m \in 0 .. Len(listing) : Visited = {listing[i] : i \in 1 .. m}
    /\ \A p \in DOMAIN attached :
         /\ attached[p] \in Seq(Visited)
         /\ ToSet(attached[p]) = {r \in Visited : rows[r].parent = p}
         /\ \A i, j \in DOMAIN attached[p] :
              i < j => rows[attached[p][i]].sort_order < rows[attached[p][j]].sort_order

TreeInv ==
    /\ reply \in GeneratedTaxonomies /\ progress \in {"storing", "refused", "listed"}
    /\ Len(rows) \in Nat /\ rows = [r \in 1 .. Len(rows) |-> rows[r]]
    /\ progress # "refused" => RowsFollowPlan
    /\ progress # "listed" => attached = [p \in {0} |-> <<>>]
    /\ progress = "listed" =>
         Len(rows) = Len(Planned) /\ ListingInOrder /\ AttachedInOrder
    /\ progress = "refused" =>
         \E c \in DOMAIN reply :
             \E name \in {reply[c].name} \cup ToSet(reply[c].children) : Len(name) >= Longest
=============================================================================
