--------------------------- MODULE Taxonomy_proofs ---------------------------
(***************************************************************************)
(* Version numbers are 1, 2, 3 ... for every number of jobs and concurrent *)
(* executions, and a version and its model run are stored together.        *)
(*                                                                         *)
(* The tree the dashboard shows is the reply of the model, for every reply *)
(* of every length, every way names can collide, and every order in which  *)
(* rows of different parents come back.                                    *)
(***************************************************************************)
EXTENDS TaxonomyGeneration, TaxonomyTree, FiniteSums

-----------------------------------------------------------------------------
(* TaxonomyGeneration *)

(* The invariant to carry: the numbering, and the count of successful runs. *)
StorageInv == NumberingInv /\ AcceptedRunPerVersion

LEMMA StorageInit == Init => StorageInv
<1> SUFFICES ASSUME Init PROVE StorageInv
  OBVIOUS
<1>1. IsFiniteSet(versions) /\ Cardinality(versions) = 0
  BY FS_EmptySet DEF Init
<1>2. TypeOK
  <2>1. /\ corpus \in BOOLEAN
        /\ versions \subseteq [number : Nat \ {0}, job : Jobs] /\ settled \subseteq Jobs
        /\ accepted \in [Jobs -> Nat] /\ rejected \in [Jobs -> BOOLEAN]
    BY DEF Init
  <2>2. /\ pc \in [Executions -> Lines]
        /\ task \in [Executions -> Jobs \cup {NoJob}]
        /\ asked \in [Executions -> 0..2] /\ number \in [Executions -> Nat]
    BY DEF Init, Lines
  <2>3. \A e \in Executions : pc[e] = "idle" /\ task[e] \notin Jobs /\ asked[e] = 0
    BY TaxonomyAssumption DEF Init
  <2> QED
    BY <2>1, <2>2, <2>3 DEF TypeOK
<1>5. HeldNumber
  BY DEF Init, HeldNumber
<1>3. NumbersContiguous
  BY <1>1 DEF Init, NumbersContiguous, Numbers
<1>4. AcceptedRunPerVersion
  <2> SUFFICES ASSUME NEW j \in Jobs
               PROVE  accepted[j] = Cardinality({v \in versions : v.job = j})
    BY DEF AcceptedRunPerVersion
  <2>1. {v \in versions : v.job = j} = {}
    BY DEF Init
  <2> QED
    BY <2>1, FS_EmptySet DEF Init
<1> QED
  BY <1>1, <1>2, <1>3, <1>4, <1>5 DEF StorageInv, NumberingInv

(* max(version_number) is the number of versions.                           *)
LEMMA HighestIsCount == NumberingInv => Highest = Cardinality(versions)
<1> SUFFICES ASSUME NumberingInv PROVE Highest = Cardinality(versions)
  OBVIOUS
<1>1. Cardinality(versions) \in Nat
  BY FS_CardinalityType DEF NumberingInv
<1>2. Numbers = 1..Cardinality(versions)
  BY DEF NumberingInv, NumbersContiguous
<1>3. CASE Cardinality(versions) = 0
  BY <1>2, <1>3 DEF Highest
<1>4. CASE Cardinality(versions) # 0
  <2> DEFINE n == Cardinality(versions)
  <2>1. n \in Numbers /\ \A k \in Numbers : k <= n
    BY <1>1, <1>2, <1>4
  <2>2. \A m \in Numbers : (\A k \in Numbers : k <= m) => m = n
    BY <1>1, <1>2, <2>1
  <2> HIDE DEF n
  <2> QED
    BY <2>1, <2>2 DEF Highest, n
<1> QED
  BY <1>3, <1>4

(* A step that stores nothing keeps the invariant if it keeps the types and *)
(* no execution comes by a number out of range.                             *)
LEMMA NothingStored ==
    ASSUME StorageInv, TypeOK', HeldNumber', UNCHANGED <<versions, accepted>>
    PROVE  StorageInv'
  BY DEF StorageInv, NumberingInv, NumbersContiguous, Numbers, AcceptedRunPerVersion

(* Storing: an untaken number in range is the next one.                     *)
LEMMA StoreKeeps ==
    ASSUME StorageInv, TypeOK', NEW e \in Executions, StoreCommit(e)
    PROVE  StorageInv'
<1> DEFINE n == Cardinality(versions)
           new == [number |-> number[e], job |-> task[e]]
<1>1. /\ n \in Nat /\ IsFiniteSet(versions)
      /\ Numbers = 1..n
      /\ number[e] \in 1..(n + 1) /\ number[e] \notin Numbers
      /\ task[e] \in Jobs
  BY FS_CardinalityType
  DEF StorageInv, NumberingInv, NumbersContiguous, HeldNumber, StoreCommit, Taken, TypeOK
<1>2. number[e] = n + 1
  BY <1>1
<1>3. new \notin versions /\ versions' = versions \cup {new}
  BY <1>1 DEF Numbers, StoreCommit, Stored
<1>4. IsFiniteSet(versions') /\ Cardinality(versions') = n + 1
  BY <1>1, <1>3, FS_AddElement
<1>5. NumbersContiguous'
  <2>1. Numbers' = Numbers \cup {number[e]}
    BY <1>3 DEF Numbers
  <2>2. Numbers' = 1..(n + 1)
    BY <1>1, <1>2, <2>1
  <2>3. \A u, v \in versions : u.number = v.number => u = v
    BY DEF StorageInv, NumberingInv, NumbersContiguous
  <2>4. \A u \in versions : u.number # number[e]
    BY <1>1 DEF Numbers
  <2>5. \A u, v \in versions' : u.number = v.number => u = v
    BY <1>3, <2>3, <2>4
  <2> QED
    BY <1>4, <2>2, <2>5 DEF NumbersContiguous
<1>6. HeldNumber'
  <2> SUFFICES ASSUME NEW f \in Executions, pc'[f] = "insert"
               PROVE  number'[f] \in 1..(Cardinality(versions') + 1)
    BY DEF HeldNumber
  <2>1. pc[f] = "insert" /\ number'[f] = number[f]
    BY DEF StoreCommit, Goto, StorageInv, NumberingInv, TypeOK
  <2>2. number[f] \in 1..(n + 1)
    BY <2>1 DEF StorageInv, NumberingInv, HeldNumber
  <2> QED
    BY <1>1, <1>4, <2>1, <2>2
<1>7. AcceptedRunPerVersion'
  <2> SUFFICES ASSUME NEW j \in Jobs
               PROVE  accepted'[j] = Cardinality({v \in versions' : v.job = j})
    BY DEF AcceptedRunPerVersion
  <2> DEFINE Old == {v \in versions : v.job = j}
  <2>1. IsFiniteSet(Old) /\ Cardinality(Old) = accepted[j]
    BY <1>1, FS_Subset DEF StorageInv, AcceptedRunPerVersion
  <2>2. CASE j = task[e]
    <3>1. {v \in versions' : v.job = j} = Old \cup {new} /\ new \notin Old
      BY <1>3, <2>2
    <3>2. Cardinality(Old \cup {new}) = accepted[j] + 1
      BY <2>1, <3>1, FS_AddElement
    <3>3. accepted'[j] = accepted[j] + 1
      BY <1>1, <2>2 DEF StoreCommit, Stored, StorageInv, NumberingInv, TypeOK
    <3> QED
      BY <3>1, <3>2, <3>3
  <2>3. CASE j # task[e]
    <3>1. {v \in versions' : v.job = j} = Old
      BY <1>3, <2>3
    <3>2. accepted'[j] = accepted[j]
      BY <2>3 DEF StoreCommit, Stored, StorageInv, NumberingInv, TypeOK
    <3> QED
      BY <2>1, <3>1, <3>2
  <2> QED
    BY <2>2, <2>3
<1> QED
  BY <1>4, <1>5, <1>6, <1>7 DEF StorageInv, NumberingInv

(* Types are kept by every action.                                          *)
LEMMA TypeStep == TypeOK /\ IsFiniteSet(versions) /\ HeldNumber /\ NumbersContiguous
                    /\ [Next]_vars => TypeOK'
<1> SUFFICES ASSUME NumberingInv, [Next]_vars PROVE TypeOK'
  BY DEF NumberingInv
<1> USE DEF NumberingInv, TypeOK, Lines, Goto, tables
<1>0. ASSUME NEW e \in Executions, Leave(e)
      PROVE  /\ pc' \in [Executions -> Lines]
             /\ task' \in [Executions -> Jobs \cup {NoJob}]
             /\ asked' \in [Executions -> 0..2] /\ number' \in [Executions -> Nat]
             /\ \A f \in Executions :
                    /\ pc'[f] # "idle" <=> task'[f] \in Jobs
                    /\ pc'[f] \in {"idle", "sample"} => asked'[f] = 0
                    /\ pc'[f] = "model" => asked'[f] < 2
  BY <1>0, TaxonomyAssumption DEF Leave
<1>1. CASE ReviewArrives
  BY <1>1 DEF ReviewArrives
<1>2. ASSUME NEW e \in Executions, NEW j \in Jobs, Start(e, j) PROVE TypeOK'
  BY <1>2 DEF Start
<1>3. ASSUME NEW e \in Executions, Sample(e) PROVE TypeOK'
  BY <1>3 DEF Sample
<1>4. ASSUME NEW e \in Executions, Reply(e) PROVE TypeOK'
  <2>1. asked[e] = 0 \/ asked[e] = 1
    BY <1>4 DEF Reply
  <2> QED
    BY <1>4, <2>1 DEF Reply
<1>5. ASSUME NEW e \in Executions, Reject(e) PROVE TypeOK'
  BY <1>5 DEF Reject
<1>6. ASSUME NEW e \in Executions, StoreRead(e) PROVE TypeOK'
  <2>1. NextVersionNumber \in Nat
    BY HighestIsCount, FS_CardinalityType DEF NextVersionNumber
  <2> QED
    BY <1>6, <2>1 DEF StoreRead
<1>7. ASSUME NEW e \in Executions, StoreCommit(e) PROVE TypeOK'
  <2>1. number[e] \in Nat \ {0} /\ task[e] \in Jobs
    BY <1>7, FS_CardinalityType DEF StoreCommit, HeldNumber
  <2> QED
    BY <1>7, <2>1 DEF StoreCommit, Stored
<1>8. ASSUME NEW e \in Executions, StoreRefused(e) \/ Abort(e) PROVE TypeOK'
  BY <1>0, <1>8 DEF StoreRefused, Abort
<1>9. ASSUME NEW e \in Executions, Settle(e) PROVE TypeOK'
  BY <1>0, <1>9 DEF Settle
<1>10. CASE UNCHANGED vars
  BY <1>10 DEF vars
<1> QED
  BY <1>1, <1>2, <1>3, <1>4, <1>5, <1>6, <1>7, <1>8, <1>9, <1>10 DEF Next

(* Only StoreRead hands out a number, and it is the next one.               *)
LEMMA HeldStep ==
    ASSUME NumberingInv, TypeOK', UNCHANGED versions,
           [Next]_vars
    PROVE  HeldNumber'
<1> SUFFICES ASSUME NEW f \in Executions, pc'[f] = "insert"
             PROVE  number'[f] \in 1..(Cardinality(versions) + 1)
  BY DEF HeldNumber
<1>1. pc[f] = "insert" => number[f] \in 1..(Cardinality(versions) + 1)
  BY DEF NumberingInv, HeldNumber
<1> DEFINE Kept == pc[f] = "insert" /\ number'[f] = number[f]
<1> USE DEF NumberingInv, TypeOK, Goto
<1>2. CASE ReviewArrives \/ UNCHANGED vars
  BY <1>1, <1>2 DEF ReviewArrives, vars
<1>3. ASSUME NEW e \in Executions, NEW j \in Jobs, Start(e, j) PROVE Kept
  BY <1>3 DEF Start
<1>4. ASSUME NEW e \in Executions, Sample(e) \/ Reply(e) \/ Reject(e) PROVE Kept
  BY <1>4 DEF Sample, Reply, Reject
<1>5. ASSUME NEW e \in Executions, StoreRead(e) PROVE number'[f] \in 1..(Cardinality(versions) + 1)
  <2>1. CASE f = e
    <3>1. number'[e] = Cardinality(versions) + 1
      BY <1>5, HighestIsCount DEF StoreRead, NextVersionNumber
    <3> QED
      BY <2>1, <3>1, FS_CardinalityType
  <2>2. CASE f # e
    BY <1>1, <1>5, <2>2 DEF StoreRead
  <2> QED
    BY <2>1, <2>2
<1>6. ASSUME NEW e \in Executions, StoreCommit(e) PROVE Kept
  BY <1>6 DEF StoreCommit, Stored
<1>7. ASSUME NEW e \in Executions, StoreRefused(e) \/ Settle(e) \/ Abort(e) PROVE Kept
  BY <1>7 DEF StoreRefused, Settle, Abort, Leave
<1> QED
  BY <1>1, <1>2, <1>3, <1>4, <1>5, <1>6, <1>7 DEF Next

(* One step of the proof for the action that stores, one for the others.    *)
LEMMA StorageStep == StorageInv /\ [Next]_vars => StorageInv'
<1> SUFFICES ASSUME StorageInv, [Next]_vars PROVE StorageInv'
  OBVIOUS
<1>1. TypeOK'
  BY TypeStep DEF StorageInv, NumberingInv
<1>2. ASSUME NEW e \in Executions, StoreCommit(e) PROVE StorageInv'
  BY <1>1, <1>2, StoreKeeps
<1>3. CASE ~\E e \in Executions : StoreCommit(e)
  <2>1. UNCHANGED <<versions, accepted>>
    BY <1>3 DEF Next, vars, tables, ReviewArrives, Start, Sample, Reply, Reject, StoreRead,
                StoreRefused, Settle, Abort
  <2>2. HeldNumber'
    BY <1>1, <2>1, HeldStep DEF StorageInv
  <2> QED
    BY <1>1, <2>1, <2>2, NothingStored
<1> QED
  BY <1>2, <1>3

(* The invariant holds in every reachable state. *)
THEOREM StorageInvariant == Spec => []StorageInv
  BY StorageInit, StorageStep, PTL DEF Spec

(* Concurrent and dying executions leave version numbers without a gap and  *)
(* without a duplicate (_next_version_number, unique version_number).       *)
THEOREM NumbersAreContiguous == Spec => []NumbersContiguous
<1>1. StorageInv => NumbersContiguous
  BY DEF StorageInv, NumberingInv
<1> QED
  BY <1>1, StorageInvariant, PTL

(* Successful model runs and versions correspond one to one per job: the    *)
(* transaction of _store is all or nothing.                                 *)
THEOREM RunAndVersionTogether == Spec => []AcceptedRunPerVersion
<1>1. StorageInv => AcceptedRunPerVersion
  BY DEF StorageInv
<1> QED
  BY <1>1, StorageInvariant, PTL

-----------------------------------------------------------------------------
(* The trace of a rejection.                                               *)

(* An execution on its way to record a rejection has had both replies.      *)
TraceInv ==
    /\ \A e \in Executions : pc[e] = "reject" => asked[e] = 2
    /\ RejectionLeavesTrace

(* A recorded rejection stays recorded.                                     *)
LEMMA RejectionsStay ==
    ASSUME TypeOK, [Next]_vars
    PROVE  \A j \in Jobs : rejected[j] => rejected'[j]
<1>1. \A e \in Executions : Reject(e) => rejected' = [rejected EXCEPT ![task[e]] = TRUE]
  BY DEF Reject
<1>2. (\E e \in Executions : Reject(e)) \/ rejected' = rejected
  BY DEF Next, vars, tables, ReviewArrives, Start, Sample, Reply, StoreRead, StoreCommit,
         Stored, StoreRefused, Settle, Abort
<1> QED
  BY <1>1, <1>2 DEF TypeOK

(* Only Reply leads to a rejection, after the second reply, and only Sample *)
(* and Reject to a permanent failure: one before any reply, the other with  *)
(* the rejection recorded.                                                  *)
LEMMA TraceStep == TypeOK /\ TraceInv /\ [Next]_vars => TraceInv'
<1> SUFFICES ASSUME TypeOK, TraceInv, [Next]_vars, NEW f \in Executions
             PROVE  /\ pc'[f] = "reject" => asked'[f] = 2
                    /\ pc'[f] = "permanent" /\ asked'[f] > 0 =>
                            asked'[f] = 2 /\ rejected'[task'[f]]
  BY DEF TraceInv, RejectionLeavesTrace
<1> DEFINE Goal == /\ pc'[f] = "reject" => asked'[f] = 2
                   /\ pc'[f] = "permanent" /\ asked'[f] > 0 =>
                          asked'[f] = 2 /\ rejected'[task'[f]]
           Same == pc'[f] = pc[f] /\ asked'[f] = asked[f] /\ task'[f] = task[f]
<1>1. Same => Goal
  <2> SUFFICES ASSUME Same PROVE Goal
    OBVIOUS
  <2>1. pc[f] = "reject" => asked[f] = 2
    BY DEF TraceInv
  <2>2. pc[f] = "permanent" /\ asked[f] > 0 => asked[f] = 2 /\ rejected[task[f]]
    BY DEF TraceInv, RejectionLeavesTrace
  <2>3. pc[f] = "permanent" => task[f] \in Jobs
    BY DEF TypeOK
  <2> QED
    BY <2>1, <2>2, <2>3, RejectionsStay
<1> USE DEF TypeOK, Goto
<1>2. CASE ReviewArrives \/ UNCHANGED vars
  BY <1>1, <1>2 DEF ReviewArrives, vars
<1>3. ASSUME NEW e \in Executions, NEW j \in Jobs, Start(e, j) PROVE Goal
  BY <1>1, <1>3 DEF Start
<1>4. ASSUME NEW e \in Executions, Sample(e) PROVE Goal
  BY <1>1, <1>4 DEF Sample
<1>5. ASSUME NEW e \in Executions, Reply(e) PROVE Goal
  <2>1. asked[e] = 0 \/ asked[e] = 1
    BY <1>5 DEF Reply
  <2> QED
    BY <1>1, <1>5, <2>1 DEF Reply
<1>6. ASSUME NEW e \in Executions, Reject(e) PROVE Goal
  <2>1. asked[e] = 2 /\ task[e] \in Jobs
    BY <1>6 DEF Reject, TraceInv
  <2> QED
    BY <1>1, <1>6, <2>1 DEF Reject
<1>7. ASSUME NEW e \in Executions, StoreRead(e) \/ StoreCommit(e) PROVE Goal
  BY <1>1, <1>7 DEF StoreRead, StoreCommit
<1>8. ASSUME NEW e \in Executions, StoreRefused(e) \/ Settle(e) \/ Abort(e) PROVE Goal
  BY <1>1, <1>8 DEF StoreRefused, Settle, Abort, Leave
<1> QED
  BY <1>2, <1>3, <1>4, <1>5, <1>6, <1>7, <1>8 DEF Next

(* Whatever overlaps or dies, a job dead-lettered over rejected replies got *)
(* its stricter retry and left its rejected run (generate_structured,       *)
(* _record_rejection).                                                      *)
THEOREM RejectionIsTraced == Spec => []RejectionLeavesTrace
<1>1. Init => TraceInv
  BY DEF Init, TraceInv, RejectionLeavesTrace
<1>2. StorageInv => TypeOK
  BY DEF StorageInv, NumberingInv
<1>3. TraceInv => RejectionLeavesTrace
  BY DEF TraceInv
<1> QED
  BY <1>1, <1>2, <1>3, TraceStep, StorageInvariant, PTL DEF Spec

-----------------------------------------------------------------------------
(* TaxonomyTree *)

(* The reply and its plan *)

Children(c) == Len(reply[c].children)

LEMMA ReplyTyped ==
    ASSUME reply \in GeneratedTaxonomies
    PROVE  /\ Len(reply) \in Nat \ {0} /\ DOMAIN reply = 1 .. Len(reply)
           /\ \A c \in DOMAIN reply :
                /\ reply[c].name \in Names
                /\ reply[c].children \in Seq(Names)
                /\ Children(c) \in Nat /\ DOMAIN reply[c].children = 1 .. Children(c)
<1> DEFINE Kids == SeqsUpTo(Names, 0, MaxChildren)
           Category == [name : Names, children : Kids]
<1>1. PICK n \in 1 .. MaxNodes : reply \in [1 .. n -> Category]
  BY DEF GeneratedTaxonomies, SeqsUpTo
<1>2. n \in Nat \ {0}
  BY TreeAssumption
<1>3. \A k \in Kids : k \in Seq(Names) /\ Len(k) \in Nat /\ DOMAIN k = 1 .. Len(k)
  <2> TAKE k \in Kids
  <2>1. PICK m \in 0 .. MaxChildren : k \in [1 .. m -> Names]
    BY DEF SeqsUpTo
  <2>2. m \in Nat
    BY TreeAssumption
  <2> QED
    BY <2>1, <2>2
<1> HIDE DEF Kids
<1>4. Len(reply) = n /\ DOMAIN reply = 1 .. n
  BY <1>1, <1>2
<1>5. \A c \in 1 .. n : reply[c].name \in Names /\ reply[c].children \in Kids
  BY <1>1
<1> QED
  BY <1>2, <1>3, <1>4, <1>5 DEF Children

LEMMA IndexedIsSeq ==
    ASSUME NEW S, NEW n \in Nat, NEW f \in [1 .. n -> S]
    PROVE  f \in Seq(S) /\ Len(f) = n /\ DOMAIN f = 1 .. n
  OBVIOUS

LEMMA SeqIsIndexed ==
    ASSUME NEW S, NEW s \in Seq(S)
    PROVE  Len(s) \in Nat /\ s = [r \in 1 .. Len(s) |-> s[r]] /\ \A r \in 1 .. Len(s) : s[r] \in S
  OBVIOUS

LEMMA Joined ==
    ASSUME NEW S, NEW s \in Seq(S), NEW t \in Seq(S)
    PROVE  /\ s \o t \in Seq(S) /\ Len(s \o t) = Len(s) + Len(t)
           /\ \A r \in 1 .. Len(s) : (s \o t)[r] = s[r]
           /\ \A n \in 1 .. Len(t) : (s \o t)[Len(s) + n] = t[n]
<1>1. s \o t \in Seq(S) /\ Len(s \o t) = Len(s) + Len(t)
  OBVIOUS
<1>2. \A r \in 1 .. Len(s) : (s \o t)[r] = s[r]
  OBVIOUS
<1>3. \A n \in 1 .. Len(t) : (s \o t)[Len(s) + n] = t[n]
  OBVIOUS
<1> QED
  BY <1>1, <1>2, <1>3

(* The nodes of the first m categories. *)
Places(m) == {p \in (1 .. m) \X Nat : p[2] <= Children(p[1])}

Sooner(p, q) == p[1] < q[1] \/ (p[1] = q[1] /\ p[2] < q[2])

(* s lists the nodes of the first m categories in the order of the loops. *)
Lists(s, m) ==
    /\ s \in Seq((1 .. m) \X Nat)
    /\ \A p \in (1 .. m) \X Nat : p \in Places(m) <=> \E r \in 1 .. Len(s) : s[r] = p
    /\ \A q, r \in 1 .. Len(s) : q < r => Sooner(s[q], s[r])

Branch(c) == [n \in 1 .. Children(c) + 1 |-> <<c, n - 1>>]

LEMMA BranchLists ==
    ASSUME NEW c \in Nat, Children(c) \in Nat
    PROVE  /\ Len(Branch(c)) = Children(c) + 1 /\ Branch(c) \in Seq({c} \X Nat)
           /\ \A n \in 1 .. Children(c) + 1 : Branch(c)[n] = <<c, n - 1>>
<1>1. Branch(c) \in [1 .. Children(c) + 1 -> {c} \X Nat]
  BY DEF Branch
<1>2. Children(c) + 1 \in Nat
  OBVIOUS
<1>3. \A n \in 1 .. Children(c) + 1 : Branch(c)[n] = <<c, n - 1>>
  BY DEF Branch
<1> QED
  BY <1>1, <1>2, <1>3, IndexedIsSeq

LEMMA FirstBranch ==
    ASSUME Children(1) \in Nat PROVE Lists(Branch(1), 1)
<1> DEFINE s == Branch(1)
<1>1. /\ Len(s) = Children(1) + 1 /\ s \in Seq({1} \X Nat)
      /\ \A n \in 1 .. Children(1) + 1 : s[n] = <<1, n - 1>>
  BY BranchLists
<1> HIDE DEF s
<1>2. 1 .. 1 = {1}
  OBVIOUS
<1>3. \A p \in {1} \X Nat : p[2] <= Children(1) <=> \E r \in 1 .. Len(s) : s[r] = p
  <2> TAKE p \in {1} \X Nat
  <2>1. p = <<1, p[2]>> /\ p[2] \in Nat
    OBVIOUS
  <2>2. ASSUME p[2] <= Children(1) PROVE \E r \in 1 .. Len(s) : s[r] = p
    <3>0. p[2] + 1 \in 1 .. Children(1) + 1 /\ p[2] + 1 - 1 = p[2]
      BY <2>1, <2>2
    <3>1. p[2] + 1 \in 1 .. Len(s) /\ s[p[2] + 1] = p
      BY <1>1, <2>1, <3>0
    <3> QED
      BY <3>1
  <2>3. ASSUME NEW r \in 1 .. Len(s), s[r] = p PROVE p[2] <= Children(1)
    BY <1>1, <2>3
  <2> QED
    BY <2>2, <2>3
<1>4. \A q, r \in 1 .. Len(s) : q < r => Sooner(s[q], s[r])
  BY <1>1 DEF Sooner
<1> QED
  BY <1>1, <1>2, <1>3, <1>4 DEF Lists, Places, s

LEMMA NextBranch ==
    ASSUME NEW m \in Nat \ {0}, NEW s, Lists(s, m), Children(m + 1) \in Nat
    PROVE  Lists(s \o Branch(m + 1), m + 1)
<1> DEFINE b == Branch(m + 1)  L == Len(s)  K == Children(m + 1)  t == s \o b
<1>1. /\ Len(b) = K + 1 /\ b \in Seq({m + 1} \X Nat)
      /\ \A n \in 1 .. K + 1 : b[n] = <<m + 1, n - 1>>
  <2>1. m + 1 \in Nat
    OBVIOUS
  <2> QED
    BY <2>1, BranchLists
<1>2. /\ s \in Seq((1 .. m) \X Nat) /\ L \in Nat
      /\ \A r \in 1 .. L : s[r] \in (1 .. m) \X Nat
  BY DEF Lists
<1>3. (1 .. m) \X Nat \subseteq (1 .. m + 1) \X Nat /\ {m + 1} \X Nat \subseteq (1 .. m + 1) \X Nat
  OBVIOUS
<1> HIDE DEF b
<1>4. s \in Seq((1 .. m + 1) \X Nat) /\ b \in Seq((1 .. m + 1) \X Nat)
  BY <1>1, <1>2, <1>3
<1> HIDE DEF K
<1>5. t \in Seq((1 .. m + 1) \X Nat) /\ Len(t) = L + (K + 1)
  <2>1. t \in Seq((1 .. m + 1) \X Nat) /\ Len(t) = L + Len(b)
    BY <1>4, Joined
  <2> HIDE DEF t, L
  <2> QED
    BY <1>1, <2>1
<1>6. /\ \A r \in 1 .. L : t[r] = s[r]
      /\ \A n \in 1 .. K + 1 : t[L + n] = <<m + 1, n - 1>>
  <2>1. /\ \A r \in 1 .. L : t[r] = s[r]
        /\ \A n \in 1 .. Len(b) : t[L + n] = b[n]
    BY <1>4, Joined
  <2> QED
    BY <1>1, <2>1
<1> HIDE DEF t, L
<1>7. \A r \in 1 .. Len(t) : r \in 1 .. L \/ \E n \in 1 .. K + 1 : r = L + n
  <2> TAKE r \in 1 .. Len(t)
  <2>1. L \in Nat /\ K \in Nat
    BY <1>2 DEF K
  <2>2. CASE r <= L
    BY <2>1, <2>2
  <2>3. CASE r > L
    <3>1. r - L \in 1 .. K + 1 /\ r = L + (r - L)
      BY <1>5, <2>1, <2>3
    <3> QED
      BY <3>1
  <2> QED
    BY <2>1, <2>2, <2>3
<1>8. \A p \in (1 .. m + 1) \X Nat : p \in Places(m + 1) <=> \E r \in 1 .. Len(t) : t[r] = p
  <2> TAKE p \in (1 .. m + 1) \X Nat
  <2>1. p = <<p[1], p[2]>> /\ p[1] \in 1 .. m + 1 /\ p[2] \in Nat /\ L \in Nat /\ K \in Nat
    BY <1>2 DEF K
  <2>2. p \in Places(m + 1) <=> p[2] <= Children(p[1])
    BY DEF Places
  <2>3. CASE p[1] = m + 1
    <3>1. ASSUME p[2] <= K PROVE \E r \in 1 .. Len(t) : t[r] = p
      <4>0. p[2] + 1 \in 1 .. K + 1 /\ p[2] + 1 - 1 = p[2]
        BY <2>1, <3>1
      <4>3. \A x \in 1 .. K + 1 : L + x \in 1 .. Len(t)
        BY <1>5, <2>1
      <4>1. L + (p[2] + 1) \in 1 .. Len(t)
        BY <4>0, <4>3
      <4>2. t[L + (p[2] + 1)] = <<m + 1, p[2]>>
        BY <1>6, <4>0
      <4> QED
        BY <2>1, <2>3, <4>1, <4>2
    <3>2. ASSUME NEW r \in 1 .. Len(t), t[r] = p PROVE p[2] <= K
      <4>1. r \notin 1 .. L
        BY <1>2, <1>6, <2>3, <3>2
      <4>2. PICK n \in 1 .. K + 1 : r = L + n
        BY <1>7, <4>1
      <4>3. p = <<m + 1, n - 1>>
        BY <1>6, <3>2, <4>2
      <4>4. p[2] = n - 1
        BY <4>3
      <4> QED
        BY <2>1, <4>4
    <3> QED
      BY <2>2, <2>3, <3>1, <3>2 DEF K
  <2>4. CASE p[1] # m + 1
    <3>1. p[1] \in 1 .. m /\ p \in (1 .. m) \X Nat
      BY <2>1, <2>4
    <3>2. p \in Places(m + 1) <=> \E r \in 1 .. L : s[r] = p
      BY <2>2, <3>1 DEF Lists, Places, L
    <3>3. ASSUME NEW r \in 1 .. Len(t), t[r] = p PROVE \E q \in 1 .. L : s[q] = p
      BY <1>6, <1>7, <2>4, <3>3
    <3>4. ASSUME NEW r \in 1 .. L, s[r] = p PROVE \E q \in 1 .. Len(t) : t[q] = p
      <4>1. r \in 1 .. Len(t)
        BY <1>5, <2>1
      <4> QED
        BY <1>6, <3>4, <4>1
    <3> QED
      BY <3>2, <3>3, <3>4
  <2> QED
    BY <2>3, <2>4
<1>9. \A q, r \in 1 .. Len(t) : q < r => Sooner(t[q], t[r])
  <2> SUFFICES ASSUME NEW q \in 1 .. Len(t), NEW r \in 1 .. Len(t), q < r PROVE Sooner(t[q], t[r])
    OBVIOUS
  <2>1. L \in Nat
    BY <1>2
  <2>2. CASE r \in 1 .. L
    <3>1. q \in 1 .. L
      BY <2>1, <2>2
    <3>2. Sooner(s[q], s[r])
      BY <2>2, <3>1 DEF Lists, L
    <3> QED
      BY <1>6, <2>2, <3>1, <3>2
  <2>3. ASSUME NEW n \in 1 .. K + 1, r = L + n PROVE Sooner(t[q], t[r])
    <3>1. t[r] = <<m + 1, n - 1>>
      BY <1>6, <2>3
    <3>2. CASE q \in 1 .. L
      <4>1. t[q] \in (1 .. m) \X Nat
        BY <1>2, <1>6, <3>2
      <4>2. t[q][1] < t[r][1]
        BY <3>1, <4>1
      <4> QED
        BY <4>2 DEF Sooner
    <3>3. ASSUME NEW k \in 1 .. K + 1, q = L + k PROVE Sooner(t[q], t[r])
      <4>1. t[q] = <<m + 1, k - 1>> /\ k < n
        BY <1>6, <2>1, <2>3, <3>3
      <4> QED
        BY <3>1, <4>1 DEF Sooner
    <3> QED
      BY <1>7, <3>2, <3>3
  <2> QED
    BY <1>7, <2>2, <2>3
<1> QED
  BY <1>5, <1>8, <1>9 DEF Lists, t, b

(* FlattenSeq's recursion has a solution. *)
Then(s, t) == s \o t

Flattening(g, seqs) ==
    g = [i \in 1 .. Len(seqs) |-> IF i = 1 THEN seqs[i] ELSE Then(g[i - 1], seqs[i])]

LEMMA FlatteningExists ==
    ASSUME NEW seqs, Len(seqs) \in Nat PROVE \E g : Flattening(g, seqs)
<1> DEFINE Upto(g, n) ==
               g = [i \in 1 .. n |-> IF i = 1 THEN seqs[i] ELSE Then(g[i - 1], seqs[i])]
           P == {n \in Nat : \E g : Upto(g, n)}
<1>1. 0 \in P
  <2>1. Upto([i \in 1 .. 0 |-> 0], 0)
    OBVIOUS
  <2> QED
    BY <2>1
<1>2. ASSUME NEW n \in Nat, n \in P PROVE n + 1 \in P
  <2>1. PICK g : Upto(g, n)
    BY <1>2
  <2> DEFINE h == [i \in 1 .. n + 1 |->
                      IF i = n + 1 THEN (IF i = 1 THEN seqs[i] ELSE Then(g[n], seqs[i])) ELSE g[i]]
  <2>2. \A i \in 1 .. n : g[i] = IF i = 1 THEN seqs[i] ELSE Then(g[i - 1], seqs[i])
    BY <2>1
  <2>3. h[n + 1] = IF n + 1 = 1 THEN seqs[n + 1] ELSE Then(h[n], seqs[n + 1])
    <3>1. n + 1 \in 1 .. n + 1
      OBVIOUS
    <3>2. CASE n = 0
      BY <3>1, <3>2
    <3>3. CASE n # 0
      <4>1. n \in 1 .. n + 1 /\ n # n + 1
        BY <3>3
      <4>2. h[n] = g[n]
        BY <4>1
      <4>3. h[n + 1] = Then(g[n], seqs[n + 1])
        BY <3>1, <3>3
      <4> QED
        BY <3>3, <4>2, <4>3
    <3> QED
      BY <3>2, <3>3
  <2>4. \A i \in 1 .. n : h[i] = IF i = 1 THEN seqs[i] ELSE Then(h[i - 1], seqs[i])
    <3> TAKE i \in 1 .. n
    <3>1. i \in 1 .. n + 1 /\ i # n + 1 /\ h[i] = g[i]
      OBVIOUS
    <3>2. CASE i = 1
      BY <2>2, <3>1, <3>2
    <3>3. CASE i # 1
      <4>1. i - 1 \in 1 .. n + 1 /\ i - 1 # n + 1
        BY <3>3
      <4>2. h[i - 1] = g[i - 1]
        BY <4>1
      <4> QED
        BY <2>2, <3>1, <3>3, <4>2
    <3> QED
      BY <3>2, <3>3
  <2>5. \A i \in 1 .. n + 1 : h[i] = IF i = 1 THEN seqs[i] ELSE Then(h[i - 1], seqs[i])
    <3>1. \A i \in 1 .. n + 1 : i \in 1 .. n \/ i = n + 1
      OBVIOUS
    <3>2. h[n + 1] = IF n + 1 = 1 THEN seqs[n + 1] ELSE Then(h[n + 1 - 1], seqs[n + 1])
      BY <2>3, n + 1 - 1 = n
    <3> HIDE DEF h
    <3> TAKE i \in 1 .. n + 1
    <3>3. CASE i \in 1 .. n
      BY <2>4, <3>3
    <3>4. CASE i = n + 1
      BY <3>2, <3>4
    <3> QED
      BY <3>1, <3>3, <3>4
  <2>6. h = [i \in 1 .. n + 1 |-> h[i]]
    OBVIOUS
  <2>7. Upto(h, n + 1)
    <3> HIDE DEF h
    <3> QED
      BY <2>5, <2>6
  <2> HIDE DEF h, Upto
  <2>8. n + 1 \in Nat /\ \E f : Upto(f, n + 1)
    BY <2>7
  <2> QED
    BY <2>8
<1> HIDE DEF P
<1>3. Nat \subseteq P
  BY <1>1, <1>2, CountUp
<1> QED
  BY <1>3 DEF Flattening, P

LEMMA FlattenedBy ==
    ASSUME NEW seqs, Len(seqs) \in Nat \ {0}
    PROVE  \E g : Flattening(g, seqs) /\ FlattenSeq(seqs) = g[Len(seqs)]
<1> DEFINE g == CHOOSE h : Flattening(h, seqs)
<1>1. Flattening(g, seqs)
  <2>1. \E h : Flattening(h, seqs)
    BY FlatteningExists
  <2> QED
    BY <2>1
<1>2. FlattenSeq(seqs) = g[Len(seqs)]
  BY DEF FlattenSeq, Flattening, Then
<1> QED
  BY <1>1, <1>2

(* The plan names every node of the reply once, in the order of the loops. *)
LEMMA PlanLists ==
    ASSUME reply \in GeneratedTaxonomies
    PROVE  Lists(Planned, Len(reply))
<1> DEFINE N == Len(reply)
           branches == [c \in DOMAIN reply |-> Branch(c)]
<1>1. /\ N \in Nat \ {0} /\ DOMAIN reply = 1 .. N
      /\ \A c \in 1 .. N : Children(c) \in Nat
  BY ReplyTyped
<1>2. Planned = FlattenSeq(branches)
  BY DEF Planned, Branch, Children
<1>3. Len(branches) = N /\ \A c \in 1 .. N : branches[c] = Branch(c)
  BY <1>1
<1> HIDE DEF branches
<1>4. PICK g : Flattening(g, branches) /\ Planned = g[N]
  BY <1>1, <1>2, <1>3, FlattenedBy
<1>5. \A i \in 1 .. N : g[i] = IF i = 1 THEN Branch(i) ELSE Then(g[i - 1], Branch(i))
  BY <1>3, <1>4 DEF Flattening
<1> DEFINE Q == {n \in Nat : n \in 1 .. N => Lists(g[n], n)}
<1>6. 0 \in Q
  OBVIOUS
<1>7. ASSUME NEW n \in Nat, n \in Q PROVE n + 1 \in Q
  <2> SUFFICES ASSUME n + 1 \in 1 .. N PROVE Lists(g[n + 1], n + 1)
    OBVIOUS
  <2>1. CASE n = 0
    <3>1. g[1] = Branch(1) /\ Children(1) \in Nat
      BY <1>1, <1>5, <2>1
    <3> QED
      BY <2>1, <3>1, FirstBranch
  <2>2. CASE n # 0
    <3>1. n \in 1 .. N /\ n \in Nat \ {0} /\ n + 1 # 1 /\ n + 1 - 1 = n
      BY <1>1, <2>2
    <3>2. g[n + 1] = Then(g[n], Branch(n + 1)) /\ Children(n + 1) \in Nat
      BY <1>1, <1>5, <3>1
    <3>3. Lists(g[n], n)
      BY <1>7, <3>1
    <3> QED
      BY <3>1, <3>2, <3>3, NextBranch DEF Then
  <2> QED
    BY <2>1, <2>2
<1> HIDE DEF Q
<1>8. N \in Q
  BY <1>1, <1>6, <1>7, CountUp
<1> QED
  BY <1>1, <1>4, <1>8 DEF Q

LEMMA PlanFacts ==
    ASSUME reply \in GeneratedTaxonomies
    PROVE  /\ Len(Planned) \in Nat /\ DOMAIN Planned = 1 .. Len(Planned)
           /\ \A r \in 1 .. Len(Planned) :
                /\ Planned[r][1] \in DOMAIN reply /\ Planned[r][2] \in 0 .. Children(Planned[r][1])
                /\ Planned[r] = <<Planned[r][1], Planned[r][2]>>
           /\ \A c \in DOMAIN reply : \A n \in 0 .. Children(c) :
                \E r \in 1 .. Len(Planned) : Planned[r] = <<c, n>>
           /\ \A q, r \in 1 .. Len(Planned) : Planned[q] = Planned[r] => q = r
           /\ \A r \in 1 .. Len(Planned) : Planned[r][2] # 0 =>
                \E q \in 1 .. Len(Planned) : q < r /\ Planned[q] = <<Planned[r][1], 0>>
<1> DEFINE N == Len(reply)  P == Planned  L == Len(P)
<1>1. /\ N \in Nat \ {0} /\ DOMAIN reply = 1 .. N
      /\ \A c \in 1 .. N : Children(c) \in Nat
  BY ReplyTyped
<1>2. /\ P \in Seq((1 .. N) \X Nat)
      /\ \A p \in (1 .. N) \X Nat : p \in Places(N) <=> \E r \in 1 .. L : P[r] = p
      /\ \A q, r \in 1 .. L : q < r => Sooner(P[q], P[r])
  BY PlanLists DEF Lists
<1> HIDE DEF N, P
<1>3. L \in Nat /\ DOMAIN P = 1 .. L /\ \A r \in 1 .. L : P[r] \in (1 .. N) \X Nat
  BY <1>2
<1> HIDE DEF L
<1>4. ASSUME NEW r \in 1 .. L
      PROVE  /\ P[r][1] \in 1 .. N /\ P[r][2] \in 0 .. Children(P[r][1])
             /\ P[r] = <<P[r][1], P[r][2]>>
  <2>1. P[r] \in (1 .. N) \X Nat /\ P[r] \in Places(N)
    BY <1>2, <1>3
  <2>2. P[r][2] <= Children(P[r][1])
    BY <2>1 DEF Places
  <2>3. P[r][1] \in 1 .. N /\ P[r][2] \in Nat /\ P[r] = <<P[r][1], P[r][2]>>
    BY <2>1
  <2> QED
    BY <1>1, <2>2, <2>3
<1>5. ASSUME NEW c \in 1 .. N, NEW n \in 0 .. Children(c)
      PROVE  \E r \in 1 .. L : P[r] = <<c, n>>
  <2>1. n \in Nat /\ n <= Children(c)
    BY <1>1
  <2>2. <<c, n>> \in (1 .. N) \X Nat /\ <<c, n>> \in Places(N)
    BY <2>1 DEF Places
  <2> QED
    BY <1>2, <2>2
<1>6. ASSUME NEW q \in 1 .. L, NEW r \in 1 .. L, q < r PROVE P[q] # P[r]
  <2>1. P[r][1] \in Int /\ P[r][2] \in Int
    BY <1>3
  <2>2. Sooner(P[q], P[r])
    BY <1>2, <1>6, Zenon
  <2>3. ~Sooner(P[r], P[r])
    BY <2>1 DEF Sooner
  <2> QED
    BY <2>2, <2>3
<1>7. ASSUME NEW q \in 1 .. L, NEW r \in 1 .. L, P[q] = P[r] PROVE q = r
  <2>1. q < r \/ r < q \/ q = r
    BY <1>3
  <2> QED
    BY <1>6, <1>7, <2>1
<1>8. ASSUME NEW r \in 1 .. L, P[r][2] # 0
      PROVE  \E q \in 1 .. L : q < r /\ P[q] = <<P[r][1], 0>>
  <2>1. P[r][1] \in 1 .. N /\ P[r][2] \in 0 .. Children(P[r][1])
    BY <1>4
  <2>2. 0 \in 0 .. Children(P[r][1])
    BY <1>1, <2>1
  <2>3. PICK q \in 1 .. L : P[q] = <<P[r][1], 0>>
    BY <1>5, <2>1, <2>2
  <2>4. P[q][1] = P[r][1] /\ P[q][2] = 0 /\ q # r
    BY <1>8, <2>3
  <2>5. ~Sooner(P[r], P[q])
    BY <1>1, <2>1, <2>4 DEF Sooner
  <2>6. q < r
    BY <1>2, <1>3, <2>4, <2>5
  <2> QED
    BY <2>3, <2>6
<1> QED
  BY <1>1, <1>3, <1>4, <1>5, <1>7, <1>8 DEF L, P

-----------------------------------------------------------------------------
(* Slugs *)

LEMMA LeastExists ==
    ASSUME NEW S, S \subseteq Nat, S # {}
    PROVE  \E k \in S : \A l \in S : k <= l
<1> SUFFICES ASSUME \A k \in S : \E l \in S : ~(k <= l) PROVE FALSE
  OBVIOUS
<1> DEFINE P == {n \in Nat : \A m \in 0 .. n : m \notin S}
<1>1. 0 \in P
  <2>1. 0 \notin S
    OBVIOUS
  <2> QED
    BY <2>1
<1>2. ASSUME NEW n \in Nat, n \in P PROVE n + 1 \in P
  <2>1. n + 1 \notin S
    <3> SUFFICES ASSUME n + 1 \in S PROVE FALSE
      OBVIOUS
    <3>1. PICK l \in S : ~(n + 1 <= l)
      OBVIOUS
    <3>2. l \in 0 .. n
      BY <3>1
    <3> QED
      BY <1>2, <3>2
  <2>2. \A m \in 0 .. n + 1 : m \in 0 .. n \/ m = n + 1
    OBVIOUS
  <2> QED
    BY <1>2, <2>1, <2>2
<1> HIDE DEF P
<1>3. Nat \subseteq P
  BY <1>1, <1>2, CountUp
<1>4. PICK k \in S : TRUE
  OBVIOUS
<1>5. k \in P /\ k \in 0 .. k
  BY <1>3
<1> QED
  BY <1>5 DEF P

(* A suffix is always found, and the slug is new to the version. *)
LEMMA SlugIsNew ==
    ASSUME NEW name \in Names, Len(rows) \in Nat, DOMAIN rows = 1 .. Len(rows)
    PROVE  /\ UniqueSlug(name) \notin Used
           /\ Len(UniqueSlug(name)) \in Nat /\ Len(UniqueSlug(name)) <= Len(name) + 1
           /\ Len(name) \in Nat
<1> DEFINE words == {name[w] : w \in 1 .. Len(name)} \cup Nat
<1>1. name \in Seq(words) /\ Len(name) \in Nat
  <2>1. Len(name) \in Nat /\ name = [w \in 1 .. Len(name) |-> name[w]]
    BY TreeAssumption
  <2>2. name \in [1 .. Len(name) -> words]
    BY <2>1
  <2> QED
    BY <2>1, <2>2, IndexedIsSeq
<1>2. \A k \in Nat : /\ Len(Append(name, k)) = Len(name) + 1
                     /\ Append(name, k)[Len(name) + 1] = k
  <2> HIDE DEF words
  <2>1. Nat \subseteq words
    BY DEF words
  <2> QED
    BY <1>1, <2>1
<1> HIDE DEF words
<1>3. CASE name \notin Used
  BY <1>1, <1>3 DEF UniqueSlug
<1>4. CASE name \in Used
  <2> DEFINE L == Len(rows)
             tried == 2 .. L + 2
             free == {k \in tried : Append(name, k) \notin Used}
  <2>1. free # {}
    <3> SUFFICES ASSUME free = {} PROVE FALSE
      OBVIOUS
    <3>1. \A k \in tried : \E r \in 1 .. L : rows[r].slug = Append(name, k)
      BY DEF Used
    <3> DEFINE taker == [k \in tried |-> CHOOSE r \in 1 .. L : rows[r].slug = Append(name, k)]
    <3>2. \A k \in tried : taker[k] \in 1 .. L /\ rows[taker[k]].slug = Append(name, k)
      BY <3>1
    <3>3. taker \in [tried -> 1 .. L]
      BY <3>2
    <3>4. /\ IsFiniteSet(tried) /\ Cardinality(tried) = L + 1
          /\ IsFiniteSet(1 .. L) /\ Cardinality(1 .. L) = L
      <4>1. IsFiniteSet(2 .. L + 2) /\ Cardinality(2 .. L + 2) = IF 2 > L + 2 THEN 0 ELSE L + 2 - 2 + 1
        BY 2 \in Int, L + 2 \in Int, FS_Interval
      <4>2. IsFiniteSet(1 .. L) /\ Cardinality(1 .. L) = IF 1 > L THEN 0 ELSE L - 1 + 1
        BY 1 \in Int, L \in Int, FS_Interval
      <4> QED
        BY <4>1, <4>2
    <3> HIDE DEF taker, tried
    <3>5. PICK k \in tried, l \in tried : k # l /\ taker[k] = taker[l]
      <4>1. Cardinality(1 .. L) < Cardinality(tried)
        BY <3>4
      <4> QED
        BY <3>3, <3>4, <4>1, FS_PigeonHole
    <3>6. Append(name, k) = Append(name, l)
      BY <3>2, <3>5
    <3>7. k \in Nat /\ l \in Nat
      BY DEF tried
    <3> QED
      BY <1>2, <3>5, <3>6, <3>7
  <2>2. free \subseteq Nat
    OBVIOUS
  <2>3. UniqueSlug(name) = Append(name, CHOOSE k \in free : \A l \in free : k <= l)
    BY <1>4 DEF UniqueSlug
  <2> DEFINE least == CHOOSE k \in free : \A l \in free : k <= l
  <2>4. least \in free
    <3> HIDE DEF free
    <3>1. \E k \in free : \A l \in free : k <= l
      BY <2>1, <2>2, LeastExists
    <3> QED
      BY <3>1
  <2> HIDE DEF least
  <2>5. least \in Nat /\ Append(name, least) \notin Used
    BY <2>4
  <2>6. UniqueSlug(name) = Append(name, least)
    BY <2>3 DEF least
  <2> QED
    BY <1>1, <1>2, <2>5, <2>6
<1> QED
  BY <1>3, <1>4

-----------------------------------------------------------------------------
(* Storing *)

LEMMA RowsTyped ==
    ASSUME Len(rows) \in Nat, rows = [r \in 1 .. Len(rows) |-> rows[r]]
    PROVE  DOMAIN rows = 1 .. Len(rows) /\ \E S : rows \in Seq(S)
<1> DEFINE S == {rows[r] : r \in 1 .. Len(rows)}
<1>1. rows \in [1 .. Len(rows) -> S]
  OBVIOUS
<1>2. rows \in Seq(S) /\ DOMAIN rows = 1 .. Len(rows)
  BY <1>1, IndexedIsSeq
<1> QED
  BY <1>2

LEMMA Appended ==
    ASSUME NEW S, NEW s \in Seq(S), NEW e, NEW L, L = Len(s)
    PROVE  /\ L \in Nat /\ Len(Append(s, e)) = L + 1
           /\ Append(s, e) = [r \in 1 .. L + 1 |-> Append(s, e)[r]]
           /\ \A r \in 1 .. L : Append(s, e)[r] = s[r]
           /\ Append(s, e)[L + 1] = e
<1> DEFINE T == S \cup {e}
<1>1. s \in Seq(T) /\ e \in T /\ L \in Nat
  OBVIOUS
<1> HIDE DEF T
<1>2. Append(s, e) \in Seq(T) /\ Len(Append(s, e)) = L + 1
  BY <1>1
<1>3. /\ \A r \in 1 .. L : Append(s, e)[r] = s[r]
      /\ Append(s, e)[L + 1] = e
  BY <1>1
<1>4. Append(s, e) = [r \in 1 .. L + 1 |-> Append(s, e)[r]]
  BY <1>2, SeqIsIndexed
<1> QED
  BY <1>1, <1>2, <1>3, <1>4

LEMMA TreeInitially == TreeInit => TreeInv
<1> SUFFICES ASSUME TreeInit PROVE TreeInv
  OBVIOUS
<1>1. /\ reply \in GeneratedTaxonomies /\ progress = "storing" /\ rows = <<>>
      /\ attached = [p \in {0} |-> <<>>]
  BY DEF TreeInit
<1>2. Len(rows) = 0 /\ DOMAIN rows = {} /\ rows = [r \in 1 .. Len(rows) |-> rows[r]]
  BY <1>1
<1>3. RowsFollowPlan
  BY <1>1, <1>2, PlanFacts DEF RowsFollowPlan
<1> QED
  BY <1>1, <1>2, <1>3 DEF TreeInv

LEMMA NamesTyped ==
    ASSUME reply \in GeneratedTaxonomies, NEW c \in DOMAIN reply, NEW n \in 0 .. Children(c)
    PROVE  /\ NameAt(c, n) \in Names
           /\ NameAt(c, n) \in {reply[c].name} \cup ToSet(reply[c].children)
<1>1. /\ reply[c].name \in Names /\ reply[c].children \in Seq(Names)
      /\ Children(c) \in Nat /\ DOMAIN reply[c].children = 1 .. Children(c)
  BY ReplyTyped
<1>2. CASE n = 0
  BY <1>1, <1>2 DEF NameAt
<1>3. CASE n # 0
  <2>1. n \in DOMAIN reply[c].children
    BY <1>1, <1>3
  <2>2. reply[c].children[n] \in Names /\ reply[c].children[n] \in ToSet(reply[c].children)
    BY <1>1, <2>1 DEF ToSet
  <2> QED
    BY <1>3, <2>2 DEF NameAt
<1> QED
  BY <1>2, <1>3

(* The row stored follows the plan: its category has been stored before.    *)
LEMMA StoreKeepsPlan ==
    ASSUME TreeInv, progress = "storing", Len(rows) < Len(Planned), reply' = reply,
           rows' = Append(rows, Node(NextNode[1], NextNode[2]))
    PROVE  RowsFollowPlan' /\ Len(rows') \in Nat /\ rows' = [r \in 1 .. Len(rows') |-> rows'[r]]
<1> DEFINE L == Len(rows)  c == NextNode[1]  n == NextNode[2]  row == Node(c, n)
<1>1. /\ reply \in GeneratedTaxonomies /\ RowsFollowPlan
      /\ Len(rows) \in Nat /\ rows = [r \in 1 .. Len(rows) |-> rows[r]]
  BY DEF TreeInv
<1>2. DOMAIN rows = 1 .. L
  BY <1>1, RowsTyped
<1>3. /\ Len(rows') = L + 1 /\ rows' = [r \in 1 .. L + 1 |-> rows'[r]]
      /\ \A r \in 1 .. L : rows'[r] = rows[r]
      /\ rows'[L + 1] = row
  <2>1. PICK S : rows \in Seq(S)
    BY <1>1, RowsTyped
  <2> HIDE DEF row
  <2> QED
    BY <2>1, Appended DEF row
<1>4. DOMAIN rows' = 1 .. L + 1
  BY <1>3
<1>5. Planned' = Planned /\ \A b, k : NameAt(b, k)' = NameAt(b, k)
  BY DEF Planned, NameAt
<1>6. L + 1 \in 1 .. Len(Planned) /\ Planned[L + 1] = <<c, n>>
  <2>1. L + 1 \in 1 .. Len(Planned)
    BY <1>1, PlanFacts
  <2> QED
    BY <1>1, <2>1, PlanFacts DEF NextNode
<1> HIDE DEF c, n, L
<1>7. /\ row.name = NameAt(c, n)
      /\ row.depth = IF n = 0 THEN 0 ELSE 1
      /\ row.sort_order = IF n = 0 THEN c - 1 ELSE n - 1
      /\ row.parent = IF n = 0 THEN 0 ELSE RowOf(c)
  BY DEF Node
<1> HIDE DEF row
<1>8. n # 0 => RowOf(c) \in 1 .. L /\ Planned[RowOf(c)] = <<c, 0>>
  <2> SUFFICES ASSUME n # 0 PROVE RowOf(c) \in 1 .. L /\ Planned[RowOf(c)] = <<c, 0>>
    OBVIOUS
  <2>1. PICK q \in 1 .. Len(Planned) : q < L + 1 /\ Planned[q] = <<c, 0>>
    BY <1>1, <1>6, PlanFacts
  <2>2. q \in DOMAIN rows
    BY <1>1, <1>2, <2>1 DEF L
  <2> QED
    BY <1>2, <2>1, <2>2 DEF RowOf
<1>9. L \in Nat /\ L + 1 <= Len(Planned)
  BY <1>1, <1>6, PlanFacts DEF L
<1>10. ASSUME NEW r \in 1 .. L + 1
       PROVE  LET b == Planned[r][1]
                  k == Planned[r][2]
              IN  /\ rows'[r].name = NameAt(b, k)
                  /\ rows'[r].depth = IF k = 0 THEN 0 ELSE 1
                  /\ rows'[r].sort_order = IF k = 0 THEN b - 1 ELSE k - 1
                  /\ IF k = 0 THEN rows'[r].parent = 0
                     ELSE rows'[r].parent \in 1 .. L + 1 /\ Planned[rows'[r].parent] = <<b, 0>>
  <2>1. CASE r \in 1 .. L
    <3>1. rows'[r] = rows[r]
      BY <1>3, <2>1
    <3>2. \A q \in 1 .. L : q \in 1 .. L + 1
      BY <1>9
    <3> DEFINE at == Planned[r][1]  nth == Planned[r][2]
    <3>3. /\ rows[r].name = NameAt(at, nth)
          /\ rows[r].depth = IF nth = 0 THEN 0 ELSE 1
          /\ rows[r].sort_order = IF nth = 0 THEN at - 1 ELSE nth - 1
          /\ IF nth = 0 THEN rows[r].parent = 0
             ELSE rows[r].parent \in 1 .. L /\ Planned[rows[r].parent] = <<at, 0>>
      <4> HIDE DEF at, nth
      <4>1. r \in DOMAIN rows
        BY <1>2, <2>1
      <4> QED
        BY <1>1, <1>2, <4>1 DEF RowsFollowPlan, at, nth
    <3> HIDE DEF at, nth
    <3>4. IF nth = 0 THEN rows[r].parent = 0
          ELSE rows[r].parent \in 1 .. L + 1 /\ Planned[rows[r].parent] = <<at, 0>>
      BY <3>2, <3>3
    <3>5. /\ rows'[r].name = NameAt(at, nth)
          /\ rows'[r].depth = IF nth = 0 THEN 0 ELSE 1
          /\ rows'[r].sort_order = IF nth = 0 THEN at - 1 ELSE nth - 1
          /\ IF nth = 0 THEN rows'[r].parent = 0
             ELSE rows'[r].parent \in 1 .. L + 1 /\ Planned[rows'[r].parent] = <<at, 0>>
      BY <3>1, <3>3, <3>4
    <3> QED
      BY <3>5 DEF at, nth
  <2>2. CASE r = L + 1
    <3>1. rows'[r] = row /\ Planned[r][1] = c /\ Planned[r][2] = n
      BY <1>3, <1>6, <2>2
    <3>2. \A q \in 1 .. L : q \in 1 .. L + 1
      BY <1>9
    <3> QED
      BY <1>7, <1>8, <3>1, <3>2
  <2>3. r \in 1 .. L \/ r = L + 1
    BY <1>9
  <2> QED
    BY <2>1, <2>2, <2>3
<1>11. RowsFollowPlan'
  BY <1>3, <1>4, <1>5, <1>9, <1>10 DEF RowsFollowPlan
<1> QED
  BY <1>3, <1>9, <1>11

LEMMA StoreNodeKeeps == TreeInv /\ StoreNode => TreeInv'
<1> SUFFICES ASSUME TreeInv, StoreNode PROVE TreeInv'
  OBVIOUS
<1> DEFINE c == NextNode[1]  n == NextNode[2]  row == Node(c, n)
<1>1. /\ progress = "storing" /\ Len(rows) < Len(Planned)
      /\ IF Fits(row) THEN rows' = Append(rows, row) /\ progress' = progress
         ELSE rows' = <<>> /\ progress' = "refused"
      /\ reply' = reply /\ listing' = listing /\ attached' = attached
  BY DEF StoreNode
<1>2. /\ reply \in GeneratedTaxonomies /\ attached = [p \in {0} |-> <<>>]
      /\ Len(rows) \in Nat /\ rows = [r \in 1 .. Len(rows) |-> rows[r]]
  BY <1>1 DEF TreeInv
<1>3. CASE Fits(row)
  <2>1. RowsFollowPlan' /\ Len(rows') \in Nat /\ rows' = [r \in 1 .. Len(rows') |-> rows'[r]]
    BY <1>1, <1>3, StoreKeepsPlan
  <2>2. progress' = "storing"
    BY <1>1, <1>3
  <2> QED
    BY <1>1, <1>2, <2>1, <2>2 DEF TreeInv
<1>4. CASE ~Fits(row)
  <2>1. c \in DOMAIN reply /\ n \in 0 .. Children(c)
    <3>1. Len(rows) + 1 \in 1 .. Len(Planned)
      BY <1>1, <1>2, PlanFacts
    <3> QED
      BY <1>2, <3>1, PlanFacts DEF NextNode
  <2>2. /\ NameAt(c, n) \in Names
        /\ NameAt(c, n) \in {reply[c].name} \cup ToSet(reply[c].children)
    BY <1>2, <2>1, NamesTyped
  <2>3. DOMAIN rows = 1 .. Len(rows)
    BY <1>2, RowsTyped
  <2>4. row.slug = UniqueSlug(NameAt(c, n))
    BY DEF Node
  <2> HIDE DEF row, c, n
  <2>5. Len(NameAt(c, n)) >= Longest
    <3>1. /\ UniqueSlug(NameAt(c, n)) \notin Used
          /\ Len(UniqueSlug(NameAt(c, n))) \in Nat
          /\ Len(UniqueSlug(NameAt(c, n))) <= Len(NameAt(c, n)) + 1
          /\ Len(NameAt(c, n)) \in Nat
      BY <1>2, <2>2, <2>3, SlugIsNew
    <3>2. ~(Len(UniqueSlug(NameAt(c, n))) <= Longest)
      BY <1>4, <2>4, <3>1 DEF Fits
    <3> QED
      BY <3>1, <3>2, TreeAssumption
  <2>6. \E b \in DOMAIN reply :
           \E name \in {reply[b].name} \cup ToSet(reply[b].children) : Len(name) >= Longest
    BY <2>1, <2>2, <2>5
  <2>7. rows' = <<>> /\ progress' = "refused"
    BY <1>1, <1>4
  <2>8. Len(rows') \in Nat /\ rows' = [r \in 1 .. Len(rows') |-> rows'[r]]
    BY <2>7
  <2> QED
    BY <1>1, <1>2, <2>6, <2>7, <2>8 DEF TreeInv
<1> QED
  BY <1>3, <1>4

-----------------------------------------------------------------------------
(* Reading back *)

Parent(r) == rows[r].parent
Place(r)  == rows[r].sort_order

(* What the plan says of two rows: a parent is a category's row, and        *)
(* siblings have different places.                                          *)
LEMMA Related ==
    ASSUME TreeInv, progress = "listed"
    PROVE  /\ Len(rows) \in Nat /\ DOMAIN rows = 1 .. Len(rows)
           /\ \A r \in 1 .. Len(rows) :
                /\ Place(r) \in Int /\ rows[r].depth = IF Parent(r) = 0 THEN 0 ELSE 1
                /\ Parent(r) = 0 \/ (Parent(r) \in 1 .. Len(rows) /\ Parent(Parent(r)) = 0)
           /\ \A q, r \in 1 .. Len(rows) :
                Parent(q) = Parent(r) /\ Place(q) = Place(r) => q = r
<1> DEFINE L == Len(rows)
<1>1. /\ reply \in GeneratedTaxonomies /\ RowsFollowPlan /\ L = Len(Planned)
      /\ L \in Nat /\ DOMAIN rows = 1 .. L
  BY RowsTyped DEF TreeInv
<1>2. /\ Len(reply) \in Nat /\ DOMAIN reply = 1 .. Len(reply)
      /\ \A c \in DOMAIN reply : Children(c) \in Nat
  BY <1>1, ReplyTyped
<1>3. \A r \in 1 .. L :
         /\ Planned[r][1] \in Nat /\ Planned[r][2] \in Nat
         /\ Planned[r] = <<Planned[r][1], Planned[r][2]>>
  BY <1>1, <1>2, PlanFacts
<1>4. \A r \in 1 .. L :
         /\ rows[r].depth = IF Planned[r][2] = 0 THEN 0 ELSE 1
         /\ Place(r) = IF Planned[r][2] = 0 THEN Planned[r][1] - 1 ELSE Planned[r][2] - 1
         /\ IF Planned[r][2] = 0 THEN Parent(r) = 0
            ELSE Parent(r) \in 1 .. L /\ Planned[Parent(r)] = <<Planned[r][1], 0>>
  <2> HIDE DEF L
  <2> QED
    BY <1>1 DEF RowsFollowPlan, Place, Parent
<1>5. \A q, r \in 1 .. L : Planned[q] = Planned[r] => q = r
  BY <1>1, PlanFacts
<1> HIDE DEF L
<1>6. \A r \in 1 .. L : Parent(r) = 0 <=> Planned[r][2] = 0
  BY <1>1, <1>4
<1>7. ASSUME NEW r \in 1 .. L
      PROVE  /\ Place(r) \in Int /\ rows[r].depth = IF Parent(r) = 0 THEN 0 ELSE 1
             /\ Parent(r) = 0 \/ (Parent(r) \in 1 .. L /\ Parent(Parent(r)) = 0)
  <2>1. Place(r) \in Int /\ rows[r].depth = IF Parent(r) = 0 THEN 0 ELSE 1
    BY <1>3, <1>4, <1>6
  <2>2. CASE Parent(r) # 0
    <3>1. Parent(r) \in 1 .. L /\ Planned[Parent(r)] = <<Planned[r][1], 0>>
      BY <1>4, <1>6, <2>2
    <3>2. Planned[Parent(r)][2] = 0
      BY <3>1
    <3> QED
      BY <1>6, <2>1, <3>1, <3>2
  <2> QED
    BY <2>1, <2>2
<1>8. ASSUME NEW q \in 1 .. L, NEW r \in 1 .. L, Parent(q) = Parent(r), Place(q) = Place(r)
      PROVE  q = r
  <2>1. CASE Parent(r) = 0
    <3>1. Planned[q][2] = 0 /\ Planned[r][2] = 0 /\ Planned[q][1] - 1 = Planned[r][1] - 1
      BY <1>4, <1>6, <1>8, <2>1
    <3>2. Planned[q] = Planned[r]
      BY <1>3, <3>1
    <3> QED
      BY <1>5, <3>2
  <2>2. CASE Parent(r) # 0
    <3>1. Planned[q][2] # 0 /\ Planned[r][2] # 0
      BY <1>6, <1>8, <2>2
    <3>2. <<Planned[q][1], 0>> = <<Planned[r][1], 0>> /\ Planned[q][2] - 1 = Planned[r][2] - 1
      BY <1>4, <1>8, <3>1
    <3>3. Planned[q] = Planned[r]
      BY <1>3, <3>2
    <3> QED
      BY <1>5, <3>3
  <2> QED
    BY <2>1, <2>2
<1> QED
  BY <1>1, <1>7, <1>8 DEF L

(* In the listing a row's parent comes before it, and siblings come in the  *)
(* order of their places, whatever the order of rows that tie.              *)
LEMMA Listed ==
    ASSUME TreeInv, progress = "listed"
    PROVE  /\ Len(listing) = Len(rows) /\ listing \in [1 .. Len(rows) -> 1 .. Len(rows)]
           /\ \A i, j \in 1 .. Len(rows) : listing[i] = listing[j] => i = j
           /\ \A r \in 1 .. Len(rows) : \E i \in 1 .. Len(rows) : listing[i] = r
           /\ \A j \in 1 .. Len(rows) : Parent(listing[j]) # 0 =>
                \E i \in 1 .. Len(rows) : i < j /\ listing[i] = Parent(listing[j])
           /\ \A i, j \in 1 .. Len(rows) : i < j /\ Parent(listing[i]) = Parent(listing[j]) =>
                Place(listing[i]) < Place(listing[j])
<1> DEFINE L == Len(rows)
<1>1. /\ L \in Nat /\ DOMAIN rows = 1 .. L
      /\ \A r \in 1 .. L :
           /\ Place(r) \in Int /\ rows[r].depth = IF Parent(r) = 0 THEN 0 ELSE 1
           /\ Parent(r) = 0 \/ (Parent(r) \in 1 .. L /\ Parent(Parent(r)) = 0)
      /\ \A q, r \in 1 .. L : Parent(q) = Parent(r) /\ Place(q) = Place(r) => q = r
  BY Related
<1> HIDE DEF L
<1>2. ListingInOrder
  BY DEF TreeInv
<1>3. /\ listing \in [1 .. L -> 1 .. L]
      /\ \A i, j \in 1 .. L : listing[i] = listing[j] => i = j
      /\ \A r \in 1 .. L : \E i \in 1 .. L : listing[i] = r
      /\ \A i, j \in 1 .. L : i < j => ~Precedes(listing[j], listing[i])
  BY <1>1, <1>2 DEF ListingInOrder, Bijection, Injection, Surjection, IsInjective
<1>4. Len(listing) = L
  BY <1>1, <1>3, IndexedIsSeq
<1>5. ASSUME NEW j \in 1 .. L, Parent(listing[j]) # 0
      PROVE  \E i \in 1 .. L : i < j /\ listing[i] = Parent(listing[j])
  <2>1. listing[j] \in 1 .. L
    BY <1>3
  <2>2. Parent(listing[j]) \in 1 .. L /\ Parent(Parent(listing[j])) = 0
    BY <1>1, <1>5, <2>1
  <2>3. PICK i \in 1 .. L : listing[i] = Parent(listing[j])
    BY <1>3, <2>2
  <2>4. rows[listing[j]].depth = 1 /\ rows[listing[i]].depth = 0
    BY <1>1, <1>5, <2>1, <2>2, <2>3
  <2>5. Precedes(listing[i], listing[j]) /\ i # j
    BY <2>4 DEF Precedes
  <2>6. ~(j < i)
    BY <1>3, <2>5
  <2>7. i < j
    BY <1>1, <2>5, <2>6
  <2> QED
    BY <2>3, <2>7
<1>6. ASSUME NEW i \in 1 .. L, NEW j \in 1 .. L, i < j, Parent(listing[i]) = Parent(listing[j])
      PROVE  Place(listing[i]) < Place(listing[j])
  <2>1. listing[i] \in 1 .. L /\ listing[j] \in 1 .. L /\ listing[i] # listing[j]
    BY <1>1, <1>3, <1>6
  <2>2. rows[listing[i]].depth = rows[listing[j]].depth
    BY <1>1, <1>6, <2>1
  <2>3. ~Precedes(listing[j], listing[i])
    BY <1>3, <1>6
  <2>4. ~(Place(listing[j]) < Place(listing[i]))
    BY <2>2, <2>3 DEF Precedes, Place
  <2>5. Place(listing[i]) # Place(listing[j])
    BY <1>1, <1>6, <2>1
  <2>6. Place(listing[i]) \in Int /\ Place(listing[j]) \in Int
    BY <1>1, <2>1
  <2> QED
    BY <2>4, <2>5, <2>6
<1> QED
  BY <1>3, <1>4, <1>5, <1>6 DEF L

LEMMA ListKeeps == TreeInv /\ ListNodes => TreeInv'
<1> SUFFICES ASSUME TreeInv, ListNodes PROVE TreeInv'
  OBVIOUS
<1> DEFINE L == Len(rows)
<1>1. /\ progress = "storing" /\ L = Len(Planned) /\ progress' = "listed"
      /\ listing' \in Bijection(DOMAIN rows, DOMAIN rows)
      /\ \A m, n \in DOMAIN rows : m < n => ~Precedes(listing'[n], listing'[m])
      /\ reply' = reply /\ rows' = rows /\ attached' = attached
  BY DEF ListNodes
<1>2. /\ reply \in GeneratedTaxonomies /\ RowsFollowPlan /\ attached = [p \in {0} |-> <<>>]
      /\ L \in Nat /\ rows = [r \in 1 .. L |-> rows[r]]
  BY <1>1 DEF TreeInv
<1>3. Planned' = Planned /\ RowsFollowPlan'
  <2>1. Planned' = Planned /\ \A b, k : NameAt(b, k)' = NameAt(b, k)
    BY <1>1 DEF Planned, NameAt
  <2> QED
    BY <1>1, <1>2, <2>1 DEF RowsFollowPlan
<1>4. ListingInOrder'
  BY <1>1 DEF ListingInOrder, Precedes
<1>5. AttachedInOrder'
  <2>1. Len(listing') = L
    <3>1. listing' \in [1 .. L -> 1 .. L]
      BY <1>1, <1>2, RowsTyped DEF Bijection, Injection
    <3> QED
      BY <1>2, <3>1, IndexedIsSeq
  <2>2. DOMAIN attached' = {0} /\ attached'[0] = <<>> /\ Visited' = {}
    BY <1>1, <1>2 DEF Visited
  <2>3. 0 \in 0 .. Len(listing') /\ Visited' = {listing'[i] : i \in 1 .. 0}
    BY <1>2, <2>1, <2>2
  <2>4. <<>> \in Seq(Visited') /\ ToSet(<<>>) = {} /\ DOMAIN <<>> = {}
    BY DEF ToSet
  <2> QED
    BY <2>2, <2>3, <2>4 DEF AttachedInOrder
<1> QED
  BY <1>1, <1>2, <1>3, <1>4, <1>5 DEF TreeInv

LEMMA AppendedSet ==
    ASSUME NEW S, NEW s \in Seq(S), NEW e
    PROVE  /\ ToSet(Append(s, e)) = ToSet(s) \cup {e} /\ Append(s, e) \in Seq(S \cup {e})
           /\ Len(s) \in Nat /\ Len(Append(s, e)) = Len(s) + 1
           /\ DOMAIN s = 1 .. Len(s) /\ DOMAIN Append(s, e) = 1 .. Len(s) + 1
<1> DEFINE L == Len(s)  t == Append(s, e)
<1>1. /\ L \in Nat /\ Len(t) = L + 1
      /\ \A r \in 1 .. L : t[r] = s[r]
      /\ t[L + 1] = e
  BY Appended
<1>2. t \in Seq(S \cup {e})
  <2>1. s \in Seq(S \cup {e})
    OBVIOUS
  <2> QED
    BY <2>1
<1>3. DOMAIN s = 1 .. L /\ DOMAIN t = 1 .. L + 1
  BY <1>1, <1>2
<1> HIDE DEF L, t
<1>4. \A r \in 1 .. L + 1 : r \in 1 .. L \/ r = L + 1
  BY <1>1
<1>5. \A r \in 1 .. L : r \in 1 .. L + 1
  BY <1>1
<1>6. ToSet(t) = ToSet(s) \cup {e}
  <2>1. \A x \in ToSet(t) : x \in ToSet(s) \cup {e}
    BY <1>1, <1>3, <1>4 DEF ToSet
  <2>2. \A x \in ToSet(s) : x \in ToSet(t)
    BY <1>1, <1>3, <1>5 DEF ToSet
  <2>3. e \in ToSet(t)
    <3>1. L + 1 \in 1 .. L + 1
      BY <1>1
    <3> QED
      BY <1>1, <1>3, <3>1 DEF ToSet
  <2> QED
    BY <2>1, <2>2, <2>3
<1> QED
  BY <1>1, <1>2, <1>3, <1>6 DEF L, t

(* How many have been visited, and which. *)
LEMMA VisitedCounted ==
    ASSUME TreeInv, progress = "listed"
    PROVE  LET m == Cardinality(Visited)
           IN  m \in 0 .. Len(rows) /\ Visited = {listing[i] : i \in 1 .. m}
<1>1. AttachedInOrder
  BY DEF TreeInv
<1>2. PICK m \in 0 .. Len(listing) : Visited = {listing[i] : i \in 1 .. m}
  BY <1>1 DEF AttachedInOrder
<1>3. /\ Len(listing) = Len(rows) /\ Len(rows) \in Nat
      /\ listing \in [1 .. Len(rows) -> 1 .. Len(rows)]
      /\ \A i, j \in 1 .. Len(rows) : listing[i] = listing[j] => i = j
  BY Listed, Related
<1>4. m \in Nat /\ m <= Len(rows) /\ \A i \in 1 .. m : i \in 1 .. Len(rows)
  BY <1>3
<1> DEFINE f == [i \in 1 .. m |-> listing[i]]
<1>5. f \in Bijection(1 .. m, Visited)
  <2>1. f \in [1 .. m -> Visited]
    BY <1>2
  <2>2. \A i, j \in 1 .. m : f[i] = f[j] => i = j
    BY <1>3, <1>4
  <2>3. \A v \in Visited : \E i \in 1 .. m : f[i] = v
    BY <1>2
  <2> QED
    BY <2>1, <2>2, <2>3 DEF Bijection, Injection, Surjection, IsInjective
<1>6. Cardinality(Visited) = m
  <2> HIDE DEF f
  <2>1. ExistsBijection(1 .. m, Visited)
    BY <1>5 DEF ExistsBijection
  <2> QED
    BY <1>4, <2>1, FS_CountingElements
<1>7. m \in 0 .. Len(rows)
  BY <1>4
<1> QED
  BY <1>2, <1>6, <1>7, Zenon

(* A turn puts the next row of the listing under its own parent, which has  *)
(* been visited, after the siblings visited before it.                      *)
LEMMA BuildKeepsOrder ==
    ASSUME TreeInv, BuildNode
    PROVE  AttachedInOrder'
<1> DEFINE L == Len(rows)
           m == Cardinality(Visited)
           node == listing[m + 1]
           q == Parent(node)
           D == DOMAIN attached
<1>1. /\ progress = "listed" /\ m < Len(listing) /\ listing' = listing /\ rows' = rows
      /\ LET under == IF q \in Visited THEN q ELSE 0
         IN  attached' = [r \in D \cup {node} |->
                            CASE r = node  -> <<>>
                              [] r = under -> Append(attached[r], node)
                              [] OTHER     -> attached[r]]
  BY DEF BuildNode, Visited, Parent
<1>2. /\ 0 \in D
      /\ \A p \in D :
           /\ attached[p] \in Seq(Visited)
           /\ ToSet(attached[p]) = {r \in Visited : Parent(r) = p}
           /\ \A i, j \in DOMAIN attached[p] : i < j => Place(attached[p][i]) < Place(attached[p][j])
  BY <1>1 DEF TreeInv, AttachedInOrder, Parent, Place
<1>3. /\ L \in Nat /\ Len(listing) = L /\ listing \in [1 .. L -> 1 .. L]
      /\ \A i, j \in 1 .. L : listing[i] = listing[j] => i = j
      /\ \A j \in 1 .. L : Parent(listing[j]) # 0 =>
           \E i \in 1 .. L : i < j /\ listing[i] = Parent(listing[j])
      /\ \A i, j \in 1 .. L : i < j /\ Parent(listing[i]) = Parent(listing[j]) =>
           Place(listing[i]) < Place(listing[j])
  BY <1>1, Listed, Related
<1>4. m \in 0 .. L /\ Visited = {listing[i] : i \in 1 .. m}
  BY <1>1, VisitedCounted
<1>5. D = Visited \cup {0}
  BY <1>2 DEF Visited
<1> HIDE DEF L, m
<1>6. m + 1 \in 1 .. L /\ node \in 1 .. L /\ node # 0 /\ \A i \in 1 .. m : i \in 1 .. L /\ i < m + 1
  BY <1>1, <1>3, <1>4
<1> HIDE DEF node
<1>7. \A i \in 1 .. L : listing[i] = node => i = m + 1
  BY <1>3, <1>6 DEF node
<1>8. node \notin Visited
  BY <1>4, <1>6, <1>7
<1>9. \A r \in Visited : \E i \in 1 .. m : listing[i] = r
  BY <1>4
<1>10. q # 0 => q \in Visited
  <2> SUFFICES ASSUME q # 0 PROVE q \in Visited
    OBVIOUS
  <2>1. PICK i \in 1 .. L : i < m + 1 /\ listing[i] = q
    BY <1>3, <1>6 DEF node
  <2>2. i \in 1 .. m
    BY <1>4, <2>1
  <2> QED
    BY <1>4, <2>1, <2>2
<1>11. q \in D /\ q # node
  BY <1>5, <1>6, <1>8, <1>10
<1>12. \A r \in Visited : Parent(r) # node
  <2> SUFFICES ASSUME NEW r \in Visited, Parent(r) = node PROVE FALSE
    OBVIOUS
  <2>1. PICK j \in 1 .. m : listing[j] = r
    BY <1>9
  <2>2. PICK i \in 1 .. L : i < j /\ listing[i] = node
    BY <1>3, <1>6, <2>1
  <2>3. i = m + 1
    BY <1>7, <2>2
  <2> QED
    BY <1>4, <2>1, <2>2, <2>3
<1>13. \A r \in Visited : Parent(r) = q => Place(r) < Place(node)
  <2> TAKE r \in Visited
  <2>1. PICK j \in 1 .. m : listing[j] = r
    BY <1>9
  <2> QED
    BY <1>3, <1>6, <2>1 DEF node
<1> HIDE DEF q
<1>14. /\ DOMAIN attached' = D \cup {node}
       /\ attached'[node] = <<>>
       /\ attached'[q] = Append(attached[q], node)
       /\ \A p \in D : p # node /\ p # q => attached'[p] = attached[p]
  <2>1. attached' = [r \in D \cup {node} |->
                       CASE r = node -> <<>> [] r = q -> Append(attached[r], node) [] OTHER -> attached[r]]
    <3>1. (IF q \in Visited THEN q ELSE 0) = q
      BY <1>10
    <3> QED
      BY <1>1, <3>1
  <2> QED
    BY <1>11, <2>1
<1>15. Visited' = Visited \cup {node}
  BY <1>6, <1>14 DEF Visited
<1>16. Len(listing)' = L /\ m + 1 \in 0 .. L /\ Visited' = {listing'[i] : i \in 1 .. m + 1}
  <2>1. {listing[i] : i \in 1 .. m + 1} = {listing[i] : i \in 1 .. m} \cup {node}
    <3>1. 1 .. m + 1 = (1 .. m) \cup {m + 1}
      BY <1>4
    <3> QED
      BY <3>1 DEF node
  <2>2. Visited' = {listing[i] : i \in 1 .. m + 1}
    BY <1>4, <1>15, <2>1
  <2>3. Visited' = {listing'[i] : i \in 1 .. m + 1}
    BY <1>1, <2>2
  <2>4. m + 1 \in 0 .. L
    BY <1>3, <1>4, <1>6
  <2>5. Len(listing)' = L
    BY <1>1, <1>3
  <2> QED
    BY <2>3, <2>4, <2>5
<1>17. ASSUME NEW p \in D \cup {node}
       PROVE  /\ attached'[p] \in Seq(Visited \cup {node})
              /\ ToSet(attached'[p]) = {r \in Visited \cup {node} : Parent(r) = p}
              /\ \A i, j \in DOMAIN attached'[p] :
                    i < j => Place(attached'[p][i]) < Place(attached'[p][j])
  <2>1. CASE p = node
    <3>1. attached'[p] = <<>> /\ ToSet(<<>>) = {} /\ DOMAIN <<>> = {}
      BY <1>14, <2>1 DEF ToSet
    <3>2. {r \in Visited \cup {node} : Parent(r) = p} = {}
      BY <1>11, <1>12, <2>1 DEF q
    <3> QED
      BY <3>1, <3>2
  <2>2. CASE p = q
    <3> DEFINE s == attached[q]  t == Append(s, node)
    <3>1. /\ s \in Seq(Visited) /\ ToSet(s) = {r \in Visited : Parent(r) = q}
          /\ \A i, j \in DOMAIN s : i < j => Place(s[i]) < Place(s[j])
      BY <1>2, <1>11
    <3> HIDE DEF s
    <3>2. /\ ToSet(t) = ToSet(s) \cup {node} /\ t \in Seq(Visited \cup {node})
          /\ DOMAIN s = 1 .. Len(s) /\ DOMAIN t = 1 .. Len(s) + 1 /\ Len(s) \in Nat
      BY <3>1, AppendedSet
    <3>3. t[Len(s) + 1] = node /\ \A i \in 1 .. Len(s) : t[i] = s[i]
      BY <3>1, Appended
    <3> HIDE DEF t
    <3>4. ToSet(t) = {r \in Visited \cup {node} : Parent(r) = q}
      BY <3>1, <3>2 DEF q
    <3>5. \A i, j \in 1 .. Len(s) + 1 : i < j => Place(t[i]) < Place(t[j])
      <4> SUFFICES ASSUME NEW i \in 1 .. Len(s) + 1, NEW j \in 1 .. Len(s) + 1, i < j
                   PROVE  Place(t[i]) < Place(t[j])
        OBVIOUS
      <4>1. i \in 1 .. Len(s)
        BY <3>2
      <4>2. CASE j \in 1 .. Len(s)
        BY <3>1, <3>2, <3>3, <4>1, <4>2
      <4>3. CASE j = Len(s) + 1
        <5>1. s[i] \in ToSet(s)
          BY <3>2, <4>1 DEF ToSet
        <5>2. s[i] \in Visited /\ Parent(s[i]) = q
          BY <3>1, <5>1
        <5>3. t[i] = s[i] /\ t[j] = node
          BY <3>3, <4>1, <4>3
        <5> QED
          BY <1>13, <5>2, <5>3
      <4> QED
        BY <3>2, <4>2, <4>3
    <3>6. attached'[p] = t
      BY <1>14, <2>2 DEF s, t
    <3> QED
      BY <2>2, <3>2, <3>4, <3>5, <3>6
  <2>3. CASE p # node /\ p # q
    <3>1. p \in D /\ attached'[p] = attached[p]
      BY <1>14, <2>3
    <3>2. /\ attached[p] \in Seq(Visited) /\ ToSet(attached[p]) = {r \in Visited : Parent(r) = p}
          /\ \A i, j \in DOMAIN attached[p] : i < j => Place(attached[p][i]) < Place(attached[p][j])
      BY <1>2, <3>1
    <3>3. attached[p] \in Seq(Visited \cup {node})
      BY <3>2
    <3>4. {r \in Visited \cup {node} : Parent(r) = p} = {r \in Visited : Parent(r) = p}
      BY <2>3 DEF q
    <3> QED
      BY <3>1, <3>2, <3>3, <3>4
  <2> QED
    BY <2>1, <2>2, <2>3
<1>18. /\ 0 \in DOMAIN attached'
       /\ \E k \in 0 .. Len(listing') : Visited' = {listing'[i] : i \in 1 .. k}
  BY <1>2, <1>14, <1>16
<1>19. \A r : rows'[r].parent = Parent(r) /\ rows'[r].sort_order = Place(r)
  BY <1>1 DEF Parent, Place
<1>20. \A p \in DOMAIN attached' :
          /\ attached'[p] \in Seq(Visited')
          /\ ToSet(attached'[p]) = {r \in Visited' : rows'[r].parent = p}
          /\ \A i, j \in DOMAIN attached'[p] :
               i < j => rows'[attached'[p][i]].sort_order < rows'[attached'[p][j]].sort_order
  BY <1>14, <1>15, <1>17, <1>19
<1> QED
  BY <1>18, <1>20 DEF AttachedInOrder, ToSet

LEMMA BuildKeeps == TreeInv /\ BuildNode => TreeInv'
<1> SUFFICES ASSUME TreeInv, BuildNode PROVE TreeInv'
  OBVIOUS
<1>1. progress = "listed" /\ reply' = reply /\ rows' = rows /\ listing' = listing /\ progress' = progress
  BY DEF BuildNode
<1>2. /\ reply \in GeneratedTaxonomies /\ RowsFollowPlan /\ ListingInOrder
      /\ Len(rows) \in Nat /\ rows = [r \in 1 .. Len(rows) |-> rows[r]] /\ Len(rows) = Len(Planned)
  BY <1>1 DEF TreeInv
<1>3. Planned' = Planned /\ RowsFollowPlan'
  <2>1. Planned' = Planned /\ \A b, k : NameAt(b, k)' = NameAt(b, k)
    BY <1>1 DEF Planned, NameAt
  <2> QED
    BY <1>1, <1>2, <2>1 DEF RowsFollowPlan
<1>4. ListingInOrder'
  BY <1>1, <1>2 DEF ListingInOrder, Precedes
<1>5. AttachedInOrder'
  BY BuildKeepsOrder
<1> QED
  BY <1>1, <1>2, <1>3, <1>4, <1>5 DEF TreeInv

LEMMA StutterKeeps == TreeInv /\ UNCHANGED treeVars => TreeInv'
<1> SUFFICES ASSUME TreeInv, UNCHANGED treeVars PROVE TreeInv'
  OBVIOUS
<1>1. reply' = reply /\ rows' = rows /\ listing' = listing /\ attached' = attached /\ progress' = progress
  BY DEF treeVars
<1>2. Planned' = Planned /\ \A b, k : NameAt(b, k)' = NameAt(b, k)
  BY <1>1 DEF Planned, NameAt
<1>3. RowsFollowPlan' <=> RowsFollowPlan
  BY <1>1, <1>2 DEF RowsFollowPlan
<1>4. ListingInOrder' <=> ListingInOrder
  BY <1>1 DEF ListingInOrder, Precedes
<1>5. AttachedInOrder' <=> AttachedInOrder
  BY <1>1 DEF AttachedInOrder, Visited
<1> QED
  BY <1>1, <1>2, <1>3, <1>4, <1>5 DEF TreeInv

(* Rows are stored as planned and read back in the order asked for, and     *)
(* every node met is put under its own parent after its earlier siblings.   *)
THEOREM TreeInvariant == TreeSpec => []TreeInv
<1>1. TreeInv /\ [TreeNext]_treeVars => TreeInv'
  BY StoreNodeKeeps, ListKeeps, BuildKeeps, StutterKeeps DEF TreeNext
<1> QED
  BY TreeInitially, <1>1, PTL DEF TreeSpec

-----------------------------------------------------------------------------
(* The tree *)

(* f increases over 1 .. L and takes the values below K, and no other.      *)
Climbs(f, L, K) ==
    /\ \A j \in 1 .. L : f[j] \in Nat /\ f[j] < K
    /\ \A k \in 0 .. K - 1 : \E j \in 1 .. L : f[j] = k
    /\ \A i, j \in 1 .. L : i < j => f[i] < f[j]

(* So it counts from 0 to K - 1. *)
LEMMA Counting ==
    ASSUME NEW L \in Nat, NEW K \in Nat, NEW f, Climbs(f, L, K)
    PROVE  L = K /\ \A j \in 1 .. L : f[j] = j - 1
<1> USE DEF Climbs
<1> DEFINE Q == {n \in Nat : \A j \in 1 .. L : j <= n => f[j] = j - 1}
<1>1. 0 \in Q
  OBVIOUS
<1>2. ASSUME NEW n \in Nat, n \in Q PROVE n + 1 \in Q
  <2> SUFFICES ASSUME n + 1 \in 1 .. L PROVE f[n + 1] = n
    BY <1>2
  <2>1. f[n + 1] \in Nat /\ f[n + 1] >= n
    <3>1. CASE n = 0
      BY <3>1
    <3>2. CASE n # 0
      <4>1. n \in 1 .. L /\ f[n] = n - 1
        BY <1>2, <3>2
      <4> QED
        BY <4>1
    <3> QED
      BY <3>1, <3>2
  <2>2. ASSUME f[n + 1] > n PROVE FALSE
    <3>1. f[n + 1] < K /\ n \in 0 .. K - 1
      BY <2>1, <2>2
    <3>2. PICK i \in 1 .. L : f[i] = n
      BY <3>1
    <3>3. ~(i <= n)
      BY <1>2, <3>2
    <3>4. i > n + 1 \/ i = n + 1
      BY <3>3
    <3> QED
      BY <2>1, <2>2, <3>2, <3>4
  <2> QED
    BY <2>1, <2>2
<1>3. Nat \subseteq Q
  <2> HIDE DEF Q
  <2> QED
    BY <1>1, <1>2, CountUp
<1>4. \A j \in 1 .. L : f[j] = j - 1
  <2> TAKE j \in 1 .. L
  <2>1. j \in Nat /\ j \in Q
    <3>1. j \in Nat
      OBVIOUS
    <3> QED
      BY <1>3, <3>1, Zenon
  <2> QED
    BY <2>1
<1> HIDE DEF Q
<1>5. ~(L < K)
  <2> SUFFICES ASSUME L < K PROVE FALSE
    OBVIOUS
  <2>1. PICK j \in 1 .. L : f[j] = L
    OBVIOUS
  <2> QED
    BY <1>4, <2>1
<1>6. ~(K < L)
  <2> SUFFICES ASSUME K < L PROVE FALSE
    OBVIOUS
  <2>1. L \in 1 .. L
    OBVIOUS
  <2> QED
    BY <1>4, <2>1
<1> QED
  BY <1>4, <1>5, <1>6

(* Once built, every row has been visited. *)
LEMMA AllVisited ==
    ASSUME TreeInv, Built
    PROVE  Visited = 1 .. Len(rows) /\ DOMAIN attached = Visited \cup {0}
<1> DEFINE L == Len(rows)  m == Cardinality(Visited)
<1>1. progress = "listed" /\ Cardinality(DOMAIN attached) = Len(listing) + 1
  BY DEF Built
<1>2. m \in 0 .. L /\ Visited = {listing[i] : i \in 1 .. m}
  BY <1>1, VisitedCounted
<1>3. /\ L \in Nat /\ Len(listing) = L /\ listing \in [1 .. L -> 1 .. L]
      /\ \A r \in 1 .. L : \E i \in 1 .. L : listing[i] = r
  BY <1>1, Listed, Related
<1>4. 0 \in DOMAIN attached
  BY <1>1 DEF TreeInv, AttachedInOrder
<1>5. DOMAIN attached = Visited \cup {0} /\ 0 \notin Visited
  BY <1>4 DEF Visited
<1> HIDE DEF m, L
<1>6. Visited \subseteq 1 .. L
  <2>1. \A i \in 1 .. m : listing[i] \in 1 .. L
    BY <1>2, <1>3
  <2> QED
    BY <1>2, <2>1
<1>7. IsFiniteSet(Visited)
  <2>1. IsFiniteSet(1 .. L)
    BY <1>3, FS_Interval
  <2> QED
    BY <1>6, <2>1, FS_Subset
<1>8. Cardinality(DOMAIN attached) = m + 1
  BY <1>5, <1>7, FS_AddElement DEF m
<1>9. m = L
  BY <1>1, <1>2, <1>3, <1>8
<1>10. 1 .. L \subseteq Visited
  <2> SUFFICES ASSUME NEW r \in 1 .. L PROVE r \in Visited
    OBVIOUS
  <2>1. PICK i \in 1 .. L : listing[i] = r
    BY <1>3
  <2> QED
    BY <1>2, <1>9, <2>1
<1> QED
  BY <1>5, <1>6, <1>10 DEF L

(* Under a parent whose rows have the places 0 to K - 1 they stand at them. *)
LEMMA Siblings ==
    ASSUME TreeInv, Built, NEW p \in DOMAIN attached, NEW K \in Nat,
           \A r \in 1 .. Len(rows) : Parent(r) = p => Place(r) \in 0 .. K - 1,
           \A k \in 0 .. K - 1 : \E r \in 1 .. Len(rows) : Parent(r) = p /\ Place(r) = k
    PROVE  /\ DOMAIN attached[p] = 1 .. K
           /\ \A j \in 1 .. K : /\ attached[p][j] \in 1 .. Len(rows)
                                /\ Parent(attached[p][j]) = p /\ Place(attached[p][j]) = j - 1
<1> DEFINE s == attached[p]  M == Len(s)
<1>1. /\ s \in Seq(Visited) /\ ToSet(s) = {r \in Visited : Parent(r) = p}
      /\ \A i, j \in DOMAIN s : i < j => Place(s[i]) < Place(s[j])
  BY DEF TreeInv, Built, AttachedInOrder, Parent, Place
<1>2. Visited = 1 .. Len(rows)
  BY AllVisited
<1> HIDE DEF s
<1>3. M \in Nat /\ DOMAIN s = 1 .. M
  BY <1>1
<1> HIDE DEF M
<1>4. \A j \in 1 .. M : s[j] \in 1 .. Len(rows) /\ Parent(s[j]) = p /\ Place(s[j]) \in 0 .. K - 1
  BY <1>1, <1>2, <1>3 DEF ToSet
<1>5. \A k \in 0 .. K - 1 : \E j \in 1 .. M : Place(s[j]) = k
  <2> TAKE k \in 0 .. K - 1
  <2>1. PICK r \in 1 .. Len(rows) : Parent(r) = p /\ Place(r) = k
    OBVIOUS
  <2>2. r \in ToSet(s)
    BY <1>1, <1>2, <2>1
  <2> QED
    BY <1>3, <2>1, <2>2 DEF ToSet
<1> DEFINE f == [j \in 1 .. M |-> Place(s[j])]
<1>6. Climbs(f, M, K) /\ \A j \in 1 .. M : f[j] = Place(s[j])
  <2>1. \A j \in 1 .. M : Place(s[j]) \in Nat /\ Place(s[j]) < K
    BY <1>4
  <2>2. \A j \in 1 .. M : f[j] = Place(s[j])
    OBVIOUS
  <2> HIDE DEF f
  <2>3. \A k \in 0 .. K - 1 : \E j \in 1 .. M : f[j] = k
    BY <1>5, <2>2
  <2>4. \A i, j \in 1 .. M : i < j => f[i] < f[j]
    <3>1. \A i, j \in 1 .. M : i < j => Place(s[i]) < Place(s[j])
      BY <1>1, <1>3, Zenon
    <3> QED
      BY <2>2, <3>1
  <2>5. \A j \in 1 .. M : f[j] \in Nat /\ f[j] < K
    BY <2>1, <2>2
  <2> QED
    BY <2>2, <2>3, <2>4, <2>5 DEF Climbs
<1> HIDE DEF f
<1>7. M = K /\ \A j \in 1 .. M : f[j] = j - 1
  BY <1>3, <1>6, Counting
<1> QED
  BY <1>3, <1>4, <1>6, <1>7 DEF s

LEMMA FromZero ==
    ASSUME NEW K \in Nat, NEW k \in 1 .. K, NEW j, j = k - 1
    PROVE  j + 1 = k /\ j \in 0 .. K - 1
  OBVIOUS

(* What the rows say of the reply: the categories are the rows without a    *)
(* parent, and the row of category c is the parent of its children.         *)
LEMMA RowsOfReply ==
    ASSUME TreeInv, progress = "listed"
    PROVE  /\ \A r \in 1 .. Len(rows) : Parent(r) = 0 =>
                /\ Place(r) \in 0 .. Len(reply) - 1 /\ Planned[r] = <<Place(r) + 1, 0>>
                /\ rows[r].name = reply[Place(r) + 1].name
           /\ \A k \in 0 .. Len(reply) - 1 :
                \E r \in 1 .. Len(rows) : Parent(r) = 0 /\ Place(r) = k
           /\ \A q \in 1 .. Len(rows) : \A c \in 1 .. Len(reply) : Planned[q] = <<c, 0>> =>
                /\ \A r \in 1 .. Len(rows) : Parent(r) = q =>
                     /\ Place(r) \in 0 .. Children(c) - 1
                     /\ rows[r].name = reply[c].children[Place(r) + 1]
                /\ \A k \in 0 .. Children(c) - 1 :
                     \E r \in 1 .. Len(rows) : Parent(r) = q /\ Place(r) = k
<1> DEFINE L == Len(rows)  N == Len(reply)
<1>1. /\ reply \in GeneratedTaxonomies /\ RowsFollowPlan /\ L = Len(Planned)
      /\ L \in Nat /\ DOMAIN rows = 1 .. L
  BY RowsTyped DEF TreeInv
<1>2. N \in Nat /\ DOMAIN reply = 1 .. N /\ \A c \in 1 .. N : Children(c) \in Nat
  BY <1>1, ReplyTyped
<1>3. /\ \A r \in 1 .. L :
           /\ Planned[r][1] \in 1 .. N /\ Planned[r][2] \in 0 .. Children(Planned[r][1])
           /\ Planned[r] = <<Planned[r][1], Planned[r][2]>>
      /\ \A c \in 1 .. N : \A n \in 0 .. Children(c) : \E r \in 1 .. L : Planned[r] = <<c, n>>
      /\ \A q, r \in 1 .. L : Planned[q] = Planned[r] => q = r
  BY <1>1, <1>2, PlanFacts
<1>4. \A r \in 1 .. L :
         /\ rows[r].name = NameAt(Planned[r][1], Planned[r][2])
         /\ Place(r) = IF Planned[r][2] = 0 THEN Planned[r][1] - 1 ELSE Planned[r][2] - 1
         /\ IF Planned[r][2] = 0 THEN Parent(r) = 0
            ELSE Parent(r) \in 1 .. L /\ Planned[Parent(r)] = <<Planned[r][1], 0>>
  <2> HIDE DEF L
  <2> QED
    BY <1>1 DEF RowsFollowPlan, Place, Parent
<1> HIDE DEF L, N
<1>5. \A r \in 1 .. L : Parent(r) = 0 <=> Planned[r][2] = 0
  BY <1>1, <1>4
<1>6. ASSUME NEW r \in 1 .. L, Parent(r) = 0
      PROVE  /\ Place(r) \in 0 .. N - 1 /\ Planned[r] = <<Place(r) + 1, 0>>
             /\ rows[r].name = reply[Place(r) + 1].name
  <2>1. Planned[r][2] = 0 /\ Planned[r][1] \in 1 .. N /\ Place(r) = Planned[r][1] - 1
    BY <1>3, <1>4, <1>5, <1>6
  <2>2. Place(r) + 1 = Planned[r][1] /\ Place(r) \in 0 .. N - 1
    <3> DEFINE k == Planned[r][1]
    <3>1. N \in Nat /\ k \in 1 .. N /\ Place(r) = k - 1
      BY <1>2, <2>1
    <3> HIDE DEF k
    <3>2. Place(r) + 1 = k /\ Place(r) \in 0 .. N - 1
      BY <3>1, FromZero
    <3> QED
      BY <3>2 DEF k
  <2>3. Planned[r] = <<Place(r) + 1, 0>>
    BY <1>3, <2>1, <2>2
  <2>4. rows[r].name = reply[Planned[r][1]].name
    BY <1>4, <2>1 DEF NameAt
  <2> QED
    BY <2>2, <2>3, <2>4
<1>7. ASSUME NEW k \in 0 .. N - 1
      PROVE  \E r \in 1 .. L : Parent(r) = 0 /\ Place(r) = k
  <2>1. k + 1 \in 1 .. N /\ 0 \in 0 .. Children(k + 1)
    BY <1>2
  <2>2. PICK r \in 1 .. L : Planned[r] = <<k + 1, 0>>
    BY <1>3, <2>1
  <2>3. Planned[r][1] = k + 1 /\ Planned[r][2] = 0
    BY <2>2
  <2>4. Place(r) = (k + 1) - 1 /\ Parent(r) = 0
    BY <1>4, <1>5, <2>3
  <2> QED
    BY <2>4
<1>8. ASSUME NEW q \in 1 .. L, NEW c \in 1 .. N, Planned[q] = <<c, 0>>, NEW r \in 1 .. L, Parent(r) = q
      PROVE  Place(r) \in 0 .. Children(c) - 1 /\ rows[r].name = reply[c].children[Place(r) + 1]
  <2>1. Planned[r][2] # 0
    BY <1>1, <1>5, <1>8
  <2>2. <<Planned[r][1], 0>> = <<c, 0>> /\ Place(r) = Planned[r][2] - 1
    BY <1>4, <1>8, <2>1
  <2>3. Planned[r][1] = c
    BY <2>2
  <2>4. Planned[r][2] \in 1 .. Children(c)
    BY <1>2, <1>3, <2>1, <2>3
  <2>5. Place(r) \in 0 .. Children(c) - 1 /\ Place(r) + 1 = Planned[r][2]
    <3> DEFINE k == Planned[r][2]  K == Children(c)
    <3>1. K \in Nat /\ k \in 1 .. K /\ Place(r) = k - 1
      BY <1>2, <2>2, <2>4
    <3> HIDE DEF k, K
    <3>2. Place(r) + 1 = k /\ Place(r) \in 0 .. K - 1
      BY <3>1, FromZero
    <3> QED
      BY <3>2 DEF k, K
  <2>6. rows[r].name = reply[c].children[Planned[r][2]]
    BY <1>4, <2>1, <2>3 DEF NameAt
  <2> QED
    BY <2>5, <2>6
<1>9. ASSUME NEW q \in 1 .. L, NEW c \in 1 .. N, Planned[q] = <<c, 0>>, NEW k \in 0 .. Children(c) - 1
      PROVE  \E r \in 1 .. L : Parent(r) = q /\ Place(r) = k
  <2>1. k + 1 \in 0 .. Children(c) /\ k + 1 # 0 /\ (k + 1) - 1 = k
    BY <1>2
  <2>2. PICK r \in 1 .. L : Planned[r] = <<c, k + 1>>
    BY <1>3, <2>1
  <2>3. Planned[r][1] = c /\ Planned[r][2] = k + 1
    BY <2>2
  <2>4. Parent(r) \in 1 .. L /\ Planned[Parent(r)] = Planned[q] /\ Place(r) = k
    BY <1>4, <1>9, <2>1, <2>3
  <2> QED
    BY <1>3, <2>4
<1> QED
  BY <1>6, <1>7, <1>8, <1>9 DEF L, N

LEMMA TreeFollows == TreeInv => TreeIsReply
<1> SUFFICES ASSUME TreeInv PROVE TreeIsReply
  OBVIOUS
<1>1. ASSUME Built
      PROVE  /\ NamesUnder(0) = [c \in DOMAIN reply |-> reply[c].name]
             /\ \A c \in DOMAIN reply : NamesUnder(attached[0][c]) = reply[c].children
  <2> DEFINE L == Len(rows)  N == Len(reply)
  <2>1. progress = "listed" /\ reply \in GeneratedTaxonomies
    BY <1>1 DEF Built, TreeInv
  <2>2. /\ N \in Nat /\ DOMAIN reply = 1 .. N
        /\ \A c \in 1 .. N : Children(c) \in Nat /\ reply[c].children \in Seq(Names)
    BY <2>1, ReplyTyped
  <2>3. DOMAIN attached = (1 .. L) \cup {0}
    BY <1>1, AllVisited
  <2>4. /\ \A r \in 1 .. L : Parent(r) = 0 =>
             /\ Place(r) \in 0 .. N - 1 /\ Planned[r] = <<Place(r) + 1, 0>>
             /\ rows[r].name = reply[Place(r) + 1].name
        /\ \A k \in 0 .. N - 1 : \E r \in 1 .. L : Parent(r) = 0 /\ Place(r) = k
        /\ \A q \in 1 .. L : \A c \in 1 .. N : Planned[q] = <<c, 0>> =>
             /\ \A r \in 1 .. L : Parent(r) = q =>
                  /\ Place(r) \in 0 .. Children(c) - 1
                  /\ rows[r].name = reply[c].children[Place(r) + 1]
             /\ \A k \in 0 .. Children(c) - 1 : \E r \in 1 .. L : Parent(r) = q /\ Place(r) = k
    BY <2>1, RowsOfReply
  <2>5. /\ DOMAIN attached[0] = 1 .. N
        /\ \A c \in 1 .. N : /\ attached[0][c] \in 1 .. L
                             /\ Parent(attached[0][c]) = 0 /\ Place(attached[0][c]) = c - 1
    BY <1>1, <2>2, <2>3, <2>4, Siblings
  <2> HIDE DEF L, N
  <2>6. \A c \in 1 .. N : (c - 1) + 1 = c
    BY <2>2
  <2>7. \A c \in 1 .. N : /\ Planned[attached[0][c]] = <<c, 0>>
                          /\ rows[attached[0][c]].name = reply[c].name
    BY <2>4, <2>5, <2>6
  <2>8. ASSUME NEW c \in 1 .. N
        PROVE  NamesUnder(attached[0][c]) = reply[c].children
    <3> DEFINE q == attached[0][c]  K == Children(c)  kids == reply[c].children
    <3>1. q \in 1 .. L /\ q \in DOMAIN attached /\ K \in Nat
      BY <2>2, <2>3, <2>5
    <3>2. /\ \A r \in 1 .. L : Parent(r) = q =>
               Place(r) \in 0 .. K - 1 /\ rows[r].name = kids[Place(r) + 1]
          /\ \A k \in 0 .. K - 1 : \E r \in 1 .. L : Parent(r) = q /\ Place(r) = k
      BY <2>4, <2>7, <3>1
    <3> HIDE DEF q, K, kids
    <3>3. /\ DOMAIN attached[q] = 1 .. K
          /\ \A j \in 1 .. K : /\ attached[q][j] \in 1 .. L
                               /\ Parent(attached[q][j]) = q /\ Place(attached[q][j]) = j - 1
      BY <1>1, <3>1, <3>2, Siblings DEF L
    <3>4. \A j \in 1 .. K : (j - 1) + 1 = j
      BY <3>1
    <3>5. \A j \in 1 .. K : rows[attached[q][j]].name = kids[j]
      BY <3>2, <3>3, <3>4
    <3>6. kids = [j \in 1 .. K |-> kids[j]]
      BY <2>2, SeqIsIndexed DEF kids, K, Children
    <3>7. NamesUnder(q) = [j \in 1 .. K |-> kids[j]]
      BY <3>3, <3>5 DEF NamesUnder
    <3> QED
      BY <3>6, <3>7 DEF q, kids
  <2>9. NamesUnder(0) = [c \in 1 .. N |-> reply[c].name]
    BY <2>5, <2>7 DEF NamesUnder
  <2> QED
    BY <2>2, <2>8, <2>9
<1>2. progress = "refused" =>
        \E c \in DOMAIN reply :
            \E name \in {reply[c].name} \cup ToSet(reply[c].children) : Len(name) >= Longest
  BY DEF TreeInv
<1> QED
  BY <1>1, <1>2 DEF TreeIsReply

(* The dashboard shows every category and every child of the reply, in the  *)
(* model's order (TaxonomyGenerationService._store_nodes,                   *)
(* TaxonomyReader.list_nodes, _build_tree), and a reply is refused only for *)
(* a name as long as the column.                                            *)
THEOREM TreeShowsReply == TreeSpec => []TreeIsReply
<1> QED
  BY TreeInvariant, TreeFollows, PTL
==============================================================================
