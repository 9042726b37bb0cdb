------------------------ MODULE GoogleCredential_proofs ------------------------
(***************************************************************************)
(* CredentialInv is inductive: for every number of admin requests, jobs    *)
(* and discovery calls, and every timing within CredentialAssumption, the  *)
(* token a job was handed outlives it, and only an authorization connects. *)
(***************************************************************************)
EXTENDS GoogleCredential, TLAPS

-----------------------------------------------------------------------------
(* Records an action builds have the type of what they are stored in. *)
AdminRecord ==
    [pc : {"idle", "exchanged", "upsert", "disconnect", "select"},
     snap : Snapshot, grant : 0..MaxGrants, access : Token, expires : Nat]
ReaderRecord ==
    [pc : {"idle", "asking", "granted", "refused", "using"},
     grant : 0..MaxGrants, token : Token, due : Nat]

LEMMA RecordTypes ==
    /\ NoToken \in Token
    /\ IdleAdmin \in AdminRecord /\ IdleReader \in ReaderRecord
    /\ \A c \in Row : Read(c) \in Snapshot
  BY CredentialAssumption
  DEF NoToken, Token, IdleAdmin, IdleReader, AdminRecord, ReaderRecord, NoRow, Row, Statuses,
      Read, Snapshot

(* A table with nothing in it and nobody at work. *)
LEMMA CredentialInit == Init => CredentialInv
<1> SUFFICES ASSUME Init PROVE CredentialInv
  OBVIOUS
<1> USE CredentialAssumption
<1>1. NoRow \in Row /\ Check(NoRow)
  BY RecordTypes DEF NoRow, Row, Statuses, Check
<1>2. TypeOK
  <2>1. admin \in [Admins -> AdminRecord] /\ reader \in [Readers -> ReaderRecord]
    BY RecordTypes DEF Init
  <2>2. row \in Row /\ Check(row)
    BY <1>1 DEF Init
  <2> QED
    BY <2>1, <2>2 DEF Init, TypeOK, AdminRecord, ReaderRecord
<1>3. ExpiryInv
  BY DEF Init, ExpiryInv, NoRow
<1>4. ArrivalInv /\ UpsertInv /\ DeadlineInv
  BY DEF Init, ArrivalInv, UpsertInv, DeadlineInv, IdleAdmin, IdleReader, Readers
<1> QED
  BY <1>2, <1>3, <1>4 DEF CredentialInv

(* The two UPDATEs of the admin requests keep the type of the row. *)
LEMMA UpdateTypes ==
    ASSUME TypeOK, NEW a \in Admins
    PROVE  Upserted(a) \in Row /\ Disconnected(a) \in Row
<1> USE CredentialAssumption, RecordTypes
<1>1. admin[a] \in AdminRecord /\ row \in Row
  BY DEF TypeOK, AdminRecord
<1>2. Upserted(a) \in Row
  BY <1>1 DEF Upserted, AssignStatus, Assign, Row, Statuses, AdminRecord
<1>3. Disconnected(a) \in Row
  <2>1. /\ AssignStatus(row.status, admin[a].snap.status, "disconnected") \in Statuses
        /\ Assign(row.access, admin[a].snap.access, NoToken, NoToken) \in Token
        /\ Assign(row.refresh, admin[a].snap.refresh, 0, 0) \in 0..MaxGrants
    BY <1>1 DEF AssignStatus, Assign, Row, Statuses
  <2> QED
    BY <1>1, <2>1 DEF Disconnected, Row
<1> QED
  BY <1>2, <1>3

(* The types survive every step. *)
LEMMA TypeStep == TypeOK /\ [Next]_vars => TypeOK'
<1> SUFFICES ASSUME TypeOK, [Next]_vars PROVE TypeOK'
  OBVIOUS
<1> USE CredentialAssumption, RecordTypes
<1>0. /\ clock \in Nat \ {0} /\ issued \in 0..MaxGrants /\ live \in SUBSET (1..issued)
      /\ row \in Row /\ Check(row)
      /\ admin \in [Admins -> AdminRecord] /\ reader \in [Readers -> ReaderRecord]
  BY DEF TypeOK, AdminRecord, ReaderRecord
<1> SUFFICES
      /\ clock' \in Nat \ {0} /\ issued' \in 0..MaxGrants /\ live' \in SUBSET (1..issued')
      /\ row' \in Row /\ Check(row)'
      /\ admin' \in [Admins -> AdminRecord] /\ reader' \in [Readers -> ReaderRecord]
  BY DEF TypeOK, AdminRecord, ReaderRecord
<1>1. CASE UNCHANGED vars
  BY <1>0, <1>1 DEF vars, Check
<1>2. ASSUME NEW a \in Admins, Exchange(a)
      PROVE  clock' \in Nat \ {0} /\ issued' \in 0..MaxGrants /\ live' \in SUBSET (1..issued')
             /\ row' \in Row /\ Check(row)'
             /\ admin' \in [Admins -> AdminRecord] /\ reader' \in [Readers -> ReaderRecord]
  <2>1. issued' \in 0..MaxGrants /\ live' \in SUBSET (1..issued')
    BY <1>0, <1>2 DEF Exchange
  <2>2. ASSUME NEW access \in {NoToken, [grant |-> issued', until |-> clock + Lifetime]}
        PROVE  [IdleAdmin EXCEPT !.pc = "exchanged", !.grant = issued', !.access = access]
                    \in AdminRecord
    <3>1. access \in Token /\ IdleAdmin \in AdminRecord
      BY <1>0, <2>1, <2>2 DEF Token
    <3> QED
      BY <2>1, <3>1 DEF AdminRecord
  <2>3. admin' \in [Admins -> AdminRecord]
    BY <1>0, <1>2, <2>2 DEF Exchange
  <2> QED
    BY <1>0, <1>2, <2>1, <2>3 DEF Exchange, Check
<1>3. ASSUME NEW a \in Admins,
             UpsertRead(a) \/ DisconnectRead(a) \/ SelectRead(a)
      PROVE  UNCHANGED <<clock, issued, live, row, reader>> /\ admin' \in [Admins -> AdminRecord]
  <2>1. admin[a] \in AdminRecord /\ Read(row) \in Snapshot
    BY <1>0
  <2>2. CASE UpsertRead(a)
    <3>1. PICK expiry \in {0, clock + Lifetime} :
              admin' = [admin EXCEPT ![a].pc = "upsert", ![a].snap = Read(row),
                                     ![a].expires = expiry]
      BY <2>2 DEF UpsertRead
    <3> DEFINE next == [admin[a] EXCEPT !.pc = "upsert", !.snap = Read(row), !.expires = expiry]
    <3>2. next \in AdminRecord
      <4>1. expiry \in Nat
        BY <1>0
      <4> QED
        BY <2>1, <4>1 DEF AdminRecord
    <3>3. admin' = [admin EXCEPT ![a] = next]
      BY <1>0, <3>1
    <3>4. admin' \in [Admins -> AdminRecord]
      <4> HIDE DEF next
      <4> QED
        BY <1>0, <3>2, <3>3
    <3> QED
      BY <2>2, <3>4 DEF UpsertRead
  <2>3. CASE DisconnectRead(a)
    BY <1>0, <2>1, <2>3 DEF DisconnectRead, AdminRecord
  <2>4. CASE SelectRead(a)
    BY <1>0, <2>1, <2>4 DEF SelectRead, AdminRecord
  <2> QED
    BY <1>3, <2>2, <2>3, <2>4
<1>4. ASSUME NEW a \in Admins, UpsertCommit(a) \/ DisconnectCommit(a) \/ SelectCommit(a)
      PROVE  /\ UNCHANGED <<clock, issued, live, reader>>
             /\ row' \in Row /\ Check(row)' /\ admin' \in [Admins -> AdminRecord]
  <2>1. Upserted(a) \in Row /\ Disconnected(a) \in Row
    BY UpdateTypes
  <2>2. CASE UpsertCommit(a)
    BY <1>0, <2>1, <2>2 DEF UpsertCommit, CommitRow, Check
  <2>3. CASE DisconnectCommit(a)
    BY <1>0, <2>1, <2>3 DEF DisconnectCommit, CommitRow, Check
  <2>4. CASE SelectCommit(a)
    <3>1. PICK kept \in BOOLEAN : row' = [row EXCEPT !.location = kept]
      BY <1>0, <2>4 DEF SelectCommit, Row
    <3> QED
      BY <1>0, <2>4, <3>1 DEF SelectCommit, Check, Row
  <2> QED
    BY <1>4, <2>2, <2>3, <2>4
<1>5. ASSUME NEW r \in Readers, Load(r)
      PROVE  UNCHANGED <<clock, issued, live, row, admin>> /\ reader' \in [Readers -> ReaderRecord]
  BY <1>0, <1>5 DEF Load, Row, ReaderRecord
<1>6. ASSUME NEW r \in Readers, GoogleAnswers(r)
      PROVE  UNCHANGED <<clock, issued, live, row, admin>> /\ reader' \in [Readers -> ReaderRecord]
  <2>1. reader[r] \in ReaderRecord
    BY <1>0
  <2>2. [grant |-> reader[r].grant, until |-> clock + Lifetime] \in Token
    BY <1>0, <2>1 DEF ReaderRecord, Token
  <2> QED
    BY <1>0, <1>6, <2>1, <2>2 DEF GoogleAnswers, ReaderRecord
<1>7. ASSUME NEW r \in Readers, RefreshFails(r) \/ Done(r) \/ JobTimesOut(r)
      PROVE  UNCHANGED <<clock, issued, live, row, admin>> /\ reader' \in [Readers -> ReaderRecord]
  BY <1>0, <1>7 DEF RefreshFails, Done, JobTimesOut, Leave
<1>8. ASSUME NEW r \in Readers, RefreshCommit(r) \/ RejectCommit(r)
      PROVE  /\ UNCHANGED <<clock, issued, live, admin>>
             /\ row' \in Row /\ Check(row)' /\ reader' \in [Readers -> ReaderRecord]
  <2>1. reader[r] \in ReaderRecord
    BY <1>0
  <2>2. CASE RefreshCommit(r)
    <3>1. reader[r].token \in Token /\ clock + Lifetime \in Nat
      BY <1>0, <2>1 DEF ReaderRecord
    <3>2. row' \in Row /\ Check(row)'
      BY <1>0, <2>2, <3>1 DEF RefreshCommit, Row, Check
    <3> QED
      BY <1>0, <2>1, <2>2, <3>2 DEF RefreshCommit, ReaderRecord
  <2>3. CASE RejectCommit(r)
    BY <1>0, <2>3 DEF RejectCommit, Leave, Row, Statuses, Check
  <2> QED
    BY <1>8, <2>2, <2>3
<1>9. ASSUME NEW g \in Grants, Revoke(g)
      PROVE  UNCHANGED <<clock, issued, row, admin, reader>> /\ live' \in SUBSET (1..issued)
  BY <1>0, <1>9 DEF Revoke
<1>10. ASSUME Tick
       PROVE  UNCHANGED <<issued, live, row, admin, reader>> /\ clock' \in Nat \ {0}
  BY <1>0, <1>10 DEF Tick
<1> QED
  BY <1>0, <1>1, <1>2, <1>3, <1>4, <1>5, <1>6, <1>7, <1>8, <1>9, <1>10 DEF Next, Check

-----------------------------------------------------------------------------
(* What a reader may be left with at a time: its answer is fresh and its    *)
(* deadline is before the end of its token.                                 *)
ReaderFits(r, s) ==
    /\ s.pc \in {"granted", "refused"} => Fresh(s.token)
    /\ r \in Jobs =>
        /\ s.pc # "idle" => clock <= s.due
        /\ s.pc = "asking" => s.due <= clock + JobTimeout
        /\ s.pc \in {"granted", "using"} => s.due < s.token.until

(* A step of one reader disturbs only what is said of that reader. *)
LEMMA ReaderMoves ==
    ASSUME CredentialInv, NEW r \in Readers, NEW s \in ReaderRecord, ReaderFits(r, s),
           reader' = [reader EXCEPT ![r] = s], UNCHANGED <<clock, admin>>
    PROVE  ArrivalInv' /\ DeadlineInv'
<1>1. reader'[r] = s /\ \A q \in Readers \ {r} : reader'[q] = reader[q]
  BY DEF CredentialInv, TypeOK
<1>2. ArrivalInv'
  BY <1>1 DEF CredentialInv, ArrivalInv, ReaderFits, Fresh, Aged
<1>3. DeadlineInv'
  BY <1>1 DEF CredentialInv, DeadlineInv, ReaderFits, Readers
<1> QED
  BY <1>2, <1>3

(* What an admin request may be left with, given the row. *)
AdminFits(s, r) ==
    /\ s.pc = "exchanged" => s.access = NoToken \/ Fresh(s.access)
    /\ s.pc = "upsert" =>
        /\ s.expires <= clock + Lifetime
        /\ s.access # NoToken =>
            Aged(s.access, Late) /\ s.expires <= s.access.until + Late
        /\ s.access = NoToken /\ ~s.snap.access /\ r.access # NoToken =>
            s.expires <= r.access.until + Late

LEMMA AdminMoves ==
    ASSUME CredentialInv, NEW a \in Admins, NEW s, AdminFits(s, row'),
           \A b \in Admins \ {a} : AdminFits(admin[b], row'),
           admin' = [admin EXCEPT ![a] = s], UNCHANGED <<clock, reader>>
    PROVE  ArrivalInv' /\ UpsertInv' /\ DeadlineInv'
<1>1. admin'[a] = s /\ \A b \in Admins \ {a} : admin'[b] = admin[b]
  BY DEF CredentialInv, TypeOK
<1>2. ArrivalInv'
  BY <1>1 DEF CredentialInv, ArrivalInv, AdminFits, Fresh, Aged
<1>3. UpsertInv'
  BY <1>1 DEF UpsertInv, AdminFits, Aged
<1>4. DeadlineInv'
  BY DEF CredentialInv, DeadlineInv
<1> QED
  BY <1>2, <1>3, <1>4

(* A request that is not disturbed fits a row whose access token is the     *)
(* same, is gone, or was issued at most Late ago.                           *)
LEMMA OthersFit ==
    ASSUME CredentialInv, NEW b \in Admins, NEW r \in Row,
           r.access = row.access \/ r.access = NoToken \/ Aged(r.access, Late)
    PROVE  AdminFits(admin[b], r)
<1> USE CredentialAssumption
<1>1. /\ admin[b] \in AdminRecord /\ r.access.until \in Nat /\ Late \in Nat
      /\ clock \in Nat /\ admin[b].expires \in Nat
  BY DEF CredentialInv, TypeOK, AdminRecord, Row, Token, Late
<1>2. admin[b].pc = "exchanged" => admin[b].access = NoToken \/ Fresh(admin[b].access)
  BY DEF CredentialInv, ArrivalInv
<1>3. ASSUME admin[b].pc = "upsert"
      PROVE  /\ admin[b].expires <= clock + Lifetime
             /\ admin[b].access # NoToken =>
                    Aged(admin[b].access, Late) /\ admin[b].expires <= admin[b].access.until + Late
             /\ admin[b].access = NoToken /\ ~admin[b].snap.access /\ row.access # NoToken =>
                    admin[b].expires <= row.access.until + Late
  BY <1>3 DEF CredentialInv, UpsertInv
<1>4. ASSUME admin[b].pc = "upsert", admin[b].access = NoToken, ~admin[b].snap.access,
             r.access # NoToken
      PROVE  admin[b].expires <= r.access.until + Late
  <2>1. CASE r.access = row.access
    BY <1>3, <1>4, <2>1
  <2>2. CASE Aged(r.access, Late)
    BY <1>1, <1>3, <1>4, <2>2 DEF Aged
  <2> QED
    BY <1>4, <2>1, <2>2
<1> QED
  BY <1>2, <1>3, <1>4 DEF AdminFits

(* A reader's step that leaves such a row keeps what is said of requests.   *)
LEMMA RequestsKeep ==
    ASSUME CredentialInv, row' \in Row, UNCHANGED <<clock, admin>>,
           row'.access = row.access \/ row'.access = NoToken \/ Aged(row'.access, Late)
    PROVE  UpsertInv'
<1>1. \A b \in Admins : AdminFits(admin[b], row')
  BY OthersFit
<1> QED
  BY <1>1 DEF UpsertInv, AdminFits, Aged

(* An idle record fits anywhere. *)
LEMMA IdleFits ==
    /\ \A r \in Readers : ReaderFits(r, IdleReader)
    /\ \A r : AdminFits(IdleAdmin, r)
  BY DEF ReaderFits, IdleReader, AdminFits, IdleAdmin

-----------------------------------------------------------------------------
(* Admin requests. *)
LEMMA ExchangeKeeps ==
    ASSUME CredentialInv, NEW a \in Admins, Exchange(a)
    PROVE  ExpiryInv' /\ ArrivalInv' /\ UpsertInv' /\ DeadlineInv'
<1> USE CredentialAssumption
<1>1. PICK access \in {NoToken, [grant |-> issued', until |-> clock + Lifetime]} :
          admin' = [admin EXCEPT ![a] = [IdleAdmin EXCEPT !.pc = "exchanged", !.grant = issued',
                                                          !.access = access]]
  BY DEF Exchange
<1> DEFINE s == [IdleAdmin EXCEPT !.pc = "exchanged", !.grant = issued', !.access = access]
<1>2. s.pc = "exchanged" /\ s.access = access
  BY DEF IdleAdmin
<1>3. access = NoToken \/ Fresh(access)
  BY DEF Fresh, Aged, CredentialInv, TypeOK
<1>4. AdminFits(s, row')
  BY <1>2, <1>3 DEF AdminFits
<1>5. row' = row /\ row \in Row /\ UNCHANGED <<clock, reader>>
  BY DEF Exchange, CredentialInv, TypeOK
<1>6. \A b \in Admins : AdminFits(admin[b], row')
  BY <1>5, OthersFit
<1>7. admin' = [admin EXCEPT ![a] = s]
  BY <1>1
<1> HIDE DEF s
<1>8. ArrivalInv' /\ UpsertInv' /\ DeadlineInv'
  BY <1>4, <1>5, <1>6, <1>7, AdminMoves
<1> QED
  BY <1>5, <1>8 DEF CredentialInv, ExpiryInv

LEMMA AdminReadKeeps ==
    ASSUME CredentialInv, NEW a \in Admins,
           UpsertRead(a) \/ DisconnectRead(a) \/ SelectRead(a)
    PROVE  ExpiryInv' /\ ArrivalInv' /\ UpsertInv' /\ DeadlineInv'
<1> USE CredentialAssumption, RecordTypes
<1>0. /\ admin[a] \in AdminRecord /\ clock \in Nat
      /\ row' = row /\ row \in Row /\ UNCHANGED <<clock, reader>>
  BY DEF CredentialInv, TypeOK, AdminRecord, UpsertRead, DisconnectRead, SelectRead
<1>1. \A b \in Admins : AdminFits(admin[b], row')
  BY <1>0, OthersFit
<1>2. ExpiryInv'
  BY <1>0 DEF CredentialInv, ExpiryInv
<1>3. CASE UpsertRead(a)
  <2>1. PICK expiry \in {0, clock + Lifetime} :
            admin' = [admin EXCEPT ![a].pc = "upsert", ![a].snap = Read(row),
                                   ![a].expires = expiry]
    BY <1>3 DEF UpsertRead
  <2> DEFINE s == [admin[a] EXCEPT !.pc = "upsert", !.snap = Read(row), !.expires = expiry]
  <2>2. admin' = [admin EXCEPT ![a] = s]
    BY <2>1 DEF CredentialInv, TypeOK
  <2>3. /\ s.pc = "upsert" /\ s.access = admin[a].access /\ s.expires = expiry
        /\ s.snap = Read(row)
    BY <1>0 DEF AdminRecord
  <2>4. admin[a].access = NoToken \/ Fresh(admin[a].access)
    BY <1>3 DEF UpsertRead, CredentialInv, ArrivalInv
  <2>5. admin[a].access.until \in Nat /\ expiry <= clock + Lifetime /\ expiry \in Nat
    BY <1>0 DEF AdminRecord, Token
  <2> HIDE DEF s
  <2>6. s.expires <= clock + Lifetime
    BY <2>3, <2>5
  <2>7. s.access # NoToken => Aged(s.access, Late) /\ s.expires <= s.access.until + Late
    BY <1>0, <2>3, <2>4, <2>5 DEF Fresh, Aged, Late
  <2>8. ~s.snap.access => row.access = NoToken
    <3>1. Read(row).access = (row.access # NoToken)
      BY DEF Read
    <3> QED
      BY <2>3, <3>1
  <2>9. AdminFits(s, row')
    BY <1>0, <2>3, <2>6, <2>7, <2>8 DEF AdminFits
  <2> QED
    BY <1>0, <1>1, <1>2, <2>2, <2>9, AdminMoves
<1>4. CASE DisconnectRead(a) \/ SelectRead(a)
  <2>1. PICK line \in {"disconnect", "select"} :
            admin' = [admin EXCEPT ![a].pc = line, ![a].snap = Read(row)]
    BY <1>4 DEF DisconnectRead, SelectRead
  <2> DEFINE s == [admin[a] EXCEPT !.pc = line, !.snap = Read(row)]
  <2>2. admin' = [admin EXCEPT ![a] = s]
    BY <2>1 DEF CredentialInv, TypeOK
  <2>3. s.pc = line
    BY <1>0 DEF AdminRecord
  <2> HIDE DEF s
  <2>4. AdminFits(s, row')
    BY <2>3 DEF AdminFits
  <2> QED
    BY <1>0, <1>1, <1>2, <2>2, <2>4, AdminMoves
<1> QED
  BY <1>3, <1>4

(* The row an admin request's commit leaves: where it disturbs what is     *)
(* said of the others, the access token in it is the request's own.         *)
LEMMA CommitMoves ==
    ASSUME CredentialInv, NEW a \in Admins, row' \in Row,
           row'.access = row.access \/ row'.access = NoToken \/ Aged(row'.access, Late),
           admin' = [admin EXCEPT ![a] = IdleAdmin], UNCHANGED <<clock, reader>>
    PROVE  ArrivalInv' /\ UpsertInv' /\ DeadlineInv'
<1>1. \A b \in Admins : AdminFits(admin[b], row')
  BY OthersFit
<1>2. AdminFits(IdleAdmin, row')
  BY IdleFits
<1> QED
  BY <1>1, <1>2, AdminMoves

(* A reconnection's UPDATE: a mix of the row's columns with the request's   *)
(* own keeps the two expiries together up to Late, because a column stays   *)
(* only when both the row as read and the request had no value for it.      *)
LEMMA UpsertedFits ==
    ASSUME CredentialInv, NEW a \in Admins, admin[a].pc = "upsert"
    PROVE  LET new == Upserted(a) IN
           /\ new.access = row.access \/ new.access = NoToken \/ Aged(new.access, Late)
           /\ new.access # NoToken /\ new.expires # 0 => new.expires <= new.access.until + Late
           /\ new.expires <= clock + Lifetime
<1> USE CredentialAssumption
<1> DEFINE new == Upserted(a)
<1>0. admin[a] \in AdminRecord /\ row \in Row
  BY DEF CredentialInv, TypeOK, AdminRecord
<1>1. /\ admin[a].access.until \in Nat /\ row.access.until \in Nat /\ Late \in Nat
      /\ clock \in Nat /\ row.expires \in Nat /\ admin[a].expires \in Nat
      /\ Lifetime \in Nat
  BY <1>0 DEF CredentialInv, TypeOK, AdminRecord, Row, Token, Late
<1>2. /\ \/ new.access = admin[a].access
         \/ /\ new.access = row.access
            /\ admin[a].access = NoToken /\ ~admin[a].snap.access
      /\ \/ new.expires = admin[a].expires
         \/ new.expires = row.expires /\ admin[a].expires = 0
  BY DEF Upserted, Assign
<1>3. /\ admin[a].expires <= clock + Lifetime
      /\ admin[a].access # NoToken =>
            Aged(admin[a].access, Late) /\ admin[a].expires <= admin[a].access.until + Late
      /\ admin[a].access = NoToken /\ ~admin[a].snap.access /\ row.access # NoToken =>
            admin[a].expires <= row.access.until + Late
  BY DEF CredentialInv, UpsertInv
<1>4. /\ row.expires <= clock + Lifetime
      /\ row.access # NoToken /\ row.expires # 0 => row.expires <= row.access.until + Late
  BY DEF CredentialInv, ExpiryInv
<1> HIDE DEF new
<1>5. new.access = row.access \/ new.access = NoToken \/ Aged(new.access, Late)
  BY <1>2, <1>3
<1>6. new.expires <= clock + Lifetime
  BY <1>2, <1>3, <1>4
<1>7. ASSUME new.access # NoToken, new.expires # 0
      PROVE  new.expires <= new.access.until + Late
  <2>1. CASE admin[a].access # NoToken
    <3>1. new.access = admin[a].access
      BY <1>2, <2>1
    <3>2. clock + Lifetime <= admin[a].access.until + Late
      BY <1>1, <1>3, <2>1 DEF Aged
    <3>3. new.expires = admin[a].expires \/ new.expires = row.expires
      BY <1>2
    <3> QED
      BY <1>1, <1>6, <3>1, <3>2, <3>3
  <2>2. CASE admin[a].access = NoToken
    <3>1. new.access = row.access /\ ~admin[a].snap.access /\ row.access # NoToken
      BY <1>2, <1>7, <2>2
    <3>2. CASE new.expires = admin[a].expires
      BY <1>3, <2>2, <3>1, <3>2
    <3>3. CASE new.expires = row.expires
      BY <1>4, <1>7, <3>1, <3>3
    <3> QED
      BY <1>2, <3>2, <3>3
  <2> QED
    BY <2>1, <2>2
<1> QED
  BY <1>5, <1>6, <1>7 DEF new

LEMMA AdminCommitKeeps ==
    ASSUME CredentialInv, NEW a \in Admins,
           UpsertCommit(a) \/ DisconnectCommit(a) \/ SelectCommit(a)
    PROVE  ExpiryInv' /\ ArrivalInv' /\ UpsertInv' /\ DeadlineInv'
<1> USE CredentialAssumption
<1>0. /\ admin[a] \in AdminRecord /\ row \in Row
      /\ admin' = [admin EXCEPT ![a] = IdleAdmin] /\ UNCHANGED <<clock, reader>>
  BY DEF CredentialInv, TypeOK, AdminRecord, UpsertCommit, DisconnectCommit, SelectCommit
<1>1. row' \in Row
  <2>1. TypeOK /\ [Next]_vars
    BY DEF CredentialInv, Next
  <2> QED
    BY <2>1, TypeStep DEF TypeOK
<1>2. ASSUME row'.access = row.access \/ row'.access = NoToken, row'.expires = row.expires
      PROVE  ExpiryInv' /\ ArrivalInv' /\ UpsertInv' /\ DeadlineInv'
  <2>1. ArrivalInv' /\ UpsertInv' /\ DeadlineInv'
    BY <1>0, <1>1, <1>2, CommitMoves
  <2>2. ExpiryInv'
    BY <1>0, <1>2 DEF CredentialInv, ExpiryInv
  <2> QED
    BY <2>1, <2>2
<1>3. CASE UpsertCommit(a)
  <2>1. CASE row' = row
    BY <1>2, <2>1
  <2>2. CASE row' # row
    <3>1. row' = Upserted(a) /\ admin[a].pc = "upsert"
      BY <1>3, <2>2 DEF UpsertCommit, CommitRow
    <3> DEFINE new == Upserted(a)
    <3>2. /\ new.access = row.access \/ new.access = NoToken \/ Aged(new.access, Late)
          /\ new.access # NoToken /\ new.expires # 0 => new.expires <= new.access.until + Late
          /\ new.expires <= clock + Lifetime
      BY <3>1, UpsertedFits
    <3>3. row' = new
      BY <3>1
    <3> HIDE DEF new
    <3>4. row'.access = row.access \/ row'.access = NoToken \/ Aged(row'.access, Late)
      BY <3>2, <3>3
    <3>5. ArrivalInv' /\ UpsertInv' /\ DeadlineInv'
      BY <1>0, <1>1, <3>4, CommitMoves
    <3>6. ExpiryInv'
      BY <1>0, <3>2, <3>3 DEF ExpiryInv
    <3> QED
      BY <3>5, <3>6
  <2> QED
    BY <2>1, <2>2
<1>4. CASE DisconnectCommit(a)
  <2>1. /\ Disconnected(a).expires = row.expires
        /\ Disconnected(a).access \in {row.access, NoToken}
    BY <1>0 DEF Disconnected, Assign, Row
  <2>2. row' = row \/ row' = Disconnected(a)
    BY <1>4 DEF DisconnectCommit, CommitRow
  <2> QED
    BY <1>2, <2>1, <2>2
<1>5. CASE SelectCommit(a)
  <2>1. row'.access = row.access /\ row'.expires = row.expires
    BY <1>0, <1>5 DEF SelectCommit, Row
  <2> QED
    BY <1>2, <2>1
<1> QED
  BY <1>3, <1>4, <1>5

-----------------------------------------------------------------------------
(* Readers.  A stored token is used only if it ends later than the job:     *)
(* here the skew pays for the job's time, for the answer's and for the      *)
(* commit's.                                                                *)
LEMMA LoadKeeps ==
    ASSUME CredentialInv, NEW r \in Readers, Load(r)
    PROVE  ExpiryInv' /\ ArrivalInv' /\ UpsertInv' /\ DeadlineInv'
<1> USE CredentialAssumption, RecordTypes
<1>0. row \in Row /\ clock \in Nat /\ reader \in [Readers -> ReaderRecord]
  BY DEF CredentialInv, TypeOK, ReaderRecord
<1> DEFINE valid == row.access # NoToken /\ StillValid(row)
           s == [pc    |-> IF valid THEN "using" ELSE "asking",
                 grant |-> IF valid THEN 0 ELSE row.refresh,
                 token |-> IF valid THEN row.access ELSE NoToken,
                 due   |-> IF r \in Jobs THEN clock + JobTimeout ELSE 0]
<1>1. reader' = [reader EXCEPT ![r] = s] /\ UNCHANGED <<clock, issued, live, row, admin>>
  BY DEF Load
<1>2. s \in ReaderRecord
  BY <1>0 DEF Row, ReaderRecord
<1>3. valid => clock + JobTimeout < row.access.until
  <2>1. row.access.until \in Nat /\ row.expires \in Nat
    BY <1>0 DEF Row, Token
  <2>2. SUFFICES ASSUME valid PROVE clock + JobTimeout < row.access.until
    OBVIOUS
  <2>3. row.expires - ExpirySkew > clock
    BY <2>2 DEF StillValid
  <2>4. row.expires <= row.access.until + Late
    BY <1>0, <2>1, <2>2, <2>3 DEF CredentialInv, ExpiryInv
  <2>5. JobTimeout + Late <= ExpirySkew /\ Late \in Nat
    BY DEF Late
  <2> QED
    BY <1>0, <2>1, <2>3, <2>4, <2>5
<1>4. ReaderFits(r, s)
  <2> HIDE DEF valid
  <2> QED
    BY <1>0, <1>3 DEF ReaderFits
<1> HIDE DEF s
<1>5. ArrivalInv' /\ DeadlineInv'
  BY <1>1, <1>2, <1>4, ReaderMoves
<1>6. UpsertInv'
  BY <1>0, <1>1, RequestsKeep
<1> QED
  BY <1>1, <1>5, <1>6 DEF CredentialInv, ExpiryInv

LEMMA AnswerKeeps ==
    ASSUME CredentialInv, NEW r \in Readers, GoogleAnswers(r)
    PROVE  ExpiryInv' /\ ArrivalInv' /\ UpsertInv' /\ DeadlineInv'
<1> USE CredentialAssumption
<1>0. reader[r] \in ReaderRecord /\ clock \in Nat \ {0}
  BY DEF CredentialInv, TypeOK, ReaderRecord
<1> DEFINE token == [grant |-> reader[r].grant, until |-> clock + Lifetime]
           line == IF reader[r].grant \in live THEN "granted" ELSE "refused"
           s == [reader[r] EXCEPT !.pc = line, !.token = token]
<1>1. reader' = [reader EXCEPT ![r] = s] /\ UNCHANGED <<clock, issued, live, row, admin>>
  BY DEF GoogleAnswers, CredentialInv, TypeOK
<1>2. token \in Token /\ Fresh(token)
  BY <1>0 DEF ReaderRecord, Token, Fresh, Aged
<1>3. s \in ReaderRecord /\ s.pc = line /\ s.token = token /\ s.due = reader[r].due
  <2> HIDE DEF token
  <2> QED
    BY <1>0, <1>2 DEF ReaderRecord
<1>4. r \in Jobs => clock <= reader[r].due /\ reader[r].due <= clock + JobTimeout
  BY DEF GoogleAnswers, CredentialInv, DeadlineInv
<1>5. reader[r].due \in Nat /\ token.until = clock + Lifetime
  BY <1>0 DEF ReaderRecord
<1> HIDE DEF s, token
<1>6. ReaderFits(r, s)
  BY <1>0, <1>2, <1>3, <1>4, <1>5 DEF ReaderFits
<1>7. ArrivalInv' /\ DeadlineInv'
  BY <1>1, <1>3, <1>6, ReaderMoves
<1>8. row \in Row
  BY DEF CredentialInv, TypeOK
<1>9. UpsertInv'
  BY <1>1, <1>8, RequestsKeep
<1> QED
  BY <1>1, <1>7, <1>9 DEF CredentialInv, ExpiryInv

LEMMA RefreshCommitKeeps ==
    ASSUME CredentialInv, NEW r \in Readers, RefreshCommit(r)
    PROVE  ExpiryInv' /\ ArrivalInv' /\ UpsertInv' /\ DeadlineInv'
<1> USE CredentialAssumption
<1>0. reader[r] \in ReaderRecord /\ clock \in Nat /\ row \in Row
  BY DEF CredentialInv, TypeOK, ReaderRecord
<1> DEFINE s == [reader[r] EXCEPT !.pc = "using"]
<1>1. reader' = [reader EXCEPT ![r] = s] /\ UNCHANGED <<clock, admin>>
  BY DEF RefreshCommit, CredentialInv, TypeOK
<1>2. s \in ReaderRecord /\ s.pc = "using" /\ s.token = reader[r].token /\ s.due = reader[r].due
  BY <1>0 DEF ReaderRecord
<1> HIDE DEF s
<1>3. r \in Jobs => clock <= reader[r].due /\ reader[r].due < reader[r].token.until
  BY DEF RefreshCommit, CredentialInv, DeadlineInv
<1>4. ReaderFits(r, s)
  BY <1>2, <1>3 DEF ReaderFits
<1>5. ArrivalInv' /\ DeadlineInv'
  BY <1>1, <1>2, <1>4, ReaderMoves
<1>6. row'.access = reader[r].token /\ row'.expires = clock + Lifetime
  BY <1>0 DEF RefreshCommit, Row
<1>7. Fresh(reader[r].token) /\ reader[r].token.until \in Nat
  BY <1>0 DEF RefreshCommit, CredentialInv, ArrivalInv, ReaderRecord, Token
<1>8. Late \in Nat /\ RequestTimeout <= Late
  BY DEF Late
<1>9. /\ row'.expires <= row'.access.until + Late /\ row'.expires <= clock' + Lifetime
      /\ Aged(row'.access, Late)
  BY <1>0, <1>1, <1>6, <1>7, <1>8 DEF Fresh, Aged
<1>10. row' \in Row
  <2>1. reader[r].token \in Token /\ clock + Lifetime \in Nat
    BY <1>0 DEF ReaderRecord
  <2> QED
    BY <1>0, <2>1 DEF RefreshCommit, Row
<1>11. UpsertInv'
  BY <1>1, <1>9, <1>10, RequestsKeep
<1> QED
  BY <1>5, <1>9, <1>11 DEF ExpiryInv

LEMMA ReaderEndKeeps ==
    ASSUME CredentialInv, NEW r \in Readers,
           RefreshFails(r) \/ RejectCommit(r) \/ Done(r) \/ JobTimesOut(r)
    PROVE  ExpiryInv' /\ ArrivalInv' /\ UpsertInv' /\ DeadlineInv'
<1>1. ArrivalInv' /\ DeadlineInv'
  BY RecordTypes, IdleFits, ReaderMoves DEF RefreshFails, RejectCommit, Done, JobTimesOut, Leave
<1>2. /\ row'.access = row.access /\ row'.expires = row.expires /\ row' \in Row
      /\ UNCHANGED <<clock, admin>>
  BY DEF RefreshFails, RejectCommit, Done, JobTimesOut, CredentialInv, TypeOK, Row, Statuses
<1>3. UpsertInv'
  BY <1>2, RequestsKeep
<1> QED
  BY <1>1, <1>2, <1>3 DEF CredentialInv, ExpiryInv

(* Time passes no deadline and lets no answer grow old. *)
LEMMA TickKeeps ==
    ASSUME CredentialInv, Tick
    PROVE  ExpiryInv' /\ ArrivalInv' /\ UpsertInv' /\ DeadlineInv'
<1> USE CredentialAssumption
<1>0. /\ clock \in Nat /\ reader \in [Readers -> ReaderRecord] /\ admin \in [Admins -> AdminRecord]
      /\ clock' = clock + 1 /\ UNCHANGED <<row, admin, reader>>
  BY DEF Tick, CredentialInv, TypeOK, AdminRecord, ReaderRecord
<1>1. ASSUME NEW token \in Token, NEW age \in Nat, token # NoToken,
             Aged(token, age), Within(token, age)
      PROVE  Aged(token, age)'
  <2>1. token.until \in Nat
    BY DEF Token
  <2> QED
    BY <1>0, <1>1, <2>1 DEF Aged, Within
<1>2. ArrivalInv'
  <2>1. ASSUME NEW r \in Readers, reader[r].pc \in {"granted", "refused"}
        PROVE  Fresh(reader[r].token)'
    <3>1. /\ reader[r].token \in Token /\ Fresh(reader[r].token)
          /\ Within(reader[r].token, RequestTimeout)
      BY <1>0, <2>1 DEF Tick, CredentialInv, ArrivalInv, ReaderRecord
    <3>2. reader[r].token # NoToken
      BY <3>1 DEF Fresh, Aged, NoToken
    <3> QED
      BY <1>0, <1>1, <3>1, <3>2 DEF Fresh, Aged
  <2>2. ASSUME NEW a \in Admins, admin[a].pc = "exchanged", admin[a].access # NoToken
        PROVE  Fresh(admin[a].access)'
    <3>1. /\ admin[a].access \in Token /\ Fresh(admin[a].access)
          /\ Within(admin[a].access, RequestTimeout)
      BY <1>0, <2>2 DEF Tick, CredentialInv, ArrivalInv, AdminRecord
    <3> QED
      BY <1>0, <1>1, <2>2, <3>1 DEF Fresh, Aged
  <2> QED
    BY <1>0, <2>1, <2>2 DEF CredentialInv, ArrivalInv
<1>4. UpsertInv'
  <2> SUFFICES ASSUME NEW a \in Admins, admin[a].pc = "upsert"
               PROVE  /\ admin[a].expires <= clock + 1 + Lifetime
                      /\ admin[a].access # NoToken =>
                            /\ Aged(admin[a].access, Late)'
                            /\ admin[a].expires <= admin[a].access.until + Late
                      /\ admin[a].access = NoToken /\ ~admin[a].snap.access
                            /\ row.access # NoToken
                                => admin[a].expires <= row.access.until + Late
    BY <1>0 DEF UpsertInv, Aged
  <2>1. /\ admin[a].expires <= clock + Lifetime
        /\ admin[a].access # NoToken =>
            Aged(admin[a].access, Late) /\ admin[a].expires <= admin[a].access.until + Late
        /\ admin[a].access = NoToken /\ ~admin[a].snap.access /\ row.access # NoToken =>
            admin[a].expires <= row.access.until + Late
    BY DEF CredentialInv, UpsertInv
  <2>2. admin[a].expires <= clock + 1 + Lifetime
    BY <1>0, <2>1 DEF AdminRecord
  <2>3. admin[a].access # NoToken => Aged(admin[a].access, Late)'
    <3> SUFFICES ASSUME admin[a].access # NoToken PROVE Aged(admin[a].access, Late)'
      OBVIOUS
    <3>1. admin[a].access \in Token /\ Late \in Nat /\ Within(admin[a].access, Late)
      BY <1>0 DEF Tick, AdminRecord, Late
    <3> QED
      BY <1>0, <1>1, <2>1, <3>1 DEF Aged
  <2> QED
    BY <2>1, <2>2, <2>3
<1>5. ExpiryInv'
  <2>1. row.expires \in Nat
    BY DEF CredentialInv, TypeOK, Row
  <2> QED
    BY <1>0, <2>1 DEF CredentialInv, ExpiryInv
<1>3. DeadlineInv'
  <2> SUFFICES ASSUME NEW r \in Jobs
               PROVE  /\ reader[r].pc # "idle" => clock + 1 <= reader[r].due
                      /\ reader[r].pc = "asking" => reader[r].due <= clock + 1 + JobTimeout
                      /\ reader[r].pc \in {"granted", "using"}
                            => reader[r].due < reader[r].token.until
    BY <1>0 DEF DeadlineInv
  <2>1. reader[r].due \in Nat
    BY <1>0 DEF Readers, ReaderRecord
  <2> QED
    BY <1>0, <2>1 DEF Tick, Readers, CredentialInv, DeadlineInv
<1> QED
  BY <1>2, <1>3, <1>4, <1>5

LEMMA CredentialStep == CredentialInv /\ [Next]_vars => CredentialInv'
<1> SUFFICES ASSUME CredentialInv, [Next]_vars PROVE CredentialInv'
  OBVIOUS
<1>1. TypeOK'
  BY TypeStep DEF CredentialInv
<1>2. ExpiryInv' /\ ArrivalInv' /\ UpsertInv' /\ DeadlineInv'
  <2>1. CASE UNCHANGED vars
    BY <2>1 DEF vars, CredentialInv, ExpiryInv, ArrivalInv, UpsertInv, DeadlineInv, Fresh, Aged
  <2>2. CASE \E g \in Grants : Revoke(g)
    BY <2>2 DEF Revoke, CredentialInv, ExpiryInv, ArrivalInv, UpsertInv, DeadlineInv, Fresh, Aged
  <2> QED
    BY <2>1, <2>2, ExchangeKeeps, AdminReadKeeps, AdminCommitKeeps, LoadKeeps, AnswerKeeps,
       RefreshCommitKeeps, ReaderEndKeeps, TickKeeps
    DEF Next
<1> QED
  BY <1>1, <1>2 DEF CredentialInv

-----------------------------------------------------------------------------
(* The inductive invariant, for every number of processes and every timing  *)
(* the assumption allows.                                                   *)
THEOREM CredentialInvariant == Spec => []CredentialInv
  BY CredentialInit, CredentialStep, PTL DEF Spec

(* A job never uses a token past its end, provided the skew covers the      *)
(* job's time limit, the time a request to Google may take and the time a   *)
(* reconnection may take to commit its answer.                              *)
THEOREM SkewIsEnough == Spec => []TokenOutlivesJob
<1>1. CredentialInv => TokenOutlivesJob
  <2> SUFFICES ASSUME CredentialInv, NEW r \in Jobs, reader[r].pc = "using"
               PROVE  clock < reader[r].token.until
    BY DEF TokenOutlivesJob
  <2>1. clock \in Nat /\ reader[r].due \in Nat /\ reader[r].token.until \in Nat
    BY DEF CredentialInv, TypeOK, Readers, Token
  <2> QED
    BY <2>1 DEF CredentialInv, DeadlineInv
<1> QED
  BY <1>1, CredentialInvariant, PTL

(* No step but the completion of an authorization connects the source or    *)
(* writes a refresh token.                                                  *)
THEOREM LateRefreshConnectsNothing == Spec => OnlyAuthorizationConnects
<1>1. CredentialInv /\ [Next]_vars => [Connects \/ Refreshes => Completes]_vars
  <2> SUFFICES ASSUME CredentialInv, Next, Connects \/ Refreshes PROVE Completes
    OBVIOUS
  <2>0. row \in Row /\ admin \in [Admins -> AdminRecord]
    BY DEF CredentialInv, TypeOK, AdminRecord
  <2>1. ASSUME NEW a \in Admins, UpsertCommit(a) PROVE Completes
    BY <2>0, <2>1 DEF UpsertCommit, IdleAdmin, Completes
  <2>2. ASSUME NEW a \in Admins, DisconnectCommit(a) PROVE FALSE
    BY <2>0, <2>2
    DEF DisconnectCommit, Disconnected, CommitRow, AssignStatus, Assign, Row, Connects, Refreshes
  <2>3. ASSUME NEW a \in Admins, Exchange(a) \/ UpsertRead(a) \/ DisconnectRead(a)
                                  \/ SelectRead(a) \/ SelectCommit(a) PROVE FALSE
    BY <2>0, <2>3
    DEF Exchange, UpsertRead, DisconnectRead, SelectRead, SelectCommit, Row, Connects, Refreshes
  <2>4. ASSUME NEW r \in Readers, Load(r) \/ GoogleAnswers(r) \/ RefreshFails(r) \/ Done(r)
                                  \/ JobTimesOut(r) \/ RefreshCommit(r) \/ RejectCommit(r)
        PROVE  FALSE
    BY <2>0, <2>4
    DEF Load, GoogleAnswers, RefreshFails, Done, JobTimesOut, RefreshCommit, RejectCommit, Row,
        Connects, Refreshes
  <2>5. ASSUME Tick \/ \E g \in Grants : Revoke(g) PROVE FALSE
    BY <2>0, <2>5 DEF Tick, Revoke, Connects, Refreshes, Row
  <2> QED
    BY <2>1, <2>2, <2>3, <2>4, <2>5 DEF Next
<1> QED
  BY <1>1, CredentialInvariant, PTL DEF Spec, OnlyAuthorizationConnects
=============================================================================
