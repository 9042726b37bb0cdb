-------------------------- MODULE GoogleCredential --------------------------
(***************************************************************************)
(* The one row of source_credentials and everything that reads and writes  *)
(* it: the API requests that connect, disconnect and select a location     *)
(* (GoogleConnectionService, CredentialRepository), and the processes that *)
(* resolve an access token from it (google_token), which are the ingestion *)
(* jobs and the API's discovery calls.                                     *)
(*                                                                         *)
(* Nobody locks the row.  A transaction reads it, works with what it read, *)
(* perhaps across a request to Google, and its UPDATE writes the columns   *)
(* the process assigned a different value: every such transaction is a     *)
(* read step and a commit step here, and the row in between is anybody's.  *)
(*                                                                         *)
(* Time is in the unit of the constants: in the code ExpirySkew is 300 s   *)
(* (EXPIRY_SKEW), JobTimeout 180 s (RQ's default), RequestTimeout 30 s     *)
(* (httpx) and Lifetime 3600 s (expires_in).  CommitTimeout bounds what    *)
(* the code leaves to the database: the SELECT, UPDATE and COMMIT of a     *)
(* reconnection whose answer has arrived.                                  *)
(***************************************************************************)
EXTENDS Integers, FiniteSets

CONSTANTS
    Admins,             \* API requests that change the connection
    Jobs,               \* executions of an ingestion job
    Discoveries,        \* API requests that list accounts or locations
    ExpirySkew, JobTimeout, RequestTimeout, CommitTimeout, Lifetime,
    MaxTime,            \* bound on the clock
    MaxGrants           \* bound on authorizations

Readers == Jobs \cup Discoveries

ASSUME CredentialAssumption ==
    /\ IsFiniteSet(Admins) /\ Jobs \cap Discoveries = {} /\ Admins \cap Readers = {}
    /\ ExpirySkew \in Nat /\ JobTimeout \in Nat
    /\ RequestTimeout \in Nat /\ CommitTimeout \in Nat
    /\ Lifetime \in Nat \ {0} /\ MaxTime \in Nat /\ MaxGrants \in Nat
    /\ JobTimeout + RequestTimeout + CommitTimeout <= ExpirySkew /\ JobTimeout < Lifetime

VARIABLES
    clock,
    issued, live,   \* Google: grants issued so far, and those not revoked
    row,            \* the row of source_credentials
    admin,          \* per admin request: line, row as read, tokens to store
    reader          \* per reader: line, grant as read, token, time it must end

vars == <<clock, issued, live, row, admin, reader>>

(* Grants are numbered from 1; 0 stands for NULL in every column. *)
Grants   == 1..MaxGrants
Token    == [grant : 0..MaxGrants, until : Nat]
NoToken  == [grant |-> 0, until |-> 0]
Statuses == {"absent", "disconnected", "connected", "invalid"}
Row      == [status : Statuses, refresh : 0..MaxGrants,
             access : Token, expires : Nat, location : BOOLEAN]
NoRow    == [status |-> "absent", refresh |-> 0, access |-> NoToken,
             expires |-> 0, location |-> FALSE]

(* What an UPDATE remembers of the row it read: which columns held a value. *)
Snapshot == [status : Statuses, refresh : BOOLEAN, access : BOOLEAN,
             expires : BOOLEAN, location : BOOLEAN]
Read(r)  == [status |-> r.status, refresh |-> r.refresh # 0, access |-> r.access # NoToken,
             expires |-> r.expires # 0, location |-> r.location]

IdleAdmin  == [pc |-> "idle", snap |-> Read(NoRow), grant |-> 0,
               access |-> NoToken, expires |-> 0]
IdleReader == [pc |-> "idle", grant |-> 0, token |-> NoToken, due |-> 0]

Init ==
    /\ clock = 1
    /\ issued = 0 /\ live = {}
    /\ row = NoRow
    /\ admin = [a \in Admins |-> IdleAdmin]
    /\ reader = [r \in Readers |-> IdleReader]

-----------------------------------------------------------------------------
(* ORM assignments.  Ciphertext and timestamps always differ from the value *)
(* read, unless both are NULL; a status is written only if it differs.      *)
Assign(current, held, new, null) ==
    IF ~held /\ new = null THEN current ELSE new

AssignStatus(current, read, new) == IF read = new THEN current ELSE new

(* CHECK ck_source_credentials_connected_has_token. *)
Check(r) == r.status = "connected" => r.refresh # 0

(* A commit the CHECK refuses raises and leaves the row as it is. *)
CommitRow(new) == row' = IF Check(new) THEN new ELSE row

-----------------------------------------------------------------------------
(* complete: Google answers the code with a new grant, and usually with an  *)
(* access token (payload.get); without a refresh token nothing is stored.   *)
Exchange(a) ==
    /\ admin[a].pc = "idle"
    /\ issued < MaxGrants
    /\ issued' = issued + 1
    /\ live' = live \cup {issued'}
    /\ \E access \in {NoToken, [grant |-> issued', until |-> clock + Lifetime]} :
        admin' = [admin EXCEPT ![a] =
            [IdleAdmin EXCEPT !.pc = "exchanged", !.grant = issued', !.access = access]]
    /\ UNCHANGED <<clock, row, reader>>

(* ... token_expires_at is counted from the answer's arrival, if it says    *)
(* expires_in, with or without an access token, and upsert reads the row    *)
(* ...                                                                      *)
UpsertRead(a) ==
    /\ admin[a].pc = "exchanged"
    /\ \E expires \in {0, clock + Lifetime} :
        admin' = [admin EXCEPT ![a].pc = "upsert", ![a].snap = Read(row),
                               ![a].expires = expires]
    /\ UNCHANGED <<clock, issued, live, row, reader>>

Upserted(a) ==
    LET old == admin[a].snap IN
    [status   |-> AssignStatus(row.status, old.status, "connected"),
     refresh  |-> admin[a].grant,
     access   |-> Assign(row.access, old.access, admin[a].access, NoToken),
     expires  |-> Assign(row.expires, old.expires, admin[a].expires, 0),
     location |-> Assign(row.location, old.location, FALSE, FALSE)]

(* ... and writes it.  Two first connections collide on the unique source.  *)
UpsertCommit(a) ==
    /\ admin[a].pc = "upsert"
    /\ IF admin[a].snap.status = "absent" /\ row.status # "absent"
       THEN UNCHANGED row
       ELSE CommitRow(Upserted(a))
    /\ admin' = [admin EXCEPT ![a] = IdleAdmin]
    /\ UNCHANGED <<clock, issued, live, reader>>

(* mark_disconnected; no row is a return. *)
DisconnectRead(a) ==
    /\ admin[a].pc = "idle"
    /\ row.status # "absent"
    /\ admin' = [admin EXCEPT ![a].pc = "disconnect", ![a].snap = Read(row)]
    /\ UNCHANGED <<clock, issued, live, row, reader>>

(* token_expires_at, the location and the scopes stay. *)
Disconnected(a) ==
    LET old == admin[a].snap IN
    [row EXCEPT !.status  = AssignStatus(row.status, old.status, "disconnected"),
                !.access  = Assign(row.access, old.access, NoToken, NoToken),
                !.refresh = Assign(row.refresh, old.refresh, 0, 0)]

DisconnectCommit(a) ==
    /\ admin[a].pc = "disconnect"
    /\ CommitRow(Disconnected(a))
    /\ admin' = [admin EXCEPT ![a] = IdleAdmin]
    /\ UNCHANGED <<clock, issued, live, reader>>

(* select_location: ensure_connected and set_location share one read. *)
SelectRead(a) ==
    /\ admin[a].pc = "idle"
    /\ row.status = "connected"
    /\ admin' = [admin EXCEPT ![a].pc = "select", ![a].snap = Read(row)]
    /\ UNCHANGED <<clock, issued, live, row, reader>>

(* A pair equal to the one read is not written again.                       *)
SelectCommit(a) ==
    /\ admin[a].pc = "select"
    /\ \E same \in BOOLEAN :
        /\ same => admin[a].snap.location
        /\ row' = [row EXCEPT !.location = IF same THEN @ ELSE TRUE]
    /\ admin' = [admin EXCEPT ![a] = IdleAdmin]
    /\ UNCHANGED <<clock, issued, live, reader>>

-----------------------------------------------------------------------------
StillValid__no_skew(c) == c.expires > clock

StillValid(c) == c.expires - ExpirySkew > clock

Leave(r) == reader' = [reader EXCEPT ![r] = IdleReader]

(* load_credential, the job's location guard, and the first half of         *)
(* resolve_access_token; an unusable credential raises and changes nothing. *)
Load(r) ==
    /\ reader[r].pc = "idle"
    /\ row.status = "connected" /\ row.refresh # 0
    /\ r \in Jobs => row.location
    /\ LET valid == row.access # NoToken /\ StillValid(row) IN
       reader' = [reader EXCEPT ![r] =
            [pc    |-> IF valid THEN "using" ELSE "asking",
             grant |-> IF valid THEN 0 ELSE row.refresh,
             token |-> IF valid THEN row.access ELSE NoToken,
             due   |-> IF r \in Jobs THEN clock + JobTimeout ELSE 0]]
    /\ UNCHANGED <<clock, issued, live, row, admin>>

(* Google's answer to the refresh token, according to the grant it is of. *)
GoogleAnswers(r) ==
    /\ reader[r].pc = "asking"
    /\ reader' = [reader EXCEPT
            ![r].pc = IF reader[r].grant \in live THEN "granted" ELSE "refused",
            ![r].token = [grant |-> reader[r].grant, until |-> clock + Lifetime]]
    /\ UNCHANGED <<clock, issued, live, row, admin>>

(* No answer, a status outside 2xx/400/401, or no token: SourceFetchError. *)
RefreshFails(r) ==
    /\ reader[r].pc = "asking"
    /\ Leave(r)
    /\ UNCHANGED <<clock, issued, live, row, admin>>

RefreshCommit__whole_row(r) ==
    /\ reader[r].pc = "granted"
    /\ row' = [row EXCEPT !.status = "connected", !.refresh = reader[r].grant,
                          !.access = reader[r].token, !.expires = clock + Lifetime]
    /\ reader' = [reader EXCEPT ![r].pc = "using"]
    /\ UNCHANGED <<clock, issued, live, admin>>

(* _refresh stores the new access token and its expiry, nothing else. *)
RefreshCommit(r) ==
    /\ reader[r].pc = "granted"
    /\ row' = [row EXCEPT !.access = reader[r].token, !.expires = clock + Lifetime]
    /\ reader' = [reader EXCEPT ![r].pc = "using"]
    /\ UNCHANGED <<clock, issued, live, admin>>

(* 400 or 401: the row is marked and SourceNotConnectedError raised. *)
RejectCommit(r) ==
    /\ reader[r].pc = "refused"
    /\ row' = [row EXCEPT !.status = "invalid"]
    /\ Leave(r)
    /\ UNCHANGED <<clock, issued, live, admin>>

(* The job or the request ends, normally or not. *)
Done(r) ==
    /\ reader[r].pc = "using"
    /\ Leave(r)
    /\ UNCHANGED <<clock, issued, live, row, admin>>

(* RQ interrupts a job that has run for its timeout, wherever it is. *)
JobTimesOut(r) ==
    /\ r \in Jobs
    /\ reader[r].pc # "idle" /\ clock = reader[r].due
    /\ Leave(r)
    /\ UNCHANGED <<clock, issued, live, row, admin>>

-----------------------------------------------------------------------------
(* External: the owner withdraws a grant at Google. *)
Revoke(g) ==
    /\ g \in live
    /\ live' = live \ {g}
    /\ UNCHANGED <<clock, issued, row, admin, reader>>

(* No more than wait has passed since Google issued the token. *)
Within(token, wait) == token = NoToken \/ clock < token.until - Lifetime + wait

(* An answer in flight is waited for at most RequestTimeout: the process    *)
(* that gets it dates it at most that much later than Google did.  And a    *)
(* reconnection commits at most CommitTimeout after that.                   *)
Tick ==
    /\ clock < MaxTime
    /\ \A r \in Readers :
        /\ r \in Jobs /\ reader[r].pc # "idle" => clock < reader[r].due
        /\ reader[r].pc \in {"granted", "refused"} => Within(reader[r].token, RequestTimeout)
    /\ \A a \in Admins :
        /\ admin[a].pc = "exchanged" => Within(admin[a].access, RequestTimeout)
        /\ admin[a].pc = "upsert" => Within(admin[a].access, RequestTimeout + CommitTimeout)
    /\ clock' = clock + 1
    /\ UNCHANGED <<issued, live, row, admin, reader>>

Next ==
    \/ \E a \in Admins :
        \/ Exchange(a) \/ UpsertRead(a) \/ UpsertCommit(a)
        \/ DisconnectRead(a) \/ DisconnectCommit(a)
        \/ SelectRead(a) \/ SelectCommit(a)
    \/ \E r \in Readers :
        \/ Load(r) \/ GoogleAnswers(r) \/ RefreshFails(r)
        \/ RefreshCommit(r) \/ RejectCommit(r) \/ Done(r) \/ JobTimesOut(r)
    \/ \E g \in Grants : Revoke(g)
    \/ Tick

Spec == Init /\ [][Next]_vars

-----------------------------------------------------------------------------
(* Properties *)

(* Types, with the table's CHECK: "A connected row must hold a refresh       *)
(* token" (operational-tables.md), also when two admin requests interleave. *)
TypeOK ==
    /\ clock \in Nat \ {0}
    /\ issued \in 0..MaxGrants /\ live \in SUBSET (1..issued)
    /\ row \in Row /\ Check(row)
    /\ admin \in [Admins ->
            [pc : {"idle", "exchanged", "upsert", "disconnect", "select"},
             snap : Snapshot, grant : 0..MaxGrants, access : Token, expires : Nat]]
    /\ reader \in [Readers ->
            [pc : {"idle", "asking", "granted", "refused", "using"},
             grant : 0..MaxGrants, token : Token, due : Nat]]

(* Only completing an authorization connects or brings a refresh token:     *)
(* a token refresh or a rejection that lands late, after a disconnect or a  *)
(* reconnection by other processes, restores neither the status nor the     *)
(* refresh token it read before it asked Google (_refresh).                 *)
Connects  == row.status # "connected" /\ row'.status = "connected"
Refreshes == row'.refresh \notin {0, row.refresh}
Completes == \E a \in Admins : admin[a].pc = "upsert" /\ admin'[a].pc = "idle"

OnlyAuthorizationConnects == [][Connects \/ Refreshes => Completes]_vars

(* EXPIRY_SKEW does its work: the token a job was given is not past its end *)
(* while the job uses it, although the job resolves it once, the row's      *)
(* expiry is dated by the worker, after Google's answer arrived, and the    *)
(* two columns are written by processes that do not see each other, with or *)
(* without a value for each.                                                *)
TokenOutlivesJob ==
    \A r \in Jobs : reader[r].pc = "using" => clock < reader[r].token.until

(* What makes it inductive.  The columns of the row agree up to Late, the   *)
(* time an answer may travel and a reconnection may take to commit it,      *)
(* whoever wrote them: a reconnection that brought no expiry, or no token,  *)
(* leaves there what another process wrote while it was committing.  An     *)
(* answer in flight is at most RequestTimeout old; and a job's deadline     *)
(* lies before the end of the token it is about to use.                     *)
Late == RequestTimeout + CommitTimeout

ExpiryInv ==
    /\ row.access # NoToken /\ row.expires # 0 => row.expires <= row.access.until + Late
    /\ row.expires <= clock + Lifetime

Aged(token, age) ==
    /\ token.until > Lifetime
    /\ token.until <= clock + Lifetime
    /\ clock <= token.until - Lifetime + age

Fresh(token) == Aged(token, RequestTimeout)

ArrivalInv ==
    /\ \A r \in Readers : reader[r].pc \in {"granted", "refused"} => Fresh(reader[r].token)
    /\ \A a \in Admins : admin[a].pc = "exchanged" =>
            admin[a].access = NoToken \/ Fresh(admin[a].access)

UpsertInv ==
    \A a \in Admins : admin[a].pc = "upsert" =>
        /\ admin[a].expires <= clock + Lifetime
        /\ admin[a].access # NoToken =>
            /\ Aged(admin[a].access, Late)
            /\ admin[a].expires <= admin[a].access.until + Late
        /\ admin[a].access = NoToken /\ ~admin[a].snap.access /\ row.access # NoToken =>
                admin[a].expires <= row.access.until + Late

DeadlineInv ==
    \A r \in Jobs :
        /\ reader[r].pc # "idle" => clock <= reader[r].due
        /\ reader[r].pc = "asking" => reader[r].due <= clock + JobTimeout
        /\ reader[r].pc \in {"granted", "using"} => reader[r].due < reader[r].token.until

CredentialInv == TypeOK /\ ExpiryInv /\ ArrivalInv /\ UpsertInv /\ DeadlineInv

(* "Disconnect must not leave ciphertext behind." (mark_disconnected)       *)
DisconnectLeavesNothing ==
    row.status = "disconnected" => row.refresh = 0 /\ row.access = NoToken
=============================================================================
