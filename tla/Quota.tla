-------------------------------- MODULE Quota --------------------------------
(***************************************************************************)
(* The limits of an owner's account: how many sessions may be live, how    *)
(* many may be stored, how many bytes they may hold; and the Postgres      *)
(* transactions that keep the meter users.storage_bytes_used: creating a   *)
(* session (or a fork of one), appending an event, deleting a session.     *)
(*                                                                         *)
(* A transaction takes the row locks of its statements one after another   *)
(* and keeps them until it commits; it waits while another holds the next. *)
(* What it writes is seen at its commit, so its effect is one step there.  *)
(* Single-statement updates (stops, reaps, quota overrides) are one step,  *)
(* possible while nobody holds the row.  An id is never used twice.        *)
(* Access rights are left out: any session may be forked by anyone.        *)
(***************************************************************************)
EXTENDS Integers, FiniteSets, FiniteSetsExt

CONSTANTS
    Users,
    Sessions,      \* the ids that may be created
    Txs,           \* handlers at work at the same time
    Nobody,        \* no holder, no source, no owner
    Overrides,     \* storage limits an admin may set for a user
    LiveCaps,      \* live-session caps an admin may set for a user
    Exemptions,    \* values of quota_exempt an admin may set
    Customers,     \* users who may come to hold a Pro licence
    DefStorage,    \* DEFAULT_STORAGE_LIMIT_BYTES, in events
    ProStorage,    \* PRO_STORAGE_LIMIT_BYTES
    DefMaxLive,    \* DEFAULT_MAX_LIVE_SESSIONS
    FreeSessions,  \* FREE_SESSION_LIMIT (0: none)
    ProSessions,   \* PRO_SESSION_LIMIT
    SessionLimit,  \* users.session_limit of each user, or Unset; an admin's is 0
    MaxBytes       \* bound on what is stored, for TLC

Unset == -1
ASSUME LimitsAssumption ==
    /\ SessionLimit \in [Users -> Nat \cup {Unset}]
    /\ Overrides \subseteq Nat /\ LiveCaps \subseteq Nat
    /\ Exemptions \subseteq BOOLEAN /\ Customers \subseteq Users
    /\ DefStorage \in Nat /\ ProStorage \in Nat /\ DefMaxLive \in Nat
    /\ FreeSessions \in Nat /\ ProSessions \in Nat /\ MaxBytes \in Nat
ASSUME RowsAssumption ==
    /\ IsFiniteSet(Sessions)
    /\ Users \cap Sessions = {}
    /\ Nobody \notin Users \cup Sessions \cup Txs

VARIABLES
    used,      \* users.storage_bytes_used
    override,  \* users.storage_limit_bytes, or Unset
    maxLive,   \* users.max_live_sessions, resolved
    exempt,    \* users.quota_exempt
    licensed,  \* whether the user holds an active Pro licence (isProSQL)
    st,        \* per session: "none", "live", "ended" or "deleted"
    owner,     \* sessions.owner_id
    source,    \* sessions.forked_from_session_id
    bytes,     \* sessions.bytes_used
    pc,        \* what each handler does next
    job,       \* what it was asked to do
    holder     \* who holds the lock of each users and sessions row

accountVars == <<override, maxLive, exempt, licensed>>
sessionVars == <<st, owner, source, bytes>>
txVars == <<pc, job, holder>>
vars == <<used, accountVars, sessionVars, txVars>>

Rows == Users \cup Sessions
Jobs == [op : {"none", "create", "event", "comment", "note", "delete"},
         user : Users \cup {Nobody}, row : Sessions \cup {Nobody},
         source : Sessions \cup {Nobody}, cap : Nat, held : SUBSET BOOLEAN]
NoJob == [op |-> "none", user |-> Nobody, row |-> Nobody, source |-> Nobody, cap |-> 0, held |-> {}]

(* planStorageSQL and planSessionsSQL: the limits CreateSession judges by. *)
StorageLimitIf(u, pro) ==
    IF override[u] # Unset THEN override[u]
    ELSE IF pro /\ ProStorage > 0 THEN ProStorage ELSE DefStorage
StorageLimit(u) == StorageLimitIf(u, licensed[u])
SessionCapIf(u, pro) ==
    IF SessionLimit[u] # Unset THEN SessionLimit[u] ELSE IF pro THEN ProSessions ELSE FreeSessions

(* COALESCE(storage_limit_bytes, $3): the limit AppendEvent judges by. *)
AppendLimit(u) == IF override[u] # Unset THEN override[u] ELSE DefStorage

Owned(u) == {s \in Sessions : st[s] \in {"live", "ended"} /\ owner[s] = u}
Live(u)  == {s \in Owned(u) : st[s] = "live"}
Forks(s) == {c \in Sessions : st[c] \in {"live", "ended"} /\ source[c] = s}

(* Row locks. *)
Free(x) == holder[x] = Nobody
Take(t, x) == holder' = [holder EXCEPT ![x] = t]
Release(t) == holder' = [x \in Rows |-> IF holder[x] = t THEN Nobody ELSE holder[x]]
Goto(t, label) == pc' = [pc EXCEPT ![t] = label]

Init ==
    /\ used = [u \in Users |-> 0] /\ override = [u \in Users |-> Unset]
    /\ maxLive = [u \in Users |-> DefMaxLive]
    /\ exempt = [u \in Users |-> FALSE] /\ licensed = [u \in Users |-> FALSE]
    /\ st = [s \in Sessions |-> "none"] /\ owner = [s \in Sessions |-> Nobody]
    /\ source = [s \in Sessions |-> Nobody] /\ bytes = [s \in Sessions |-> 0]
    /\ pc = [t \in Txs |-> "idle"] /\ job = [t \in Txs |-> NoJob]
    /\ holder = [x \in Rows |-> Nobody]

(* The transaction is over, rolled back or with nothing left to commit.     *)
(* Mutated form: an early return without the deferred Rollback.             *)
Refuse_NoRollback(t) ==
    /\ UNCHANGED holder
    /\ Goto(t, "idle") /\ job' = [job EXCEPT ![t] = NoJob]
    /\ UNCHANGED <<used, accountVars, sessionVars>>

Refuse(t) ==
    /\ Release(t)
    /\ Goto(t, "idle") /\ job' = [job EXCEPT ![t] = NoJob]
    /\ UNCHANGED <<used, accountVars, sessionVars>>

Begin(t, j, label) ==
    /\ pc[t] = "idle"
    /\ job' = [job EXCEPT ![t] = j] /\ Goto(t, label)
    /\ UNCHANGED <<used, accountVars, sessionVars, holder>>

-----------------------------------------------------------------------------
(* CreateSession. *)

(* The request, with the source resolveFork has found.  held are the plans  *)
(* its user holds, with a licence (TRUE) or without, until they are read.   *)
CreateBegin(t) ==
    \E u \in Users, s \in Sessions, src \in Sessions \cup {Nobody} :
        /\ st[s] = "none" /\ \A o \in Txs : job[o].row # s
        /\ src # Nobody => st[src] \in {"live", "ended"}
        /\ Begin(t, [NoJob EXCEPT !.op = "create", !.user = u, !.row = s, !.source = src,
                                !.held = {licensed[u]}], "owner")

(* SELECT ... FROM users WHERE id = $1 FOR UPDATE, and the storage check.   *)
(* The licences are read as they were when the statement began, which may   *)
(* be long before it gets its lock.                                         *)
(* Mutated form: a plain SELECT.                                            *)
LockOwner_Plain(t) == UNCHANGED holder
LockOwner(t) == Take(t, job[t].user)

CreateOwner(t) ==
    /\ pc[t] = "owner" /\ Free(job[t].user)
    /\ LET u == job[t].user IN \E pro \in job[t].held :
         IF ~exempt[u] /\ used[u] >= StorageLimitIf(u, pro)
           THEN Refuse(t)
           ELSE /\ LockOwner(t)
                /\ job' = [job EXCEPT ![t].cap = SessionCapIf(u, pro)]
                /\ Goto(t, "count")
                /\ UNCHANGED <<used, accountVars, sessionVars>>

(* The two counts.  Between them an owner's sessions only become fewer.     *)
(* Mutated form: the sessions that have ended are not counted.              *)
CreateCount_LiveOnly(t) ==
    /\ pc[t] = "count"
    /\ LET u == job[t].user IN
         IF /\ ~exempt[u]
            /\ \/ Cardinality(Live(u)) >= maxLive[u]
               \/ job[t].cap > 0 /\ Cardinality(Live(u)) >= job[t].cap
           THEN Refuse(t)
           ELSE Goto(t, "insert") /\ UNCHANGED <<used, accountVars, sessionVars, job, holder>>
CreateCount(t) ==
    /\ pc[t] = "count"
    /\ LET u == job[t].user IN
         IF /\ ~exempt[u]
            /\ \/ Cardinality(Live(u)) >= maxLive[u]
               \/ job[t].cap > 0 /\ Cardinality(Owned(u)) >= job[t].cap
           THEN Refuse(t)
           ELSE Goto(t, "insert") /\ UNCHANGED <<used, accountVars, sessionVars, job, holder>>

(* The insert, and for a fork the row lock of its source: the foreign key   *)
(* and fork_count want it.  A source deleted meanwhile fails the insert.    *)
CreateInsert(t) ==
    /\ pc[t] = "insert"
    /\ LET j == job[t] IN
       /\ j.source # Nobody => Free(j.source)
       /\ IF j.source # Nobody /\ st[j.source] = "deleted"
            THEN Refuse(t)
            ELSE /\ st' = [st EXCEPT ![j.row] = "live"]
                 /\ owner' = [owner EXCEPT ![j.row] = j.user]
                 /\ source' = [source EXCEPT ![j.row] = j.source]
                 /\ Release(t) /\ Goto(t, "idle") /\ job' = [job EXCEPT ![t] = NoJob]
                 /\ UNCHANGED <<used, accountVars, bytes>>

Create(t) == CreateOwner(t) \/ CreateCount(t) \/ CreateInsert(t)

-----------------------------------------------------------------------------
(* AppendEvent, and what EmitEvent does with a crossing. *)

(* Events, comments and decisions are accepted while the row is live. *)
Stored == MapThenSumSet(LAMBDA s : bytes[s], Sessions)

AppendBegin(t) ==
    \E s \in Sessions, op \in {"event", "comment"} :
        /\ st[s] = "live" /\ Stored < MaxBytes
        /\ Begin(t, [NoJob EXCEPT !.op = op, !.user = owner[s], !.row = s], "row")

(* The order in which the statements lock: the session, then its owner.     *)
(* Mutated form: the owner first, as CreateSession does.                    *)
AppendOrder_OwnerFirst(j) == <<j.user, j.row>>
AppendOrder(j) == <<j.row, j.user>>

(* INSERT INTO session_events: the foreign key refuses a deleted session.   *)
(* Mutated form: a table without it, and no look at the rows affected.      *)
Missing_Unnoticed(s) == FALSE
Missing(s) == st[s] = "deleted"

AppendRow(t) ==
    /\ pc[t] = "row" /\ Free(AppendOrder(job[t])[1])
    /\ IF Missing(job[t].row)
         THEN Refuse(t)
         ELSE /\ Take(t, AppendOrder(job[t])[1]) /\ Goto(t, "meter")
              /\ UNCHANGED <<used, accountVars, sessionVars, job>>

(* Only EmitEvent looks at the crossing: a comment, a decision and the      *)
(* quota note itself are stored and nothing follows.                        *)
Crossing(j) == j.op = "event" /\ used[j.user] + 1 >= AppendLimit(j.user) /\ ~exempt[j.user]

AppendMeter(t) ==
    /\ pc[t] = "meter" /\ Free(AppendOrder(job[t])[2])
    /\ LET j == job[t] IN
       /\ bytes' = [bytes EXCEPT ![j.row] = @ + 1]
       /\ used' = [used EXCEPT ![j.user] = @ + 1]
       /\ Release(t)
       /\ Goto(t, IF Crossing(j) THEN "autoend" ELSE "idle")
       /\ job' = [job EXCEPT ![t] = IF Crossing(j) THEN j ELSE NoJob]
    /\ UNCHANGED <<accountVars, st, owner, source>>

(* AutoEndQuota, a statement of its own; then the quota note is appended. *)
AutoEnd(t) ==
    /\ pc[t] = "autoend" /\ Free(job[t].row)
    /\ st' = [st EXCEPT ![job[t].row] = IF @ = "live" THEN "ended" ELSE @]
    /\ job' = [job EXCEPT ![t].op = "note"] /\ Goto(t, "row")
    /\ UNCHANGED <<used, accountVars, owner, source, bytes, holder>>

Append(t) == AppendRow(t) \/ AppendMeter(t) \/ AutoEnd(t)

-----------------------------------------------------------------------------
(* DeleteSession: one statement, which deletes the row, credits its owner   *)
(* and then, by ON DELETE SET NULL, updates the forks of the session.       *)

DeleteBegin(t) ==
    \E s \in Sessions :
        /\ st[s] \in {"live", "ended"}
        /\ Begin(t, [NoJob EXCEPT !.op = "delete", !.user = owner[s], !.row = s], "erase")

DeleteErase(t) ==
    /\ pc[t] = "erase" /\ Free(job[t].row)
    /\ IF st[job[t].row] = "deleted"
         THEN Refuse(t)
         ELSE /\ Take(t, job[t].row) /\ Goto(t, "credit")
              /\ UNCHANGED <<used, accountVars, sessionVars, job>>

DeleteCredit(t) ==
    /\ pc[t] = "credit" /\ Free(job[t].user)
    /\ Take(t, job[t].user) /\ Goto(t, "unfork")
    /\ UNCHANGED <<used, accountVars, sessionVars, job>>

DeleteUnfork(t) ==
    /\ pc[t] = "unfork"
    /\ \E c \in Forks(job[t].row) : Free(c) /\ Take(t, c)
    /\ UNCHANGED <<used, accountVars, sessionVars, pc, job>>

DeleteCommit(t) ==
    /\ pc[t] = "unfork"
    /\ \A c \in Forks(job[t].row) : holder[c] = t
    /\ LET j == job[t] IN
       /\ used' = [used EXCEPT ![j.user] = IF @ > bytes[j.row] THEN @ - bytes[j.row] ELSE 0]
       /\ st' = [st EXCEPT ![j.row] = "deleted"]
       /\ bytes' = [bytes EXCEPT ![j.row] = 0]
       /\ source' = [c \in Sessions |-> IF source[c] = j.row THEN Nobody ELSE source[c]]
    /\ Release(t) /\ Goto(t, "idle") /\ job' = [job EXCEPT ![t] = NoJob]
    /\ UNCHANGED <<accountVars, owner>>

Delete(t) == DeleteErase(t) \/ DeleteCredit(t) \/ DeleteUnfork(t) \/ DeleteCommit(t)

-----------------------------------------------------------------------------
(* The rest of the world. *)

(* Stop, a reaper. *)
EndSession(s) ==
    /\ st[s] = "live" /\ Free(s)
    /\ st' = [st EXCEPT ![s] = "ended"]
    /\ UNCHANGED <<used, accountVars, owner, source, bytes, txVars>>

SetUserQuota(u) ==
    /\ Free(u)
    /\ \E limit \in Overrides \cup {Unset}, cap \in LiveCaps \cup {DefMaxLive}, e \in Exemptions :
         /\ override' = [override EXCEPT ![u] = limit]
         /\ maxLive' = [maxLive EXCEPT ![u] = cap]
         /\ exempt' = [exempt EXCEPT ![u] = e]
    /\ UNCHANGED <<used, licensed, sessionVars, txVars>>

(* A licence is added, revoked or runs out.  It has a row of its own, so no *)
(* lock on the user keeps it from changing.                                 *)
ChangeLicence(u) ==
    /\ licensed' = [licensed EXCEPT ![u] = ~@]
    /\ job' = [t \in Txs |-> IF pc[t] = "owner" /\ job[t].user = u
                               THEN [job[t] EXCEPT !.held = @ \cup {~licensed[u]}] ELSE job[t]]
    /\ UNCHANGED <<used, override, maxLive, exempt, sessionVars, pc, holder>>

(* The locks t wants before it can commit its current statement. *)
Wants(t) ==
    CASE pc[t] = "owner" -> {job[t].user}
      [] pc[t] = "insert" -> {job[t].source} \ {Nobody}
      [] pc[t] = "row" -> {AppendOrder(job[t])[1]}
      [] pc[t] = "meter" -> {AppendOrder(job[t])[2]}
      [] pc[t] \in {"erase", "autoend"} -> {job[t].row}
      [] pc[t] = "credit" -> {job[t].user}
      [] pc[t] = "unfork" -> Forks(job[t].row)
      [] OTHER -> {}

(* Transactions that wait for each other in a circle. *)
Circle(T) == T # {} /\ \A t \in T : \E x \in Wants(t) : holder[x] \in T \ {t}

(* Postgres finds such a circle and rolls one of its transactions back. *)
DeadlockAbort(t) ==
    /\ \E T \in SUBSET Txs : t \in T /\ Circle(T)
    /\ Refuse(t)

(* The client goes away, or the server dies: the transaction is rolled back. *)
Cancel(t) == pc[t] # "idle" /\ Refuse(t)

Step(t) == Create(t) \/ Append(t) \/ Delete(t)

Next ==
    \/ \E t \in Txs : CreateBegin(t) \/ AppendBegin(t) \/ DeleteBegin(t)
    \/ \E t \in Txs : Step(t) \/ DeadlockAbort(t) \/ Cancel(t)
    \/ \E s \in Sessions : EndSession(s)
    \/ \E u \in Users : SetUserQuota(u)
    \/ \E u \in Customers : ChangeLicence(u)

Spec == Init /\ [][Next]_vars

(* Handlers run, Postgres serves the waiters of a row in their order, and   *)
(* looks for deadlocks.                                                     *)
FairSpec == Spec /\ \A t \in Txs : SF_vars(Step(t)) /\ WF_vars(DeadlockAbort(t))

-----------------------------------------------------------------------------
(* Properties. *)

TypeOK ==
    /\ used \in [Users -> Nat]
    /\ override \in [Users -> Overrides \cup {Unset}]
    /\ maxLive \in [Users -> LiveCaps \cup {DefMaxLive}]
    /\ exempt \in [Users -> BOOLEAN] /\ licensed \in [Users -> BOOLEAN]
    /\ st \in [Sessions -> {"none", "live", "ended", "deleted"}]
    /\ owner \in [Sessions -> Users \cup {Nobody}]
    /\ source \in [Sessions -> Sessions \cup {Nobody}]
    /\ bytes \in [Sessions -> Nat]
    /\ pc \in [Txs -> {"idle", "owner", "count", "insert", "row", "meter", "autoend",
                       "erase", "credit", "unfork"}]
    /\ job \in [Txs -> Jobs]
    /\ holder \in [Rows -> Txs \cup {Nobody}]
    /\ \A x \in Rows : holder[x] # Nobody => pc[holder[x]] # "idle"

(* 005-quotas.sql: users.storage_bytes_used is the sum of what the user's   *)
(* sessions hold, kept current in the transactions that append and delete.  *)
MeterIsExact ==
    \A u \in Users : used[u] = MapThenSumSet(LAMBDA s : bytes[s], Owned(u))

(* No create, however many run at once, takes an owner past a limit: when a *)
(* session appears, its owner is exempt, or had room under the storage      *)
(* limit and stays within the live cap and the cap on stored sessions, all  *)
(* of one plan, which the owner held between the request and the read of    *)
(* its limits: a licence that comes or goes later changes nothing.          *)
CreatesRespectLimits ==
    [][\A t \in Txs, u \in Users :
         (pc[t] = "insert" /\ job[t].user = u /\ job[t].row \in Owned(u)' \ Owned(u)) =>
          \/ exempt[u]
          \/ \E pro \in job[t].held :
               /\ used[u] < StorageLimitIf(u, pro)
               /\ Cardinality(Live(u)') <= maxLive[u]
               /\ SessionCapIf(u, pro) > 0 => Cardinality(Owned(u)') <= SessionCapIf(u, pro)]_vars

(* Why: between its lock and its insert, a create holds its owner's row, and *)
(* what it was admitted on (the room it found, and after the counts the     *)
(* slots) still holds, since nobody else can add to the account meanwhile.  *)
Room(t) ==
    LET u == job[t].user IN
    \/ exempt[u]
    \/ \E pro \in job[t].held :
         used[u] < StorageLimitIf(u, pro) /\ job[t].cap = SessionCapIf(u, pro)

Slots(u, cap) ==
    \/ exempt[u]
    \/ /\ Cardinality(Live(u)) < maxLive[u]
       /\ cap > 0 => Cardinality(Owned(u)) < cap

Admitted(t) ==
    /\ pc[t] \in {"count", "insert"} =>
         holder[job[t].user] = t /\ Room(t)
    /\ pc[t] = "insert" => Slots(job[t].user, job[t].cap)

AtWork(t) == pc[t] # "idle" => job[t].user \in Users /\ job[t].row \in Sessions

RowsOwned == \A s \in Sessions : st[s] \in {"live", "ended"} => owner[s] \in Users

CreatesStayAdmitted == TypeOK /\ RowsOwned /\ \A t \in Txs : AtWork(t) /\ Admitted(t)

(* Creates lock the owner first, appends and deletes the session first.     *)
(* That this makes a circle only where a fork is involved (one is being     *)
(* created, or its source deleted) is what keeps plain captures free of     *)
(* deadlocks.                                                               *)
Forking(t) ==
    \/ job[t].op = "create" /\ job[t].source # Nobody
    \/ job[t].op = "delete" /\ Forks(job[t].row) # {}

CirclesInvolveForks ==
    \A T \in SUBSET Txs : Circle(T) => \E t \in T : Forking(t)

(* Every handler comes to an end: no lock is kept by one that returned, and *)
(* every circle is broken.                                                  *)
CallsEnd == \A t \in Txs : pc[t] # "idle" ~> pc[t] = "idle"

-----------------------------------------------------------------------------
(* What docs say, and the code does not do. *)

(* config.go: Pro gets ProStorageLimitBytes of storage.  So an event of a   *)
(* user who holds a licence is not a crossing below that.                   *)
ProStorageIsGranted ==
    [][\A t \in Txs :
          (pc[t] = "meter" /\ pc'[t] = "autoend") =>
              used'[job[t].user] >= StorageLimit(job[t].user)]_vars
=============================================================================
