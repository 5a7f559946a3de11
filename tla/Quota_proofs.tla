----------------------------- MODULE Quota_proofs -----------------------------
(***************************************************************************)
(* Theorems about Quota, for any users, sessions, handlers and limits.     *)
(***************************************************************************)
EXTENDS Quota, FiniteSetTheorems, WellFoundedInduction, TLAPS

USE LimitsAssumption, RowsAssumption

-----------------------------------------------------------------------------
(* Lemmas about the operators. *)

LEMMA LimitTypes ==
    ASSUME TypeOK, NEW u \in Users, NEW pro \in BOOLEAN
    PROVE  StorageLimitIf(u, pro) \in Int /\ SessionCapIf(u, pro) \in Nat
<1>1. override[u] \in Overrides \/ override[u] = Unset
  BY DEF TypeOK
<1>2. override[u] \in Int
  <2>1. Unset \in Int
    BY DEF Unset
  <2>2. Overrides \subseteq Int
    BY LimitsAssumption
  <2> QED BY <1>1, <2>1, <2>2
<1>3. StorageLimitIf(u, pro) \in {override[u], ProStorage, DefStorage}
  BY DEF StorageLimitIf
<1>4. SessionCapIf(u, pro) \in Nat
  <2>1. SessionLimit[u] \in Nat \cup {Unset}
    BY LimitsAssumption
  <2> QED BY <2>1 DEF SessionCapIf
<1> QED BY <1>2, <1>3, <1>4

LEMMA MaxLiveType ==
    ASSUME TypeOK, NEW u \in Users
    PROVE  maxLive[u] \in Int
<1>1. maxLive[u] \in LiveCaps \/ maxLive[u] = DefMaxLive
  BY DEF TypeOK
<1>2. LiveCaps \subseteq Int /\ DefMaxLive \in Int
  BY LimitsAssumption
<1> QED BY <1>1, <1>2

(* What a user owns is finite, and no larger than what contains it. *)
LEMMA OwnedFinite ==
    ASSUME NEW u
    PROVE  /\ IsFiniteSet(Owned(u)) /\ Cardinality(Owned(u)) \in Nat
           /\ IsFiniteSet(Live(u)) /\ Cardinality(Live(u)) \in Nat
<1>1. Owned(u) \in SUBSET Sessions /\ Live(u) \in SUBSET Sessions
  BY DEF Owned, Live
<1> QED BY <1>1, FS_Subset, FS_CardinalityType

LEMMA OwnedFiniteNext ==
    ASSUME NEW u
    PROVE  /\ IsFiniteSet(Owned(u)') /\ Cardinality(Owned(u)') \in Nat
           /\ IsFiniteSet(Live(u)') /\ Cardinality(Live(u)') \in Nat
<1>1. Owned(u)' \in SUBSET Sessions /\ Live(u)' \in SUBSET Sessions
  BY DEF Owned, Live
<1> QED BY <1>1, FS_Subset, FS_CardinalityType

(* A released transaction holds nothing, and the others what they held. *)
LEMMA ReleaseEffect ==
    ASSUME TypeOK, NEW t \in Txs, Release(t)
    PROVE  /\ holder' \in [Rows -> Txs \cup {Nobody}]
           /\ \A x \in Rows : holder'[x] # t
           /\ \A x \in Rows : holder[x] # t => holder'[x] = holder[x]
           /\ \A x \in Rows : holder'[x] # Nobody => holder'[x] = holder[x]
BY DEF TypeOK, Release

LEMMA TakeEffect ==
    ASSUME TypeOK, NEW t \in Txs, NEW x \in Rows, Free(x), Take(t, x)
    PROVE  /\ holder' \in [Rows -> Txs \cup {Nobody}]
           /\ holder'[x] = t
           /\ \A y \in Rows \ {x} : holder'[y] = holder[y]
           /\ \A y \in Rows : holder[y] # Nobody => holder'[y] = holder[y]
BY DEF TypeOK, Take, Free

-----------------------------------------------------------------------------
(* Types. *)

Typed == TypeOK /\ RowsOwned /\ \A t \in Txs : AtWork(t)

LEMMA InitTyped == Init => Typed
BY DEF Init, Typed, TypeOK, RowsOwned, AtWork, NoJob, Jobs, Rows, Unset

(* The job of a handler at work, as its actions use it. *)
LEMMA JobTypes ==
    ASSUME Typed, NEW t \in Txs, pc[t] # "idle"
    PROVE  /\ job[t] \in Jobs
           /\ job[t].user \in Users /\ job[t].row \in Sessions
           /\ job[t].user \in Rows /\ job[t].row \in Rows
           /\ job[t].source \in Sessions \cup {Nobody} /\ job[t].cap \in Nat
BY DEF Typed, TypeOK, AtWork, Jobs, Rows

LEMMA NoJobType == NoJob \in Jobs
BY DEF NoJob, Jobs

(* A licence changes no job but the plans that a create may still read. *)
LEMMA LicenceEffect ==
    ASSUME Typed, NEW v \in Customers, ChangeLicence(v)
    PROVE  /\ licensed' \in [Users -> BOOLEAN] /\ job' \in [Txs -> Jobs]
           /\ UNCHANGED <<used, override, maxLive, exempt, st, owner, source, bytes, pc, holder>>
           /\ \A o \in Txs :
                /\ job'[o].op = job[o].op /\ job'[o].user = job[o].user
                /\ job'[o].row = job[o].row /\ job'[o].source = job[o].source
                /\ pc[o] # "owner" => job'[o] = job[o]
<1>1. v \in Users /\ licensed \in [Users -> BOOLEAN] /\ job \in [Txs -> Jobs]
  BY DEF Typed, TypeOK
<1>2. UNCHANGED <<used, override, maxLive, exempt, st, owner, source, bytes, pc, holder>>
  BY DEF ChangeLicence, sessionVars
<1>3. licensed' \in [Users -> BOOLEAN]
  BY <1>1 DEF ChangeLicence
<1>4. PICK pro \in BOOLEAN : pro = ~licensed[v]
  BY <1>1
<1>5. ASSUME NEW o \in Txs
      PROVE  /\ job'[o] \in Jobs
             /\ job'[o].op = job[o].op /\ job'[o].user = job[o].user
             /\ job'[o].row = job[o].row /\ job'[o].source = job[o].source
             /\ pc[o] # "owner" => job'[o] = job[o]
  <2>1. job[o] \in Jobs
    BY <1>1
  <2>2. job'[o] = IF pc[o] = "owner" /\ job[o].user = v
                    THEN [job[o] EXCEPT !.held = @ \cup {pro}] ELSE job[o]
    BY <1>4 DEF ChangeLicence
  <2> QED BY <2>1, <2>2 DEF Jobs
<1>6. job' \in [Txs -> Jobs]
  <2>1. job' = [o \in Txs |-> job'[o]]
    BY DEF ChangeLicence
  <2> QED BY <1>5, <2>1
<1> QED BY <1>2, <1>3, <1>5, <1>6

LEMMA RefuseTyped ==
    ASSUME Typed, NEW t \in Txs, Refuse(t)
    PROVE  Typed'
<1>1. /\ holder' \in [Rows -> Txs \cup {Nobody}]
      /\ \A x \in Rows : holder'[x] # t
      /\ \A x \in Rows : holder'[x] # Nobody => holder'[x] = holder[x]
  BY ReleaseEffect DEF Refuse, Typed
<1>2. job' \in [Txs -> Jobs] /\ pc' = [pc EXCEPT ![t] = "idle"]
  BY NoJobType DEF Refuse, Goto, Typed, TypeOK
<1>3. UNCHANGED <<used, override, maxLive, exempt, licensed, st, owner, source, bytes>>
  BY DEF Refuse, accountVars, sessionVars
<1>4. TypeOK'
  BY <1>1, <1>2, <1>3 DEF Typed, TypeOK
<1>5. RowsOwned'
  BY <1>3 DEF Typed, RowsOwned
<1>6. \A o \in Txs : AtWork(o)'
  BY <1>2 DEF Typed, AtWork, Refuse, Goto, TypeOK
<1> QED BY <1>4, <1>5, <1>6 DEF Typed

LEMMA BeginTyped ==
    ASSUME Typed, NEW t \in Txs, NEW j \in Jobs, j.user \in Users, j.row \in Sessions,
           NEW label \in {"owner", "row", "erase"}, Begin(t, j, label)
    PROVE  Typed'
<1>1. UNCHANGED <<used, override, maxLive, exempt, licensed, st, owner, source, bytes, holder>>
  BY DEF Begin, accountVars, sessionVars
<1>2. job' = [job EXCEPT ![t] = j] /\ pc' = [pc EXCEPT ![t] = label]
  BY DEF Begin, Goto
<1>3. TypeOK'
  BY <1>1, <1>2 DEF Typed, TypeOK
<1>4. RowsOwned'
  BY <1>1 DEF Typed, RowsOwned
<1>5. \A o \in Txs : AtWork(o)'
  BY <1>2 DEF Typed, AtWork, TypeOK
<1> QED BY <1>3, <1>4, <1>5 DEF Typed

(* A step that takes a lock or none and goes on, its writes still to come.  *)
Proceeds(t, label) ==
    /\ pc[t] # "idle" /\ Goto(t, label)
    /\ \/ UNCHANGED holder
       \/ \E x \in Rows : Free(x) /\ Take(t, x)
    /\ UNCHANGED <<used, accountVars, sessionVars>>

LEMMA ProceedsTyped ==
    ASSUME Typed, NEW t \in Txs, NEW label \in {"count", "insert", "meter", "credit", "unfork"},
           Proceeds(t, label),
           \/ UNCHANGED job
           \/ \E c \in Nat : job' = [job EXCEPT ![t].cap = c]
    PROVE  Typed'
<1>1. UNCHANGED <<used, override, maxLive, exempt, licensed, st, owner, source, bytes>>
  BY DEF Proceeds, accountVars, sessionVars
<1>2. /\ holder' \in [Rows -> Txs \cup {Nobody}]
      /\ \A x \in Rows : holder'[x] \in {holder[x], t}
  <2>1. CASE UNCHANGED holder
    BY <2>1 DEF Typed, TypeOK
  <2>2. CASE \E x \in Rows : Free(x) /\ Take(t, x)
    <3>1. PICK x \in Rows : Free(x) /\ Take(t, x)
      BY <2>2
    <3> QED BY <3>1, TakeEffect DEF Typed
  <2> QED BY <2>1, <2>2 DEF Proceeds
<1>3. pc' = [pc EXCEPT ![t] = label]
  BY DEF Proceeds, Goto
<1>4. /\ job' \in [Txs -> Jobs]
      /\ \A o \in Txs : job'[o].user = job[o].user /\ job'[o].row = job[o].row
  <2>1. job \in [Txs -> Jobs]
    BY DEF Typed, TypeOK
  <2>2. CASE UNCHANGED job
    BY <2>1, <2>2
  <2>3. CASE \E c \in Nat : job' = [job EXCEPT ![t].cap = c]
    <3>1. PICK c \in Nat : job' = [job EXCEPT ![t].cap = c]
      BY <2>3
    <3>2. job' = [job EXCEPT ![t] = [job[t] EXCEPT !.cap = c]]
      BY <3>1
    <3>3. /\ [job[t] EXCEPT !.cap = c] \in Jobs
          /\ [job[t] EXCEPT !.cap = c].user = job[t].user
          /\ [job[t] EXCEPT !.cap = c].row = job[t].row
      BY <2>1 DEF Jobs
    <3> QED BY <2>1, <3>2, <3>3
  <2> QED BY <2>2, <2>3
<1>5. TypeOK'
  BY <1>1, <1>2, <1>3, <1>4 DEF Typed, TypeOK
<1>6. RowsOwned'
  BY <1>1 DEF Typed, RowsOwned
<1>7. \A o \in Txs : AtWork(o)'
  BY <1>3, <1>4 DEF Typed, AtWork, TypeOK, Proceeds
<1> QED BY <1>5, <1>6, <1>7 DEF Typed

(* One lemma per action that is more than taking a lock. *)
LEMMA CreateBeginTyped ==
    ASSUME Typed, NEW t \in Txs, CreateBegin(t)
    PROVE  Typed'
<1>1. PICK u \in Users, s \in Sessions, src \in Sessions \cup {Nobody} :
         Begin(t, [NoJob EXCEPT !.op = "create", !.user = u, !.row = s, !.source = src,
                                !.held = {licensed[u]}], "owner")
  BY DEF CreateBegin
<1> DEFINE j == [NoJob EXCEPT !.op = "create", !.user = u, !.row = s, !.source = src,
                              !.held = {licensed[u]}]
<1>2. j \in Jobs /\ j.user = u /\ j.row = s
  <2>1. {licensed[u]} \in SUBSET BOOLEAN
    BY DEF Typed, TypeOK
  <2> QED BY <2>1 DEF NoJob, Jobs
<1> HIDE DEF j
<1>3. Begin(t, j, "owner")
  BY <1>1 DEF j
<1> QED BY <1>2, <1>3, BeginTyped

LEMMA AppendBeginTyped ==
    ASSUME Typed, NEW t \in Txs, AppendBegin(t)
    PROVE  Typed'
<1>1. PICK s \in Sessions, op \in {"event", "comment"} :
         st[s] = "live" /\ Begin(t, [NoJob EXCEPT !.op = op, !.user = owner[s], !.row = s], "row")
  BY DEF AppendBegin
<1> DEFINE j == [NoJob EXCEPT !.op = op, !.user = owner[s], !.row = s]
<1>2. owner[s] \in Users
  BY <1>1 DEF Typed, RowsOwned
<1>3. j \in Jobs /\ j.user = owner[s] /\ j.row = s
  BY <1>2 DEF NoJob, Jobs
<1> HIDE DEF j
<1>4. Begin(t, j, "row")
  BY <1>1 DEF j
<1> QED BY <1>2, <1>3, <1>4, BeginTyped

LEMMA DeleteBeginTyped ==
    ASSUME Typed, NEW t \in Txs, DeleteBegin(t)
    PROVE  Typed'
<1>1. PICK s \in Sessions :
         /\ st[s] \in {"live", "ended"}
         /\ Begin(t, [NoJob EXCEPT !.op = "delete", !.user = owner[s], !.row = s], "erase")
  BY DEF DeleteBegin
<1> DEFINE j == [NoJob EXCEPT !.op = "delete", !.user = owner[s], !.row = s]
<1>2. owner[s] \in Users
  BY <1>1 DEF Typed, RowsOwned
<1>3. j \in Jobs /\ j.user = owner[s] /\ j.row = s
  BY <1>2 DEF NoJob, Jobs
<1> HIDE DEF j
<1>4. Begin(t, j, "erase")
  BY <1>1 DEF j
<1> QED BY <1>2, <1>3, <1>4, BeginTyped

(* The insert, when it is not refused. *)
Inserts(t) ==
    LET j == job[t] IN
    /\ pc[t] = "insert"
    /\ st' = [st EXCEPT ![j.row] = "live"]
    /\ owner' = [owner EXCEPT ![j.row] = j.user]
    /\ source' = [source EXCEPT ![j.row] = j.source]
    /\ Release(t) /\ Goto(t, "idle") /\ job' = [job EXCEPT ![t] = NoJob]
    /\ UNCHANGED <<used, accountVars, bytes>>

LEMMA InsertsTyped ==
    ASSUME Typed, NEW t \in Txs, Inserts(t)
    PROVE  Typed'
<1>1. /\ job[t].user \in Users /\ job[t].row \in Sessions
      /\ job[t].source \in Sessions \cup {Nobody}
  BY JobTypes DEF Inserts
<1>2. /\ holder' \in [Rows -> Txs \cup {Nobody}]
      /\ \A x \in Rows : holder'[x] # t
      /\ \A x \in Rows : holder'[x] # Nobody => holder'[x] = holder[x]
  BY ReleaseEffect DEF Inserts, Typed
<1>3. job' \in [Txs -> Jobs] /\ pc' = [pc EXCEPT ![t] = "idle"]
  BY NoJobType DEF Inserts, Goto, Typed, TypeOK
<1>4. TypeOK'
  BY <1>1, <1>2, <1>3 DEF Inserts, Typed, TypeOK, accountVars
<1>5. RowsOwned'
  BY <1>1 DEF Inserts, Typed, TypeOK, RowsOwned
<1>6. \A o \in Txs : AtWork(o)'
  BY <1>3 DEF Inserts, Typed, AtWork, TypeOK
<1> QED BY <1>4, <1>5, <1>6 DEF Typed

LEMMA AppendMeterTyped ==
    ASSUME Typed, NEW t \in Txs, AppendMeter(t)
    PROVE  Typed'
<1>1. job[t] \in Jobs /\ job[t].user \in Users /\ job[t].row \in Sessions
  BY JobTypes DEF AppendMeter
<1>2. /\ holder' \in [Rows -> Txs \cup {Nobody}]
      /\ \A x \in Rows : holder'[x] # t
      /\ \A x \in Rows : holder'[x] # Nobody => holder'[x] = holder[x]
  BY ReleaseEffect DEF AppendMeter, Typed
<1>3. PICK label \in {"autoend", "idle"} : pc' = [pc EXCEPT ![t] = label]
  BY DEF AppendMeter, Goto
<1>4. /\ job' \in [Txs -> Jobs]
      /\ \A o \in Txs \ {t} : job'[o] = job[o]
      /\ label = "autoend" => job'[t] = job[t]
  BY <1>1, <1>3, NoJobType DEF AppendMeter, Goto, Typed, TypeOK
<1>5. TypeOK'
  <2>1. bytes' \in [Sessions -> Nat] /\ used' \in [Users -> Nat]
    BY <1>1 DEF AppendMeter, Typed, TypeOK
  <2> QED BY <2>1, <1>2, <1>3, <1>4 DEF AppendMeter, Typed, TypeOK, accountVars
<1>6. RowsOwned'
  BY DEF AppendMeter, Typed, RowsOwned
<1>7. \A o \in Txs : AtWork(o)'
  BY <1>1, <1>3, <1>4 DEF Typed, AtWork, TypeOK
<1> QED BY <1>5, <1>6, <1>7 DEF Typed

LEMMA AutoEndTyped ==
    ASSUME Typed, NEW t \in Txs, AutoEnd(t)
    PROVE  Typed'
<1>1. job[t] \in Jobs /\ job[t].user \in Users /\ job[t].row \in Sessions
  BY JobTypes DEF AutoEnd
<1>2. pc' = [pc EXCEPT ![t] = "row"] /\ pc[t] = "autoend"
  BY DEF AutoEnd, Goto
<1>3. /\ job' \in [Txs -> Jobs]
      /\ \A o \in Txs : job'[o].user = job[o].user /\ job'[o].row = job[o].row
  <2>1. job' = [job EXCEPT ![t] = [job[t] EXCEPT !.op = "note"]]
    BY DEF AutoEnd
  <2>2. /\ [job[t] EXCEPT !.op = "note"] \in Jobs
        /\ [job[t] EXCEPT !.op = "note"].user = job[t].user
        /\ [job[t] EXCEPT !.op = "note"].row = job[t].row
    BY <1>1 DEF Jobs
  <2>3. job \in [Txs -> Jobs]
    BY DEF Typed, TypeOK
  <2> QED BY <2>1, <2>2, <2>3
<1>4. TypeOK'
  BY <1>1, <1>2, <1>3 DEF AutoEnd, Typed, TypeOK, accountVars
<1>5. RowsOwned'
  BY <1>1 DEF AutoEnd, Typed, TypeOK, RowsOwned
<1>6. \A o \in Txs : AtWork(o)'
  BY <1>1, <1>2, <1>3 DEF Typed, AtWork, TypeOK
<1> QED BY <1>4, <1>5, <1>6 DEF Typed

LEMMA DeleteCommitTyped ==
    ASSUME Typed, NEW t \in Txs, DeleteCommit(t)
    PROVE  Typed'
<1>1. job[t] \in Jobs /\ job[t].user \in Users /\ job[t].row \in Sessions
  BY JobTypes DEF DeleteCommit
<1>2. /\ holder' \in [Rows -> Txs \cup {Nobody}]
      /\ \A x \in Rows : holder'[x] # t
      /\ \A x \in Rows : holder'[x] # Nobody => holder'[x] = holder[x]
  BY ReleaseEffect DEF DeleteCommit, Typed
<1>3. job' \in [Txs -> Jobs] /\ pc' = [pc EXCEPT ![t] = "idle"]
      /\ job' = [job EXCEPT ![t] = NoJob]
  BY NoJobType DEF DeleteCommit, Goto, Typed, TypeOK
<1>4. TypeOK'
  <2>1. used' \in [Users -> Nat]
    BY <1>1 DEF DeleteCommit, Typed, TypeOK
  <2>2. /\ st' \in [Sessions -> {"none", "live", "ended", "deleted"}]
        /\ bytes' \in [Sessions -> Nat]
        /\ source' \in [Sessions -> Sessions \cup {Nobody}]
    BY <1>1 DEF DeleteCommit, Typed, TypeOK
  <2> QED BY <2>1, <2>2, <1>2, <1>3 DEF DeleteCommit, Typed, TypeOK, accountVars
<1>5. RowsOwned'
  BY <1>1 DEF DeleteCommit, Typed, TypeOK, RowsOwned
<1>6. \A o \in Txs : AtWork(o)'
  BY <1>3 DEF Typed, AtWork, TypeOK
<1> QED BY <1>4, <1>5, <1>6 DEF Typed

LEMMA WorldTyped ==
    ASSUME Typed,
           \/ \E s \in Sessions : EndSession(s)
           \/ \E u \in Users : SetUserQuota(u)
           \/ \E u \in Customers : ChangeLicence(u)
    PROVE  Typed'
<1>1. ASSUME NEW s \in Sessions, EndSession(s) PROVE Typed'
  BY <1>1 DEF EndSession, Typed, TypeOK, RowsOwned, AtWork, accountVars, txVars
<1>2. ASSUME NEW u \in Users, SetUserQuota(u) PROVE Typed'
  <2>1. PICK limit \in Overrides \cup {Unset}, cap \in LiveCaps \cup {DefMaxLive},
             e \in Exemptions :
           /\ override' = [override EXCEPT ![u] = limit]
           /\ maxLive' = [maxLive EXCEPT ![u] = cap]
           /\ exempt' = [exempt EXCEPT ![u] = e]
    BY <1>2 DEF SetUserQuota
  <2>2. e \in BOOLEAN
    BY LimitsAssumption
  <2> QED BY <1>2, <2>1, <2>2
          DEF SetUserQuota, Typed, TypeOK, RowsOwned, AtWork, sessionVars, txVars
<1>3. ASSUME NEW u \in Customers, ChangeLicence(u) PROVE Typed'
  BY <1>3, LicenceEffect DEF Typed, TypeOK, RowsOwned, AtWork
<1> QED BY <1>1, <1>2, <1>3

(* What a step of a handler is: the refusal every action may end in, or what *)
(* the action does otherwise.                                                *)
Admits(t) ==
    LET u == job[t].user IN
    /\ pc[t] = "owner" /\ Free(u)
    /\ \E pro \in job[t].held :
         /\ exempt[u] \/ ~(used[u] >= StorageLimitIf(u, pro))
         /\ job' = [job EXCEPT ![t].cap = SessionCapIf(u, pro)]
    /\ LockOwner(t)
    /\ Goto(t, "count")
    /\ UNCHANGED <<used, accountVars, sessionVars>>

Counts(t) ==
    LET u == job[t].user IN
    /\ pc[t] = "count"
    /\ \/ exempt[u]
       \/ ~(Cardinality(Live(u)) >= maxLive[u]) /\ ~(job[t].cap > 0 /\ Cardinality(Owned(u)) >= job[t].cap)
    /\ Goto(t, "insert") /\ UNCHANGED <<used, accountVars, sessionVars, job, holder>>

Locks(t) ==
    \E label \in {"meter", "credit", "unfork"} : Proceeds(t, label) /\ UNCHANGED job

LEMMA StepShape ==
    ASSUME Typed, NEW t \in Txs, Step(t) \/ DeadlockAbort(t) \/ Cancel(t)
    PROVE  \/ Refuse(t) \/ Admits(t) \/ Counts(t) \/ Locks(t) \/ Inserts(t)
           \/ AppendMeter(t) \/ AutoEnd(t) \/ DeleteCommit(t)
<1>1. CASE CreateOwner(t)
  BY <1>1 DEF CreateOwner, Admits
<1>2. CASE CreateCount(t)
  BY <1>2 DEF CreateCount, Counts
<1>3. CASE CreateInsert(t)
  BY <1>3 DEF CreateInsert, Inserts
<1>4. CASE AppendRow(t)
  <2>1. pc[t] = "row"
    BY <1>4 DEF AppendRow
  <2>2. AppendOrder(job[t])[1] \in Rows
    BY <2>1, JobTypes DEF AppendOrder
  <2> QED BY <1>4, <2>1, <2>2 DEF AppendRow, Locks, Proceeds
<1>5. CASE DeleteErase(t)
  <2>1. pc[t] = "erase" /\ job[t].row \in Rows
    BY <1>5, JobTypes DEF DeleteErase
  <2> QED BY <1>5, <2>1 DEF DeleteErase, Locks, Proceeds
<1>6. CASE DeleteCredit(t)
  <2>1. pc[t] = "credit" /\ job[t].user \in Rows
    BY <1>6, JobTypes DEF DeleteCredit
  <2> QED BY <1>6, <2>1 DEF DeleteCredit, Locks, Proceeds
<1>7. CASE DeleteUnfork(t)
  <2>1. PICK c \in Forks(job[t].row) : Free(c) /\ Take(t, c)
    BY <1>7 DEF DeleteUnfork
  <2>2. c \in Rows
    BY DEF Forks, Rows
  <2>3. pc[t] = "unfork" /\ Goto(t, "unfork")
    BY <1>7 DEF DeleteUnfork, Goto, Typed, TypeOK
  <2> QED BY <1>7, <2>1, <2>2, <2>3 DEF DeleteUnfork, Locks, Proceeds
<1>8. CASE DeadlockAbort(t) \/ Cancel(t)
  BY <1>8 DEF DeadlockAbort, Cancel
<1> QED BY <1>1, <1>2, <1>3, <1>4, <1>5, <1>6, <1>7, <1>8 DEF Step, Create, Append, Delete

LEMMA TypedStep == Typed /\ [Next]_vars => Typed'
<1> SUFFICES ASSUME Typed, [Next]_vars PROVE Typed'
  OBVIOUS
<1>1. ASSUME NEW t \in Txs, CreateBegin(t) \/ AppendBegin(t) \/ DeleteBegin(t) PROVE Typed'
  BY <1>1, CreateBeginTyped, AppendBeginTyped, DeleteBeginTyped
<1>2. ASSUME NEW t \in Txs, Step(t) \/ DeadlockAbort(t) \/ Cancel(t) PROVE Typed'
  <2>1. CASE Admits(t)
    <3> DEFINE u == job[t].user
    <3>1. u \in Users /\ u \in Rows
      BY <2>1, JobTypes DEF Admits
    <3>2. PICK pro \in job[t].held : job' = [job EXCEPT ![t].cap = SessionCapIf(u, pro)]
      BY <2>1 DEF Admits
    <3>3. pro \in BOOLEAN
      BY <2>1, <3>2, JobTypes DEF Admits, Jobs
    <3>4. SessionCapIf(u, pro) \in Nat
      BY <3>1, <3>3, LimitTypes DEF Typed
    <3>5. Proceeds(t, "count")
      BY <2>1, <3>1 DEF Admits, LockOwner, Proceeds
    <3> HIDE DEF u
    <3> QED BY <3>2, <3>4, <3>5, ProceedsTyped
  <2>2. CASE Counts(t)
    <3>1. Proceeds(t, "insert") /\ UNCHANGED job
      BY <2>2 DEF Counts, Proceeds
    <3> QED BY <3>1, ProceedsTyped
  <2>3. CASE Locks(t)
    BY <2>3, ProceedsTyped DEF Locks
  <2> QED BY <1>2, <2>1, <2>2, <2>3, StepShape, RefuseTyped, InsertsTyped,
             AppendMeterTyped, AutoEndTyped, DeleteCommitTyped
<1>3. CASE UNCHANGED vars
  BY <1>3 DEF vars, accountVars, sessionVars, txVars, Typed, TypeOK, RowsOwned, AtWork
<1> QED BY <1>1, <1>2, <1>3, WorldTyped DEF Next

(* The state of Quota is always of its types. *)
THEOREM TypeCorrect == Spec => []TypeOK
<1>1. Init => Typed
  BY InitTyped
<1>2. Typed /\ [Next]_vars => Typed'
  BY TypedStep
<1>3. Typed => TypeOK
  BY DEF Typed
<1> QED BY <1>1, <1>2, <1>3, PTL DEF Spec

-----------------------------------------------------------------------------
(* What a create was admitted on.                                          *)

(* An account on which a step leaves no less room than it found. *)
Keeps(u) ==
    /\ exempt'[u] = exempt[u] /\ override'[u] = override[u] /\ maxLive'[u] = maxLive[u]
    /\ used'[u] <= used[u]
    /\ Owned(u)' \subseteq Owned(u) /\ Live(u)' \subseteq Live(u)

LEMMA KeptIfUnchanged ==
    ASSUME Typed, NEW u \in Users, UNCHANGED <<used, accountVars, st, owner>>
    PROVE  Keeps(u)
BY DEF Keeps, Owned, Live, Typed, TypeOK, accountVars

(* Then the create keeps what it was admitted on. *)
LEMMA KeptAdmitted ==
    ASSUME Typed, Typed', NEW t \in Txs, Admitted(t),
           pc'[t] = pc[t], job'[t] = job[t],
           pc[t] \in {"count", "insert"} =>
               holder'[job[t].user] = t /\ Keeps(job[t].user)
    PROVE  Admitted(t)'
<1> DEFINE u == job[t].user
<1> SUFFICES ASSUME pc[t] \in {"count", "insert"} PROVE Admitted(t)'
  BY DEF Admitted
<1>1. u \in Users /\ Keeps(u) /\ holder'[u] = t
  BY JobTypes
<1>2. ASSUME Room(t) PROVE Room(t)'
  <2>1. CASE exempt[u]
    BY <1>1, <2>1 DEF Keeps, Room
  <2>2. CASE \E pro \in job[t].held :
               used[u] < StorageLimitIf(u, pro) /\ job[t].cap = SessionCapIf(u, pro)
    <3>1. PICK pro \in job[t].held :
             used[u] < StorageLimitIf(u, pro) /\ job[t].cap = SessionCapIf(u, pro)
      BY <2>2
    <3>2. pro \in BOOLEAN
      BY <3>1, JobTypes DEF Jobs
    <3>3. StorageLimitIf(u, pro)' = StorageLimitIf(u, pro)
      BY <1>1 DEF Keeps, StorageLimitIf
    <3>4. SessionCapIf(u, pro)' = SessionCapIf(u, pro)
      BY <1>1 DEF Keeps, SessionCapIf
    <3>5. used[u] \in Nat /\ used'[u] \in Nat /\ StorageLimitIf(u, pro) \in Int
      BY <1>1, <3>2, LimitTypes DEF Typed, TypeOK
    <3>6. used'[u] < StorageLimitIf(u, pro)
      BY <1>1, <3>1, <3>5 DEF Keeps
    <3> QED BY <3>1, <3>3, <3>4, <3>6 DEF Room
  <2> QED BY <1>2, <2>1, <2>2 DEF Room
<1>3. ASSUME Slots(u, job[t].cap) PROVE Slots(u, job[t].cap)'
  <2>1. CASE exempt[u]
    BY <1>1, <2>1 DEF Keeps, Slots
  <2>2. CASE /\ Cardinality(Live(u)) < maxLive[u]
             /\ job[t].cap > 0 => Cardinality(Owned(u)) < job[t].cap
    <3>1. /\ Cardinality(Live(u)') <= Cardinality(Live(u))
          /\ Cardinality(Owned(u)') <= Cardinality(Owned(u))
      BY <1>1, OwnedFinite, FS_Subset DEF Keeps
    <3>2. /\ Cardinality(Live(u)) \in Nat /\ Cardinality(Live(u)') \in Nat
          /\ Cardinality(Owned(u)) \in Nat /\ Cardinality(Owned(u)') \in Nat
      BY OwnedFinite, OwnedFiniteNext
    <3>3. maxLive[u] \in Int /\ job[t].cap \in Nat
      BY <1>1, JobTypes, MaxLiveType DEF Typed
    <3>4. /\ Cardinality(Live(u)') < maxLive'[u]
          /\ job[t].cap > 0 => Cardinality(Owned(u)') < job[t].cap
      BY <1>1, <2>2, <3>1, <3>2, <3>3 DEF Keeps
    <3> QED BY <3>4 DEF Slots
  <2> QED BY <1>3, <2>1, <2>2 DEF Slots
<1> QED BY <1>1, <1>2, <1>3 DEF Admitted

(* No handler touches an account whose row another holds. *)
LEMMA OthersKeep ==
    ASSUME Typed, NEW t \in Txs, Admitted(t), NEW u \in Users,
           holder[u] \notin {t, Nobody},
           \/ CreateBegin(t) \/ AppendBegin(t) \/ DeleteBegin(t)
           \/ Step(t) \/ DeadlockAbort(t) \/ Cancel(t)
    PROVE  Keeps(u) /\ holder'[u] = holder[u]
<1>1. u \in Rows
  BY DEF Rows
<1>2. CASE CreateBegin(t) \/ AppendBegin(t) \/ DeleteBegin(t)
  <2>1. UNCHANGED <<used, accountVars, sessionVars, holder>>
    BY <1>2 DEF CreateBegin, AppendBegin, DeleteBegin, Begin
  <2> QED BY <2>1, KeptIfUnchanged DEF sessionVars
<1>3. CASE Refuse(t)
  BY <1>1, <1>3, ReleaseEffect, KeptIfUnchanged DEF Refuse, sessionVars, Typed
<1>4. CASE Admits(t)
  <2>1. job[t].user \in Rows /\ Free(job[t].user) /\ Take(t, job[t].user)
    BY <1>4, JobTypes DEF Admits, LockOwner
  <2>2. holder'[u] = holder[u]
    BY <1>1, <2>1, TakeEffect DEF Typed
  <2> QED BY <1>4, <2>2, KeptIfUnchanged DEF Admits, sessionVars
<1>5. CASE Counts(t)
  BY <1>5, KeptIfUnchanged DEF Counts, sessionVars
<1>6. CASE Locks(t)
  <2>1. \/ UNCHANGED holder
        \/ \E x \in Rows : Free(x) /\ Take(t, x)
    BY <1>6 DEF Locks, Proceeds
  <2>2. holder'[u] = holder[u]
    BY <1>1, <2>1, TakeEffect DEF Typed
  <2> QED BY <1>6, <2>2, KeptIfUnchanged DEF Locks, Proceeds, sessionVars
<1>7. CASE Inserts(t)
  <2>1. job[t].user # u
    BY <1>7 DEF Inserts, Admitted
  <2>2. holder'[u] = holder[u]
    BY <1>1, <1>7, ReleaseEffect DEF Inserts, Typed
  <2>3. Owned(u)' \subseteq Owned(u) /\ Live(u)' \subseteq Live(u)
    <3>1. job[t].row \in Sessions
      BY <1>7, JobTypes DEF Inserts
    <3> QED BY <1>7, <2>1, <3>1 DEF Inserts, Owned, Live, Typed, TypeOK
  <2> QED BY <1>7, <2>2, <2>3 DEF Inserts, Keeps, accountVars, Typed, TypeOK
<1>8. CASE AppendMeter(t)
  <2>1. job[t].user # u
    BY <1>8 DEF AppendMeter, AppendOrder, Free
  <2>2. holder'[u] = holder[u]
    BY <1>1, <1>8, ReleaseEffect DEF AppendMeter, Typed
  <2>3. used'[u] = used[u]
    BY <1>8, <2>1 DEF AppendMeter, Typed, TypeOK
  <2> QED BY <1>8, <2>2, <2>3 DEF AppendMeter, Keeps, Owned, Live, accountVars, Typed, TypeOK
<1>9. CASE AutoEnd(t)
  <2>1. job[t].row \in Sessions
    BY <1>9, JobTypes DEF AutoEnd
  <2>2. Owned(u)' \subseteq Owned(u) /\ Live(u)' \subseteq Live(u)
    BY <1>9, <2>1 DEF AutoEnd, Owned, Live, Typed, TypeOK
  <2> QED BY <1>9, <2>2 DEF AutoEnd, Keeps, accountVars, Typed, TypeOK
<1>10. CASE DeleteCommit(t)
  <2>1. job[t].user \in Users /\ job[t].row \in Sessions
    BY <1>10, JobTypes DEF DeleteCommit
  <2>2. holder'[u] = holder[u]
    BY <1>1, <1>10, ReleaseEffect DEF DeleteCommit, Typed
  <2>3. used'[u] <= used[u]
    BY <1>10, <2>1 DEF DeleteCommit, Typed, TypeOK
  <2>4. Owned(u)' \subseteq Owned(u) /\ Live(u)' \subseteq Live(u)
    BY <1>10, <2>1 DEF DeleteCommit, Owned, Live, Typed, TypeOK
  <2> QED BY <1>10, <2>2, <2>3, <2>4 DEF DeleteCommit, Keeps, accountVars
<1> QED BY <1>2, <1>3, <1>4, <1>5, <1>6, <1>7, <1>8, <1>9, <1>10, StepShape

LEMMA WorldKeeps ==
    ASSUME Typed, NEW u \in Users, holder[u] # Nobody,
           \/ \E s \in Sessions : EndSession(s)
           \/ \E v \in Users : SetUserQuota(v)
           \/ \E v \in Customers : ChangeLicence(v)
    PROVE  Keeps(u)
<1>1. ASSUME NEW s \in Sessions, EndSession(s) PROVE Keeps(u)
  BY <1>1 DEF EndSession, Keeps, Owned, Live, accountVars, Typed, TypeOK
<1>2. ASSUME NEW v \in Users, SetUserQuota(v) PROVE Keeps(u)
  <2>1. v # u
    BY <1>2 DEF SetUserQuota, Free
  <2> QED BY <1>2, <2>1 DEF SetUserQuota, Keeps, Owned, Live, sessionVars, Typed, TypeOK
<1>3. ASSUME NEW v \in Customers, ChangeLicence(v) PROVE Keeps(u)
  <2>1. UNCHANGED <<used, override, maxLive, exempt, st, owner>>
    BY <1>3, LicenceEffect
  <2>2. used[u] \in Nat
    BY DEF Typed, TypeOK
  <2> QED BY <2>1, <2>2 DEF Keeps, Owned, Live
<1> QED BY <1>1, <1>2, <1>3

(* A handler's step changes its own pc and job only. *)
LEMMA OthersUnmoved ==
    ASSUME Typed, NEW t \in Txs, NEW o \in Txs \ {t},
           \/ CreateBegin(t) \/ AppendBegin(t) \/ DeleteBegin(t)
           \/ Step(t) \/ DeadlockAbort(t) \/ Cancel(t)
    PROVE  pc'[o] = pc[o] /\ job'[o] = job[o]
<1> USE DEF Goto, Typed, TypeOK
<1>1. CASE CreateBegin(t) \/ AppendBegin(t) \/ DeleteBegin(t)
  BY <1>1 DEF CreateBegin, AppendBegin, DeleteBegin, Begin
<1>2. CASE Step(t) \/ DeadlockAbort(t) \/ Cancel(t)
  BY <1>2, StepShape
     DEF Refuse, Admits, Counts, Locks, Proceeds, Inserts, AppendMeter, AutoEnd, DeleteCommit
<1> QED BY <1>1, <1>2

(* The create's own steps: the lock and the room are found together, and    *)
(* the slots while the lock is held.                                        *)
LEMMA OwnAdmitted ==
    ASSUME Typed, Typed', NEW t \in Txs, Admitted(t),
           \/ CreateBegin(t) \/ AppendBegin(t) \/ DeleteBegin(t)
           \/ Step(t) \/ DeadlockAbort(t) \/ Cancel(t)
    PROVE  Admitted(t)'
<1>1. CASE Admits(t)
  <2>1. PICK u \in Users : u = job[t].user /\ u \in Rows
    BY <1>1, JobTypes DEF Admits
  <2>2. PICK pro \in job[t].held :
           /\ exempt[u] \/ ~(used[u] >= StorageLimitIf(u, pro))
           /\ job' = [job EXCEPT ![t].cap = SessionCapIf(u, pro)]
    BY <1>1, <2>1 DEF Admits
  <2>3. job[t] \in Jobs /\ pro \in BOOLEAN
    BY <1>1, <2>2, JobTypes DEF Admits, Jobs
  <2>4. PICK c \in Nat : c = SessionCapIf(u, pro)
    BY <2>3, LimitTypes DEF Typed
  <2>5. /\ pc'[t] = "count" /\ holder'[u] = t
        /\ job'[t] = [job[t] EXCEPT !.cap = c]
    BY <1>1, <2>1, <2>2, <2>4 DEF Admits, Goto, LockOwner, Take, Typed, TypeOK
  <2>6. job'[t].user = u /\ job'[t].cap = c /\ job'[t].held = job[t].held
    BY <2>1, <2>3, <2>5 DEF Jobs
  <2>7. UNCHANGED <<used, override, exempt>>
    BY <1>1 DEF Admits, accountVars
  <2>8. StorageLimitIf(u, pro)' = StorageLimitIf(u, pro) /\ SessionCapIf(u, pro)' = c
    BY <2>4, <2>7 DEF StorageLimitIf, SessionCapIf
  <2>9. exempt[u] \/ used[u] < StorageLimitIf(u, pro)
    <3>1. used[u] \in Int /\ StorageLimitIf(u, pro) \in Int
      BY <2>3, LimitTypes DEF Typed, TypeOK
    <3> QED BY <2>2, <3>1
  <2>10. Room(t)'
    BY <2>2, <2>6, <2>7, <2>8, <2>9 DEF Room
  <2> QED BY <2>5, <2>6, <2>10 DEF Admitted
<1>2. CASE Counts(t)
  <2> DEFINE u == job[t].user
  <2>1. u \in Users /\ job[t].cap \in Nat
    BY <1>2, JobTypes DEF Counts
  <2>2. Slots(u, job[t].cap)
    <3>1. Cardinality(Live(u)) \in Nat /\ Cardinality(Owned(u)) \in Nat
      BY OwnedFinite
    <3>2. maxLive[u] \in Int
      BY <2>1, MaxLiveType DEF Typed
    <3> QED BY <1>2, <2>1, <3>1, <3>2 DEF Counts, Slots
  <2>3. holder[u] = t /\ Room(t)
    BY <1>2 DEF Counts, Admitted
  <2>4. UNCHANGED <<used, override, maxLive, exempt, licensed, st, owner, job, holder>>
    BY <1>2 DEF Counts, accountVars, sessionVars
  <2>5. Slots(job[t].user, job[t].cap)'
    BY <2>2, <2>4 DEF Slots, Live, Owned
  <2>6. Room(t)'
    BY <2>3, <2>4 DEF Room, StorageLimitIf, SessionCapIf
  <2> QED BY <2>3, <2>4, <2>5, <2>6 DEF Admitted
<1>3. ASSUME ~Admits(t), ~Counts(t) PROVE pc'[t] \notin {"count", "insert"}
  <2> USE DEF Goto, Typed, TypeOK
  <2>1. CASE CreateBegin(t) \/ AppendBegin(t) \/ DeleteBegin(t)
    BY <2>1 DEF CreateBegin, AppendBegin, DeleteBegin, Begin
  <2>2. CASE Step(t) \/ DeadlockAbort(t) \/ Cancel(t)
    BY <1>3, <2>2, StepShape
       DEF Refuse, Locks, Proceeds, Inserts, AppendMeter, AutoEnd, DeleteCommit
  <2> QED BY <2>1, <2>2
<1> QED BY <1>1, <1>2, <1>3 DEF Admitted

LEMMA AdmittedStep == CreatesStayAdmitted /\ [Next]_vars => CreatesStayAdmitted'
<1> SUFFICES ASSUME CreatesStayAdmitted, [Next]_vars PROVE CreatesStayAdmitted'
  OBVIOUS
<1>1. Typed /\ Typed' /\ \A t \in Txs : Admitted(t)
  BY TypedStep DEF CreatesStayAdmitted, Typed
<1>2. ASSUME NEW o \in Txs PROVE Admitted(o)'
  <2> DEFINE u == job[o].user
  <2>1. pc[o] \in {"count", "insert"} => u \in Users /\ holder[u] = o /\ o # Nobody
    BY <1>1, JobTypes, RowsAssumption DEF Admitted
  <2>2. ASSUME NEW t \in Txs,
               \/ CreateBegin(t) \/ AppendBegin(t) \/ DeleteBegin(t)
               \/ Step(t) \/ DeadlockAbort(t) \/ Cancel(t)
        PROVE  Admitted(o)'
    <3>1. CASE t = o
      BY <1>1, <2>2, <3>1, OwnAdmitted
    <3>2. CASE t # o
      <4>1. pc'[o] = pc[o] /\ job'[o] = job[o]
        BY <1>1, <2>2, <3>2, OthersUnmoved
      <4>2. pc[o] \in {"count", "insert"} => holder'[u] = o /\ Keeps(u)
        BY <1>1, <2>1, <2>2, <3>2, OthersKeep
      <4> QED BY <1>1, <4>1, <4>2, KeptAdmitted
    <3> QED BY <3>1, <3>2
  <2>3. CASE \/ \E s \in Sessions : EndSession(s)
             \/ \E v \in Users : SetUserQuota(v)
             \/ \E v \in Customers : ChangeLicence(v)
    <3>1. pc'[o] = pc[o] /\ holder' = holder /\ (pc[o] # "owner" => job'[o] = job[o])
      BY <1>1, <2>3, LicenceEffect DEF EndSession, SetUserQuota, txVars
    <3>2. pc[o] \in {"count", "insert"} => Keeps(u)
      BY <1>1, <2>1, <2>3, WorldKeeps
    <3>3. CASE pc[o] = "owner"
      BY <3>1, <3>3 DEF Admitted
    <3> QED BY <1>1, <2>1, <3>1, <3>2, <3>3, KeptAdmitted
  <2>4. CASE UNCHANGED vars
    <3>1. pc[o] \in {"count", "insert"} => Keeps(u)
      BY <1>1, <2>1, <2>4, KeptIfUnchanged DEF vars, sessionVars
    <3> QED BY <1>1, <2>1, <2>4, <3>1, KeptAdmitted DEF vars, txVars
  <2> QED BY <2>2, <2>3, <2>4 DEF Next
<1> QED BY <1>1, <1>2 DEF CreatesStayAdmitted, Typed

(* A create that has its owner's lock goes on holding it, and what it found *)
(* there goes on being true until it inserts, whatever runs beside it.      *)
THEOREM CreatesAdmitted == Spec => []CreatesStayAdmitted
<1>1. Init => CreatesStayAdmitted
  BY InitTyped DEF Init, CreatesStayAdmitted, Typed, Admitted
<1>2. CreatesStayAdmitted /\ [Next]_vars => CreatesStayAdmitted'
  BY AdmittedStep
<1> QED BY <1>1, <1>2, PTL DEF Spec

-----------------------------------------------------------------------------
(* The limits themselves. *)

LEMMA AtMostOneMore ==
    ASSUME NEW S, IsFiniteSet(S), NEW x, NEW T, T \subseteq S \cup {x}
    PROVE  Cardinality(T) <= Cardinality(S) + 1
<1>1. IsFiniteSet(S \cup {x})
      /\ (Cardinality(S \cup {x}) = Cardinality(S) \/ Cardinality(S \cup {x}) = Cardinality(S) + 1)
  BY FS_AddElement
<1>2. IsFiniteSet(T) /\ Cardinality(T) <= Cardinality(S \cup {x})
  BY <1>1, FS_Subset
<1> QED BY <1>1, <1>2, FS_CardinalityType

(* Only an insert adds to what a user owns. *)
LEMMA OnlyInsertsAdd ==
    ASSUME Typed, [Next]_vars, NEW u, ~(Owned(u)' \subseteq Owned(u))
    PROVE  \E t \in Txs : Inserts(t)
<1> SUFFICES ASSUME \A t \in Txs : ~Inserts(t) PROVE Owned(u)' \subseteq Owned(u)
  OBVIOUS
<1> USE DEF Owned, sessionVars
<1>1. ASSUME NEW t \in Txs, CreateBegin(t) \/ AppendBegin(t) \/ DeleteBegin(t)
      PROVE  Owned(u)' \subseteq Owned(u)
  BY <1>1 DEF CreateBegin, AppendBegin, DeleteBegin, Begin
<1>2. ASSUME NEW t \in Txs, Step(t) \/ DeadlockAbort(t) \/ Cancel(t)
      PROVE  Owned(u)' \subseteq Owned(u)
  <2>1. CASE Refuse(t) \/ Admits(t) \/ Counts(t) \/ Locks(t) \/ AppendMeter(t)
    BY <2>1 DEF Refuse, Admits, Counts, Locks, Proceeds, AppendMeter
  <2>2. CASE AutoEnd(t) \/ DeleteCommit(t)
    BY <2>2 DEF AutoEnd, DeleteCommit, Typed, TypeOK
  <2> QED BY <1>2, <2>1, <2>2, StepShape
<1>3. CASE \E s \in Sessions : EndSession(s)
  BY <1>3 DEF EndSession, Typed, TypeOK
<1>4. CASE (\E v \in Users : SetUserQuota(v)) \/ (\E v \in Customers : ChangeLicence(v))
  BY <1>4 DEF SetUserQuota, ChangeLicence
<1>5. CASE UNCHANGED vars
  BY <1>5 DEF vars
<1> QED BY <1>1, <1>2, <1>3, <1>4, <1>5 DEF Next

LEMMA LimitsStep ==
    ASSUME CreatesStayAdmitted, [Next]_vars, NEW t \in Txs, NEW u \in Users,
           pc[t] = "insert", job[t].user = u, job[t].row \in Owned(u)' \ Owned(u)
    PROVE  \/ exempt[u]
           \/ \E pro \in job[t].held :
                /\ used[u] < StorageLimitIf(u, pro)
                /\ Cardinality(Live(u)') <= maxLive[u]
                /\ SessionCapIf(u, pro) > 0 => Cardinality(Owned(u)') <= SessionCapIf(u, pro)
<1>1. Typed /\ \A o \in Txs : Admitted(o)
  BY DEF CreatesStayAdmitted, Typed
<1>2. PICK o \in Txs : Inserts(o)
  BY <1>1, OnlyInsertsAdd
<1> DEFINE j == job[t]
<1>3. job[o].user \in Users /\ job[o].row \in Sessions
  BY <1>1, <1>2, JobTypes DEF Inserts
<1>4. /\ Owned(u)' \subseteq Owned(u) \cup {job[o].row} /\ Live(u)' \subseteq Live(u) \cup {job[o].row}
      /\ job[o].user = u
  BY <1>1, <1>2, <1>3 DEF Inserts, Owned, Live, Typed, TypeOK
<1>5. /\ o = t /\ j.held \subseteq BOOLEAN
      /\ Room(t) /\ Slots(u, j.cap)
  <2>1. holder[u] = o /\ holder[u] = t
    BY <1>1, <1>2, <1>4 DEF Inserts, Admitted
  <2>2. Room(t) /\ Slots(u, j.cap)
    BY <1>1 DEF Admitted
  <2>3. j.held \subseteq BOOLEAN
    BY <1>1, JobTypes DEF Jobs
  <2> QED BY <2>1, <2>2, <2>3
<1>6. CASE exempt[u]
  BY <1>6
<1>7. CASE ~exempt[u]
  <2>1. PICK pro \in j.held : used[u] < StorageLimitIf(u, pro) /\ j.cap = SessionCapIf(u, pro)
    BY <1>5, <1>7 DEF Room
  <2>2. Cardinality(Live(u)) < maxLive[u] /\ (j.cap > 0 => Cardinality(Owned(u)) < j.cap)
    BY <1>5, <1>7 DEF Slots
  <2>3. /\ Cardinality(Live(u)') <= Cardinality(Live(u)) + 1
        /\ Cardinality(Owned(u)') <= Cardinality(Owned(u)) + 1
    BY <1>4, AtMostOneMore, OwnedFinite
  <2>4. /\ maxLive[u] \in Int /\ SessionCapIf(u, pro) \in Nat
        /\ Cardinality(Live(u)) \in Nat /\ Cardinality(Live(u)') \in Nat
        /\ Cardinality(Owned(u)) \in Nat /\ Cardinality(Owned(u)') \in Nat
    BY <1>1, <1>5, <2>1, MaxLiveType, LimitTypes, OwnedFinite, OwnedFiniteNext DEF Typed
  <2> HIDE DEF j
  <2>5. /\ Cardinality(Live(u)') <= maxLive[u]
        /\ SessionCapIf(u, pro) > 0 => Cardinality(Owned(u)') <= SessionCapIf(u, pro)
    BY <2>1, <2>2, <2>3, <2>4
  <2> QED BY <2>1, <2>5 DEF j
<1> QED BY <1>6, <1>7

(* A session appears only within its owner's limits, those of a plan that   *)
(* the owner held when the create read them, however many creates, forks,   *)
(* appends, deletes and changes of licences run at once.                    *)
THEOREM LimitsRespected == Spec => CreatesRespectLimits
<1>1. CreatesStayAdmitted /\ [Next]_vars =>
        [\A t \in Txs, u \in Users :
         (pc[t] = "insert" /\ job[t].user = u /\ job[t].row \in Owned(u)' \ Owned(u)) =>
           \/ exempt[u]
           \/ \E pro \in job[t].held :
                /\ used[u] < StorageLimitIf(u, pro)
                /\ Cardinality(Live(u)') <= maxLive[u]
                /\ SessionCapIf(u, pro) > 0 => Cardinality(Owned(u)') <= SessionCapIf(u, pro)]_vars
  BY LimitsStep
<1> QED BY <1>1, CreatesAdmitted, PTL DEF Spec, CreatesRespectLimits
-----------------------------------------------------------------------------
(* The meter and the row locks.  What a user's sessions hold is a sum over  *)
(* a set, defined by recursion: the lemmas about it are proved by           *)
(* induction, as the absence of a smallest counterexample among the subsets *)
(* of a finite set.                                                         *)

(* Sums over finite sets. *)

Pick(s) == CHOOSE x \in s : TRUE
Below(s) == s \ {Pick(s)}

(* it is the function that MapThenSumSet defines by recursion over the      *)
(* subsets of S.                                                            *)
IsSum(f, S, it) == it = [s \in SUBSET S |-> IF s = {} THEN 0 ELSE f[Pick(s)] + it[Below(s)]]
Total(f, S) == (CHOOSE it : IsSum(f, S, it))[S]

LEMMA SubsetInduction ==
    ASSUME NEW S, IsFiniteSet(S), NEW Good,
           \A T \in SUBSET S : (\A U \in SUBSET T : U # T => U \in Good) => T \in Good
    PROVE  SUBSET S \subseteq Good
<1> DEFINE Bad == (SUBSET S) \ Good
           R == StrictSubsetOrdering(S)
<1>1. FiniteSubsetsOf(S) = SUBSET S
  BY FS_FiniteSubsetsOfFinite
<1>2. IsWellFoundedOn(R, SUBSET S)
  BY <1>1, FS_StrictSubsetOrderingWellFounded
<1>3. ASSUME Bad # {} PROVE FALSE
  <2>1. Bad \subseteq SUBSET S
    OBVIOUS
  <2>2. \E T \in Bad : \A U \in Bad : ~(<<U, T>> \in R)
    <3> HIDE DEF R, Bad
    <3> QED BY <1>2, <1>3, <2>1, WFMin
  <2>3. PICK T \in Bad : \A U \in Bad : ~(<<U, T>> \in R)
    BY <2>2
  <2>4. \A U \in SUBSET T : U # T => U \in Good
    BY <2>3 DEF StrictSubsetOrdering
  <2> QED BY <2>3, <2>4
<1> QED BY <1>3

LEMMA BelowSmaller ==
    ASSUME NEW S, S # {}
    PROVE  Pick(S) \in S /\ Below(S) \in SUBSET S /\ Below(S) # S
BY DEF Pick, Below

LEMMA SumRestricted ==
    ASSUME NEW f, NEW S, NEW T \in SUBSET S, NEW it, IsSum(f, S, it),
           NEW r, r = [s \in SUBSET T |-> it[s]]
    PROVE  IsSum(f, T, r)
<1>1. ASSUME NEW s \in SUBSET T
      PROVE  r[s] = IF s = {} THEN 0 ELSE f[Pick(s)] + r[Below(s)]
  <2>1. s \in SUBSET S
    OBVIOUS
  <2>2. it[s] = IF s = {} THEN 0 ELSE f[Pick(s)] + it[Below(s)]
    BY <2>1 DEF IsSum
  <2>3. s # {} => Below(s) \in SUBSET T
    BY BelowSmaller
  <2> QED BY <2>2, <2>3
<1>2. r = [s \in SUBSET T |-> IF s = {} THEN 0 ELSE f[Pick(s)] + r[Below(s)]]
  <2>1. r = [s \in SUBSET T |-> r[s]]
    OBVIOUS
  <2> QED BY <1>1, <2>1
<1> QED BY <1>2 DEF IsSum

LEMMA SumUnique ==
    ASSUME NEW f, NEW S, IsFiniteSet(S), NEW a, NEW b, IsSum(f, S, a), IsSum(f, S, b)
    PROVE  a = b
<1> DEFINE Good == {s \in SUBSET S : a[s] = b[s]}
<1>1. ASSUME NEW T \in SUBSET S, \A U \in SUBSET T : U # T => U \in Good
      PROVE  T \in Good
  <2>1. /\ a[T] = IF T = {} THEN 0 ELSE f[Pick(T)] + a[Below(T)]
        /\ b[T] = IF T = {} THEN 0 ELSE f[Pick(T)] + b[Below(T)]
    BY DEF IsSum
  <2>2. T # {} => a[Below(T)] = b[Below(T)]
    BY <1>1, BelowSmaller
  <2> QED BY <2>1, <2>2
<1>2. SUBSET S \subseteq Good
  <2> HIDE DEF Good
  <2> QED BY <1>1, SubsetInduction
<1>3. a = [s \in SUBSET S |-> a[s]] /\ b = [s \in SUBSET S |-> b[s]]
  BY DEF IsSum
<1> QED BY <1>2, <1>3

(* One step of the recursion, where there is a function for the rest. *)
LEMMA TotalStep ==
    ASSUME NEW f, NEW S, IsFiniteSet(S), NEW it, IsSum(f, S, it)
    PROVE  \A T \in SUBSET S : it[T] = Total(f, T)
<1> TAKE T \in SUBSET S
<1> DEFINE r == [s \in SUBSET T |-> it[s]]
<1>1. IsSum(f, T, r)
  <2> HIDE DEF r
  <2>1. r = [s \in SUBSET T |-> it[s]]
    BY DEF r
  <2> QED BY <2>1, SumRestricted
<1> DEFINE c == CHOOSE g : IsSum(f, T, g)
<1>2. IsSum(f, T, c)
  BY <1>1
<1>3. IsFiniteSet(T)
  BY FS_Subset
<1>4. c = r
  <2> HIDE DEF c, r
  <2> QED BY <1>1, <1>2, <1>3, SumUnique
<1> QED BY <1>4 DEF Total

LEMMA SumsExist ==
    ASSUME NEW f, NEW S, IsFiniteSet(S)
    PROVE  \E it : IsSum(f, S, it)
<1> DEFINE Good == {T \in SUBSET S : \E it : IsSum(f, T, it)}
<1>1. ASSUME NEW T \in SUBSET S, \A U \in SUBSET T : U # T => U \in Good
      PROVE  T \in Good
  <2> DEFINE it == [s \in SUBSET T |-> IF s # T THEN Total(f, s)
                                       ELSE IF T = {} THEN 0 ELSE f[Pick(T)] + Total(f, Below(T))]
  <2>1. ASSUME NEW s \in SUBSET T
        PROVE  it[s] = IF s = {} THEN 0 ELSE f[Pick(s)] + it[Below(s)]
    <3>1. s # {} => Below(s) \in SUBSET T /\ Below(s) # T /\ Below(s) \in SUBSET s
      BY BelowSmaller
    <3>2. CASE s = T
      BY <3>1, <3>2
    <3>3. CASE s # T
      <4>1. PICK g : IsSum(f, s, g)
        BY <1>1, <3>3
      <4>2. IsFiniteSet(s)
        BY FS_Subset
      <4>3. \A U \in SUBSET s : g[U] = Total(f, U)
        BY <4>1, <4>2, TotalStep
      <4>4. g[s] = IF s = {} THEN 0 ELSE f[Pick(s)] + g[Below(s)]
        BY <4>1 DEF IsSum
      <4>5. Total(f, s) = IF s = {} THEN 0 ELSE f[Pick(s)] + Total(f, Below(s))
        BY <3>1, <4>3, <4>4
      <4> QED BY <3>1, <3>3, <4>5
    <3> QED BY <3>2, <3>3
  <2>2. it = [s \in SUBSET T |-> IF s = {} THEN 0 ELSE f[Pick(s)] + it[Below(s)]]
    <3>1. it = [s \in SUBSET T |-> it[s]]
      OBVIOUS
    <3> HIDE DEF it
    <3> QED BY <2>1, <3>1
  <2>3. IsSum(f, T, it)
    BY <2>2 DEF IsSum
  <2> QED BY <2>3
<1>2. SUBSET S \subseteq Good
  <2> HIDE DEF Good
  <2> QED BY <1>1, SubsetInduction
<1> QED BY <1>2

(* The recursion, unfolded once. *)
LEMMA TotalUnfolds ==
    ASSUME NEW f, NEW S, IsFiniteSet(S)
    PROVE  Total(f, S) = IF S = {} THEN 0 ELSE f[Pick(S)] + Total(f, Below(S))
<1>1. PICK it : IsSum(f, S, it)
  BY SumsExist
<1>2. \A T \in SUBSET S : it[T] = Total(f, T)
  BY <1>1, TotalStep
<1>3. it[S] = IF S = {} THEN 0 ELSE f[Pick(S)] + it[Below(S)]
  BY <1>1 DEF IsSum
<1>4. S # {} => Below(S) \in SUBSET S
  BY BelowSmaller
<1> QED BY <1>2, <1>3, <1>4

LEMMA TotalType ==
    ASSUME NEW f, NEW S, IsFiniteSet(S), \A x \in S : f[x] \in Nat
    PROVE  Total(f, S) \in Nat
<1> DEFINE Good == {T \in SUBSET S : Total(f, T) \in Nat}
<1>1. ASSUME NEW T \in SUBSET S, \A U \in SUBSET T : U # T => U \in Good
      PROVE  T \in Good
  <2>1. IsFiniteSet(T)
    BY FS_Subset
  <2>2. Total(f, T) = IF T = {} THEN 0 ELSE f[Pick(T)] + Total(f, Below(T))
    BY <2>1, TotalUnfolds
  <2>3. T # {} => Total(f, Below(T)) \in Nat /\ f[Pick(T)] \in Nat
    BY <1>1, BelowSmaller
  <2> QED BY <2>2, <2>3
<1>2. SUBSET S \subseteq Good
  <2> HIDE DEF Good
  <2> QED BY <1>1, SubsetInduction
<1> QED BY <1>2

(* Functions that agree on a set have one sum over it. *)
LEMMA TotalSame ==
    ASSUME NEW f, NEW g, NEW S, IsFiniteSet(S), \A x \in S : f[x] = g[x]
    PROVE  Total(f, S) = Total(g, S)
<1> DEFINE Good == {T \in SUBSET S : Total(f, T) = Total(g, T)}
<1>1. ASSUME NEW T \in SUBSET S, \A U \in SUBSET T : U # T => U \in Good
      PROVE  T \in Good
  <2>1. IsFiniteSet(T)
    BY FS_Subset
  <2>2. /\ Total(f, T) = IF T = {} THEN 0 ELSE f[Pick(T)] + Total(f, Below(T))
        /\ Total(g, T) = IF T = {} THEN 0 ELSE g[Pick(T)] + Total(g, Below(T))
    BY <2>1, TotalUnfolds
  <2>3. T # {} => Total(f, Below(T)) = Total(g, Below(T)) /\ f[Pick(T)] = g[Pick(T)]
    BY <1>1, BelowSmaller
  <2> QED BY <2>2, <2>3
<1>2. SUBSET S \subseteq Good
  <2> HIDE DEF Good
  <2> QED BY <1>1, SubsetInduction
<1> QED BY <1>2

(* Any element may be taken out, not only the one the recursion picks. *)
LEMMA TotalOut ==
    ASSUME NEW f, NEW S, IsFiniteSet(S), \A x \in S : f[x] \in Nat
    PROVE  \A x \in S : Total(f, S) = f[x] + Total(f, S \ {x})
<1> DEFINE Good == {T \in SUBSET S : \A x \in T : Total(f, T) = f[x] + Total(f, T \ {x})}
<1>1. ASSUME NEW T \in SUBSET S, \A U \in SUBSET T : U # T => U \in Good
      PROVE  T \in Good
  <2> SUFFICES ASSUME NEW x \in T PROVE Total(f, T) = f[x] + Total(f, T \ {x})
    OBVIOUS
  <2> DEFINE p == Pick(T)
             rest == T \ {x, p}
  <2>1. IsFiniteSet(T) /\ IsFiniteSet(rest) /\ IsFiniteSet(T \ {x})
    BY FS_Subset
  <2>2. p \in T /\ Below(T) = T \ {p}
    BY BelowSmaller DEF Below
  <2>3. Total(f, T) = f[p] + Total(f, T \ {p})
    BY <2>1, <2>2, TotalUnfolds
  <2>4. CASE x = p
    BY <2>3, <2>4
  <2>5. CASE x # p
    <3>1. T \ {p} \in Good /\ T \ {x} \in Good
      BY <1>1, <2>2
    <3>2. x \in T \ {p} /\ p \in T \ {x} /\ (T \ {p}) \ {x} = rest /\ (T \ {x}) \ {p} = rest
      BY <2>2, <2>5
    <3>3. Total(f, T \ {p}) = f[x] + Total(f, rest) /\ Total(f, T \ {x}) = f[p] + Total(f, rest)
      BY <3>1, <3>2
    <3>4. f[x] \in Nat /\ f[p] \in Nat /\ Total(f, rest) \in Nat
      BY <2>1, <2>2, TotalType
    <3> HIDE DEF p, rest, Good
    <3> QED BY <2>3, <3>3, <3>4
  <2> QED BY <2>4, <2>5
<1>2. SUBSET S \subseteq Good
  <2> HIDE DEF Good
  <2> QED BY <1>1, SubsetInduction
<1> QED BY <1>2

(* MapThenSumSet over what a user owns is such a sum. *)
LEMMA MeterIsTotal == MeterIsExact <=> \A u \in Users : used[u] = Total(bytes, Owned(u))
BY DEF MeterIsExact, MapThenSumSet, MapThenFoldSet, Total, IsSum, Pick, Below

-----------------------------------------------------------------------------
(* The inductive invariant. *)

Creating == {"owner", "count", "insert"}
Appending == {"row", "meter", "autoend"}
Deleting == {"erase", "credit", "unfork"}

(* What a handler's place says of the session it works on: a create has one *)
(* that does not exist yet; an append or a delete works for the owner of    *)
(* one that did exist, and from its first lock on it is there.              *)
OnItsRow(t) ==
    /\ pc[t] \in Creating => job[t].op = "create" /\ st[job[t].row] = "none"
    /\ pc[t] \in Appending => job[t].op \in {"event", "comment", "note"}
    /\ pc[t] \in Deleting => job[t].op = "delete"
    /\ pc[t] \in Appending \cup Deleting =>
         st[job[t].row] # "none" /\ owner[job[t].row] = job[t].user
    /\ pc[t] \in {"meter", "credit", "unfork"} =>
         holder[job[t].row] = t /\ st[job[t].row] \in {"live", "ended"}

(* Nobody else works on the row that a create is about to insert. *)
CreatesApart ==
    \A t, o \in Txs : t # o /\ pc[t] \in Creating => job[o].row # job[t].row

(* A row that was never inserted holds nothing. *)
NewRowsAreEmpty == \A s \in Sessions : st[s] = "none" => bytes[s] = 0

(* The order of the locks: which rows a handler holds at each place. *)
Holds(t) ==
    \A x \in Rows : holder[x] = t =>
      /\ pc[t] \in {"count", "insert", "meter", "credit", "unfork"}
      /\ pc[t] \in {"meter", "credit"} => x = job[t].row

WorkInv ==
    /\ Typed /\ NewRowsAreEmpty /\ CreatesApart
    /\ \A t \in Txs : OnItsRow(t) /\ Holds(t)

-----------------------------------------------------------------------------
(* What a step of a handler is, with the rows it locks. *)

LocksFirst(t) ==
    /\ pc[t] \in {"row", "erase"} /\ st[job[t].row] # "deleted"
    /\ Free(job[t].row) /\ Take(t, job[t].row)
    /\ Goto(t, IF pc[t] = "row" THEN "meter" ELSE "credit")
    /\ UNCHANGED <<used, accountVars, sessionVars, job>>

LocksNext(t) ==
    /\ pc[t] \in {"credit", "unfork"}
    /\ \E x \in Rows : Free(x) /\ Take(t, x)
    /\ Goto(t, "unfork")
    /\ UNCHANGED <<used, accountVars, sessionVars, job>>

LEMMA WorkShape ==
    ASSUME Typed, NEW t \in Txs, Step(t) \/ DeadlockAbort(t) \/ Cancel(t)
    PROVE  \/ Refuse(t) \/ Admits(t) \/ Counts(t) \/ LocksFirst(t) \/ LocksNext(t)
           \/ Inserts(t) \/ AppendMeter(t) \/ AutoEnd(t) \/ DeleteCommit(t)
<1>1. CASE Create(t)
  BY <1>1 DEF Create, CreateOwner, CreateCount, CreateInsert, Admits, Counts, Inserts
<1>2. CASE AppendRow(t)
  BY <1>2 DEF AppendRow, AppendOrder, Missing, LocksFirst
<1>3. CASE DeleteErase(t)
  BY <1>3 DEF DeleteErase, LocksFirst
<1>4. CASE DeleteCredit(t)
  <2>1. pc[t] = "credit" /\ job[t].user \in Rows
    BY <1>4, JobTypes DEF DeleteCredit
  <2> QED BY <1>4, <2>1 DEF DeleteCredit, LocksNext
<1>5. CASE DeleteUnfork(t)
  <2>1. \E x \in Rows : Free(x) /\ Take(t, x)
    BY <1>5 DEF DeleteUnfork, Forks, Rows
  <2>2. pc[t] = "unfork" /\ Goto(t, "unfork")
    BY <1>5 DEF DeleteUnfork, Goto, Typed, TypeOK
  <2> QED BY <1>5, <2>1, <2>2 DEF DeleteUnfork, LocksNext
<1>6. CASE DeadlockAbort(t) \/ Cancel(t)
  BY <1>6 DEF DeadlockAbort, Cancel
<1> QED BY <1>1, <1>2, <1>3, <1>4, <1>5, <1>6 DEF Step, Append, Delete

Begins(t) == CreateBegin(t) \/ AppendBegin(t) \/ DeleteBegin(t)
Works(t) == Begins(t) \/ Step(t) \/ DeadlockAbort(t) \/ Cancel(t)
Elsewhere ==
    \/ \E s \in Sessions : EndSession(s)
    \/ \E u \in Users : SetUserQuota(u)
    \/ \E u \in Customers : ChangeLicence(u)
    \/ UNCHANGED vars

LEMMA NextShape == [Next]_vars => (\E t \in Txs : Works(t)) \/ Elsewhere
BY DEF Next, Works, Begins, Elsewhere

(* A begin writes nothing but its own pc and job. *)
LEMMA BeginEffect ==
    ASSUME NEW t \in Txs, Begins(t)
    PROVE  /\ pc[t] = "idle"
           /\ UNCHANGED <<used, st, owner, source, bytes, holder>>
BY DEF Begins, CreateBegin, AppendBegin, DeleteBegin, Begin, sessionVars

(* Nobody takes or loses a lock but by a step of its own. *)
LEMMA OthersLocks ==
    ASSUME Typed, NEW t \in Txs, Works(t)
    PROVE  \A o \in Txs \ {t}, x \in Rows : holder'[x] = o <=> holder[x] = o
<1>1. CASE UNCHANGED holder
  BY <1>1
<1>2. CASE Release(t)
  BY <1>2, ReleaseEffect, RowsAssumption DEF Typed
<1>3. CASE \E x \in Rows : Free(x) /\ Take(t, x)
  <2>1. PICK x \in Rows : Free(x) /\ Take(t, x)
    BY <1>3
  <2> QED BY <2>1, TakeEffect, RowsAssumption DEF Typed, Free
<1>4. CASE Admits(t)
  <2>1. job[t].user \in Rows
    BY <1>4, JobTypes DEF Admits
  <2> QED BY <1>3, <1>4, <2>1 DEF Admits, LockOwner
<1>5. CASE LocksFirst(t)
  <2>1. job[t].row \in Rows
    BY <1>5, JobTypes DEF LocksFirst
  <2> QED BY <1>3, <1>5, <2>1 DEF LocksFirst
<1>6. CASE Begins(t)
  BY <1>1, <1>6, BeginEffect
<1> QED BY <1>1, <1>2, <1>3, <1>4, <1>5, <1>6, WorkShape
        DEF Works, Refuse, Counts, LocksNext, Inserts, AppendMeter, AutoEnd, DeleteCommit

(* How a row changes under a step: it appears by its create, and disappears *)
(* by a delete that holds it; nothing else changes whose it is.             *)
LEMMA RowsMove ==
    ASSUME WorkInv, NEW t \in Txs, Works(t), NEW s \in Sessions
    PROVE  /\ st[s] # "none" => st'[s] # "none" /\ owner'[s] = owner[s]
           /\ st[s] = "none" /\ st'[s] # "none" => Inserts(t) /\ s = job[t].row
           /\ st[s] \in {"live", "ended"} /\ st'[s] \notin {"live", "ended"} =>
                DeleteCommit(t) /\ s = job[t].row /\ holder[s] = t
<1> USE DEF Typed, TypeOK
<1>1. Typed
  BY DEF WorkInv
<1>2. CASE UNCHANGED <<st, owner>>
  BY <1>1, <1>2
<1>3. CASE Inserts(t)
  <2>1. st[job[t].row] = "none" /\ job[t].row \in Sessions
    BY <1>1, <1>3, JobTypes DEF Inserts, WorkInv, OnItsRow, Creating
  <2> QED BY <1>1, <1>3, <2>1 DEF Inserts
<1>4. CASE AutoEnd(t)
  BY <1>1, <1>4 DEF AutoEnd
<1>5. CASE DeleteCommit(t)
  <2>1. holder[job[t].row] = t /\ st[job[t].row] \in {"live", "ended"}
    BY <1>5 DEF DeleteCommit, WorkInv, OnItsRow
  <2> QED BY <1>1, <1>5, <2>1 DEF DeleteCommit
<1> QED BY <1>1, <1>2, <1>3, <1>4, <1>5, BeginEffect, WorkShape
        DEF Works, Refuse, Admits, Counts, LocksFirst, LocksNext, AppendMeter, sessionVars

-----------------------------------------------------------------------------
(* The invariant holds. *)

LEMMA InitWork == Init => WorkInv
<1> SUFFICES ASSUME Init PROVE WorkInv
  OBVIOUS
<1>1. Typed
  BY InitTyped
<1> USE RowsAssumption DEF Init, Creating, Appending, Deleting
<1>2. NewRowsAreEmpty /\ CreatesApart
  BY DEF NewRowsAreEmpty, CreatesApart
<1>3. ASSUME NEW t \in Txs PROVE OnItsRow(t) /\ Holds(t)
  BY DEF OnItsRow, Holds
<1> QED BY <1>1, <1>2, <1>3 DEF WorkInv

(* Another's step leaves a handler where it was. *)
LEMMA OthersWork ==
    ASSUME WorkInv, NEW t \in Txs, Works(t), NEW o \in Txs \ {t}
    PROVE  OnItsRow(o)' /\ Holds(o)'
<1>1. Typed /\ OnItsRow(o) /\ Holds(o)
  BY DEF WorkInv
<1>2. pc'[o] = pc[o] /\ job'[o] = job[o]
  BY <1>1, OthersUnmoved DEF Works, Begins
<1>3. \A x \in Rows : holder'[x] = o <=> holder[x] = o
  BY <1>1, OthersLocks
<1>4. Holds(o)'
  BY <1>1, <1>2, <1>3 DEF Holds
<1> DEFINE s == job[o].row
<1>5. pc[o] \in Creating \cup Appending \cup Deleting => s \in Sessions /\ s \in Rows
  BY <1>1, JobTypes DEF Creating, Appending, Deleting
<1>6. ASSUME pc[o] \in Creating PROVE st'[s] = "none"
  <2>1. st[s] = "none" /\ job[t].row # s
    BY <1>1, <1>6 DEF OnItsRow, WorkInv, CreatesApart
  <2> QED BY <1>5, <1>6, <2>1, RowsMove
<1>7. ASSUME pc[o] \in Appending \cup Deleting
      PROVE  st'[s] # "none" /\ owner'[s] = owner[s]
  BY <1>1, <1>5, <1>7, RowsMove DEF OnItsRow
<1>8. ASSUME pc[o] \in {"meter", "credit", "unfork"}
      PROVE  holder'[s] = o /\ st'[s] \in {"live", "ended"}
  <2>1. s \in Sessions /\ s \in Rows
    BY <1>5, <1>8 DEF Appending, Deleting
  <2> QED BY <1>1, <1>3, <1>8, <2>1, RowsMove DEF OnItsRow
<1> QED BY <1>1, <1>2, <1>4, <1>6, <1>7, <1>8 DEF OnItsRow

(* Its own steps. *)
LEMMA BeginWork ==
    ASSUME WorkInv, NEW t \in Txs, Begins(t)
    PROVE  OnItsRow(t)' /\ Holds(t)'
<1> USE DEF WorkInv, Typed, TypeOK, Creating, Appending, Deleting
<1>1. UNCHANGED <<st, owner, holder>> /\ pc[t] = "idle"
  BY BeginEffect
<1>2. Holds(t)'
  BY <1>1 DEF Holds
<1>3. CASE CreateBegin(t)
  <2>1. PICK u \in Users, s \in Sessions, src \in Sessions \cup {Nobody} :
           /\ st[s] = "none"
           /\ Begin(t, [NoJob EXCEPT !.op = "create", !.user = u, !.row = s, !.source = src,
                                     !.held = {licensed[u]}], "owner")
    BY <1>3 DEF CreateBegin
  <2>2. pc'[t] = "owner" /\ job'[t].op = "create" /\ job'[t].row = s
    BY <2>1 DEF Begin, Goto, NoJob
  <2> QED BY <1>1, <1>2, <2>1, <2>2 DEF OnItsRow
<1>4. CASE AppendBegin(t)
  <2>1. PICK s \in Sessions, op \in {"event", "comment"} :
           /\ st[s] = "live"
           /\ Begin(t, [NoJob EXCEPT !.op = op, !.user = owner[s], !.row = s], "row")
    BY <1>4 DEF AppendBegin
  <2>2. pc'[t] = "row" /\ job'[t].op = op /\ job'[t].row = s /\ job'[t].user = owner[s]
    BY <2>1 DEF Begin, Goto, NoJob
  <2> QED BY <1>1, <1>2, <2>1, <2>2 DEF OnItsRow
<1>5. CASE DeleteBegin(t)
  <2>1. PICK s \in Sessions :
           /\ st[s] \in {"live", "ended"}
           /\ Begin(t, [NoJob EXCEPT !.op = "delete", !.user = owner[s], !.row = s], "erase")
    BY <1>5 DEF DeleteBegin
  <2>2. pc'[t] = "erase" /\ job'[t].op = "delete" /\ job'[t].row = s /\ job'[t].user = owner[s]
    BY <2>1 DEF Begin, Goto, NoJob
  <2> QED BY <1>1, <1>2, <2>1, <2>2 DEF OnItsRow
<1> QED BY <1>3, <1>4, <1>5 DEF Begins

LEMMA OwnWork ==
    ASSUME WorkInv, NEW t \in Txs, Step(t) \/ DeadlockAbort(t) \/ Cancel(t)
    PROVE  OnItsRow(t)' /\ Holds(t)'
<1>1. Typed /\ OnItsRow(t) /\ Holds(t)
  BY DEF WorkInv
<1> USE DEF Goto, Creating, Appending, Deleting
<1>2. ASSUME Release(t), pc'[t] = "idle" PROVE OnItsRow(t)' /\ Holds(t)'
  BY <1>1, <1>2, ReleaseEffect DEF OnItsRow, Holds, Typed
<1>3. CASE Refuse(t) \/ Inserts(t) \/ DeleteCommit(t)
  BY <1>1, <1>2, <1>3 DEF Refuse, Inserts, DeleteCommit, Typed, TypeOK
<1>4. CASE Admits(t)
  <2>1. /\ pc[t] = "owner" /\ pc'[t] = "count"
        /\ \E cap : job'[t] = [job[t] EXCEPT !.cap = cap]
        /\ UNCHANGED <<st, owner>>
    BY <1>1, <1>4 DEF Admits, sessionVars, Typed, TypeOK
  <2>2. job'[t].op = job[t].op /\ job'[t].row = job[t].row
    BY <1>1, <2>1, JobTypes DEF Jobs
  <2> QED BY <1>1, <2>1, <2>2 DEF OnItsRow, Holds
<1>5. CASE Counts(t)
  BY <1>1, <1>5 DEF Counts, sessionVars, OnItsRow, Holds, Typed, TypeOK
<1>6. CASE LocksFirst(t)
  <2> DEFINE s == job[t].row
  <2>1. s \in Sessions /\ s \in Rows
    BY <1>1, <1>6, JobTypes DEF LocksFirst
  <2>2. /\ pc'[t] = IF pc[t] = "row" THEN "meter" ELSE "credit"
        /\ UNCHANGED <<st, owner, job>>
    BY <1>1, <1>6 DEF LocksFirst, sessionVars, Typed, TypeOK
  <2>3. holder'[s] = t /\ \A x \in Rows \ {s} : holder'[x] = holder[x]
    BY <1>1, <1>6, <2>1, TakeEffect DEF LocksFirst, Typed
  <2>4. \A x \in Rows : holder[x] # t
    BY <1>1, <1>6 DEF LocksFirst, Holds
  <2>5. Holds(t)'
    BY <2>2, <2>3, <2>4, <1>6 DEF Holds, LocksFirst
  <2>6. st[s] \in {"live", "ended"}
    BY <1>1, <1>6, <2>1 DEF LocksFirst, OnItsRow, Typed, TypeOK
  <2> QED BY <1>1, <1>6, <2>2, <2>3, <2>5, <2>6 DEF LocksFirst, OnItsRow
<1>7. CASE LocksNext(t)
  <2> DEFINE s == job[t].row
  <2>1. s \in Rows
    BY <1>1, <1>7, JobTypes DEF LocksNext
  <2>2. pc'[t] = "unfork" /\ UNCHANGED <<st, owner, job>> /\ pc[t] \in {"credit", "unfork"}
    BY <1>1, <1>7 DEF LocksNext, sessionVars, Typed, TypeOK
  <2>3. holder[s] = t /\ holder'[s] = holder[s]
    <3>1. holder[s] = t /\ t # Nobody
      BY <1>1, <2>2, RowsAssumption DEF OnItsRow
    <3>2. PICK x \in Rows : Free(x) /\ Take(t, x)
      BY <1>7 DEF LocksNext
    <3> QED BY <1>1, <2>1, <3>1, <3>2, TakeEffect DEF Typed
  <2> QED BY <1>1, <2>2, <2>3 DEF OnItsRow, Holds
<1>8. CASE AppendMeter(t)
  <2>1. /\ pc[t] = "meter" /\ pc'[t] \in {"idle", "autoend"}
        /\ pc'[t] = "autoend" => job'[t] = job[t]
        /\ UNCHANGED <<st, owner>>
    BY <1>1, <1>8 DEF AppendMeter, Typed, TypeOK
  <2>2. \A x \in Rows : holder'[x] # t
    BY <1>1, <1>8, ReleaseEffect DEF AppendMeter, Typed
  <2> QED BY <1>1, <2>1, <2>2 DEF OnItsRow, Holds
<1>9. CASE AutoEnd(t)
  <2>1. /\ pc[t] = "autoend" /\ pc'[t] = "row" /\ UNCHANGED <<owner, holder>>
        /\ job'[t] = [job[t] EXCEPT !.op = "note"]
    BY <1>1, <1>9 DEF AutoEnd, Typed, TypeOK
  <2>2. job'[t].op = "note" /\ job'[t].row = job[t].row /\ job'[t].user = job[t].user
    BY <1>1, <2>1, JobTypes DEF Jobs
  <2>3. st'[job[t].row] # "none"
    <3>1. job[t].row \in Sessions /\ st[job[t].row] # "none"
      BY <1>1, <2>1, JobTypes DEF OnItsRow
    <3> QED BY <3>1, <1>1, <1>9 DEF AutoEnd, Typed, TypeOK
  <2> QED BY <1>1, <2>1, <2>2, <2>3 DEF OnItsRow, Holds
<1> QED BY <1>1, <1>3, <1>4, <1>5, <1>6, <1>7, <1>8, <1>9, WorkShape

LEMMA EmptyStep ==
    ASSUME WorkInv, [Next]_vars
    PROVE  NewRowsAreEmpty'
<1> SUFFICES ASSUME NEW s \in Sessions, st'[s] = "none" PROVE bytes'[s] = 0
  BY DEF NewRowsAreEmpty
<1>1. Typed /\ NewRowsAreEmpty
  BY DEF WorkInv
<1>2. ASSUME NEW t \in Txs, Works(t) PROVE bytes'[s] = 0
  <2>1. st[s] = "none" /\ bytes[s] = 0
    BY <1>1, <1>2, RowsMove DEF NewRowsAreEmpty
  <2>2. CASE AppendMeter(t)
    <3>1. job[t].row # s
      BY <2>1, <2>2 DEF AppendMeter, WorkInv, OnItsRow
    <3> QED BY <1>1, <2>1, <2>2, <3>1 DEF AppendMeter, Typed, TypeOK
  <2>3. CASE DeleteCommit(t)
    BY <1>1, <2>1, <2>3 DEF DeleteCommit, Typed, TypeOK
  <2>4. CASE UNCHANGED bytes
    BY <2>1, <2>4
  <2> QED BY <1>1, <1>2, <2>2, <2>3, <2>4, BeginEffect, WorkShape
          DEF Works, Refuse, Admits, Counts, LocksFirst, LocksNext, Inserts, AutoEnd, sessionVars
<1>3. CASE Elsewhere
  BY <1>1, <1>3 DEF Elsewhere, EndSession, SetUserQuota, ChangeLicence, vars, sessionVars,
                    NewRowsAreEmpty, Typed, TypeOK
<1> QED BY <1>2, <1>3, NextShape

(* No step makes a handler turn to another row, and a create begins on one  *)
(* that nobody has.                                                         *)
LEMMA ApartStep ==
    ASSUME WorkInv, NEW t \in Txs, Works(t)
    PROVE  CreatesApart'
<1>1. Typed /\ CreatesApart /\ \A o \in Txs : OnItsRow(o)
  BY DEF WorkInv
<1> USE DEF Goto, Typed, TypeOK, Creating
<1>2. ASSUME NEW o \in Txs \ {t} PROVE pc'[o] = pc[o] /\ job'[o] = job[o]
  BY <1>1, <1>2, OthersUnmoved DEF Works, Begins
<1>3. CASE /\ job'[t].row \in {job[t].row, Nobody}
           /\ pc'[t] \in Creating => pc[t] \in Creating /\ job'[t].row = job[t].row
  <2>1. ASSUME NEW o \in Txs, pc[o] \in Creating PROVE job[o].row # Nobody
    BY <1>1, <2>1, JobTypes, RowsAssumption
  <2> QED BY <1>1, <1>2, <1>3, <2>1 DEF CreatesApart
<1>4. CASE CreateBegin(t)
  <2>1. PICK u \in Users, s \in Sessions, src \in Sessions \cup {Nobody} :
           /\ \A o \in Txs : job[o].row # s
           /\ Begin(t, [NoJob EXCEPT !.op = "create", !.user = u, !.row = s, !.source = src,
                                     !.held = {licensed[u]}], "owner")
    BY <1>4 DEF CreateBegin
  <2>2. job'[t].row = s
    BY <1>1, <2>1 DEF Begin, NoJob
  <2> QED BY <1>1, <1>2, <2>1, <2>2 DEF CreatesApart
<1>5. CASE AppendBegin(t) \/ DeleteBegin(t)
  <2>1. PICK s \in Sessions : st[s] \in {"live", "ended"} /\ job'[t].row = s /\ pc'[t] \notin Creating
    <3>1. CASE AppendBegin(t)
      BY <1>1, <3>1 DEF AppendBegin, Begin, NoJob
    <3>2. CASE DeleteBegin(t)
      BY <1>1, <3>2 DEF DeleteBegin, Begin, NoJob
    <3> QED BY <1>5, <3>1, <3>2
  <2>2. \A o \in Txs : pc[o] \in Creating => job[o].row # s
    BY <1>1, <2>1 DEF OnItsRow
  <2> QED BY <1>1, <1>2, <2>1, <2>2 DEF CreatesApart
<1>6. CASE Refuse(t) \/ Inserts(t) \/ DeleteCommit(t)
  BY <1>1, <1>3, <1>6 DEF Refuse, Inserts, DeleteCommit, NoJob
<1>7. CASE Admits(t)
  <2>1. job'[t].row = job[t].row
    <3>1. job[t] \in Jobs /\ \E cap : job'[t] = [job[t] EXCEPT !.cap = cap]
      BY <1>1, <1>7 DEF Admits
    <3> QED BY <3>1 DEF Jobs
  <2> QED BY <1>1, <1>3, <1>7, <2>1 DEF Admits
<1>8. CASE Counts(t) \/ LocksFirst(t) \/ LocksNext(t)
  BY <1>1, <1>3, <1>8 DEF Counts, LocksFirst, LocksNext
<1>9. CASE AppendMeter(t)
  BY <1>1, <1>3, <1>9 DEF AppendMeter, NoJob
<1>10. CASE AutoEnd(t)
  <2>1. job'[t].row = job[t].row
    <3>1. job[t] \in Jobs /\ job'[t] = [job[t] EXCEPT !.op = "note"]
      BY <1>1, <1>10 DEF AutoEnd
    <3> QED BY <3>1 DEF Jobs
  <2> QED BY <1>1, <1>3, <1>10, <2>1 DEF AutoEnd
<1> QED BY <1>1, <1>4, <1>5, <1>6, <1>7, <1>8, <1>9, <1>10, WorkShape DEF Works, Begins

LEMMA WorkStep == WorkInv /\ [Next]_vars => WorkInv'
<1> SUFFICES ASSUME WorkInv, [Next]_vars PROVE WorkInv'
  OBVIOUS
<1>1. Typed' /\ NewRowsAreEmpty'
  BY TypedStep, EmptyStep DEF WorkInv
<1>2. ASSUME NEW t \in Txs, Works(t)
      PROVE  CreatesApart' /\ \A o \in Txs : OnItsRow(o)' /\ Holds(o)'
  <2>1. CreatesApart'
    BY <1>2, ApartStep
  <2>2. ASSUME NEW o \in Txs PROVE OnItsRow(o)' /\ Holds(o)'
    BY <1>2, OthersWork, BeginWork, OwnWork DEF Works
  <2> QED BY <2>1, <2>2
<1>3. ASSUME Elsewhere
      PROVE  CreatesApart' /\ \A o \in Txs : OnItsRow(o)' /\ Holds(o)'
  <2>1. /\ UNCHANGED <<pc, holder, owner>>
        /\ \A o \in Txs : /\ job'[o].op = job[o].op /\ job'[o].user = job[o].user
                          /\ job'[o].row = job[o].row
    <3>1. Typed
      BY DEF WorkInv
    <3> QED BY <1>3, <3>1, LicenceEffect
            DEF Elsewhere, EndSession, SetUserQuota, vars, txVars, sessionVars
  <2>2. /\ CreatesApart'
        /\ \A o \in Txs : Holds(o)'
    BY <2>1 DEF WorkInv, CreatesApart, Holds
  <2>3. \A s \in Sessions : st'[s] = st[s] \/ (st[s] = "live" /\ st'[s] = "ended")
    BY <1>3 DEF Elsewhere, EndSession, SetUserQuota, ChangeLicence, vars, sessionVars,
                WorkInv, Typed, TypeOK
  <2>4. ASSUME NEW o \in Txs PROVE OnItsRow(o)'
    <3>1. OnItsRow(o) /\ (pc[o] # "idle" => job[o].row \in Sessions)
      BY JobTypes DEF WorkInv
    <3> QED BY <2>1, <2>3, <3>1 DEF OnItsRow, Creating, Appending, Deleting
  <2> QED BY <2>2, <2>4
<1> QED BY <1>1, <1>2, <1>3, NextShape DEF WorkInv

LEMMA WorkHolds == Spec => []WorkInv
BY InitWork, WorkStep, PTL DEF Spec

-----------------------------------------------------------------------------
(* The meter. *)

Metered(u) == used[u] = Total(bytes, Owned(u))

AllMetered == \A u \in Users : Metered(u)

LEMMA MeterIsMetered == (MeterIsExact <=> AllMetered) /\ (MeterIsExact' <=> AllMetered')
<1>1. MeterIsExact <=> AllMetered
  BY MeterIsTotal DEF AllMetered, Metered
<1> QED BY <1>1, PTL

LEMMA OwnedSums ==
    ASSUME Typed, NEW u, NEW T, T \subseteq Owned(u)
    PROVE  IsFiniteSet(T) /\ (\A s \in T : bytes[s] \in Nat) /\ Total(bytes, T) \in Nat
<1>1. IsFiniteSet(T)
  BY OwnedFinite, FS_Subset
<1>2. \A s \in T : bytes[s] \in Nat
  BY DEF Owned, Typed, TypeOK
<1> QED BY <1>1, <1>2, TotalType

LEMMA MeterSame ==
    ASSUME Typed, NEW u \in Users, Metered(u),
           used'[u] = used[u], Owned(u)' = Owned(u), \A s \in Owned(u) : bytes'[s] = bytes[s]
    PROVE  Metered(u)'
<1>1. Total(bytes', Owned(u)) = Total(bytes, Owned(u))
  BY OwnedFinite, TotalSame
<1> QED BY <1>1 DEF Metered

(* An append adds to the row and to its owner's meter alike. *)
LEMMA AppendMetered ==
    ASSUME WorkInv, NEW t \in Txs, AppendMeter(t), NEW u \in Users, Metered(u)
    PROVE  Metered(u)'
<1> DEFINE s == job[t].row
<1>1. Typed /\ job[t].user \in Users /\ s \in Sessions
  BY JobTypes DEF WorkInv, AppendMeter
<1>2. /\ used' = [used EXCEPT ![job[t].user] = @ + 1]
      /\ bytes' = [bytes EXCEPT ![s] = @ + 1]
      /\ Owned(u)' = Owned(u)
  BY DEF AppendMeter, Owned
<1>3. owner[s] = job[t].user /\ st[s] \in {"live", "ended"}
  BY DEF AppendMeter, WorkInv, OnItsRow, Appending
<1>4. CASE u # job[t].user
  <2>1. s \notin Owned(u)
    BY <1>3, <1>4 DEF Owned
  <2> QED BY <1>1, <1>2, <1>4, <2>1, MeterSame DEF Owned, Typed, TypeOK
<1>5. CASE u = job[t].user
  <2> DEFINE rest == Owned(u) \ {s}
  <2>1. s \in Owned(u)
    BY <1>1, <1>3, <1>5 DEF Owned
  <2>2. Owned(u) \subseteq Sessions /\ rest \subseteq Owned(u)
    BY DEF Owned
  <2>3. /\ IsFiniteSet(Owned(u)) /\ IsFiniteSet(rest)
        /\ Total(bytes, rest) \in Nat /\ \A x \in Owned(u) : bytes[x] \in Nat
    BY <1>1, <2>2, OwnedSums
  <2>4. /\ bytes'[s] = bytes[s] + 1 /\ \A x \in rest : bytes'[x] = bytes[x]
        /\ used'[u] = used[u] + 1
    BY <1>1, <1>2, <1>5, <2>2 DEF Typed, TypeOK
  <2>5. \A x \in Owned(u) : bytes'[x] \in Nat
    BY <2>1, <2>3, <2>4
  <2> HIDE DEF rest, s
  <2>6. Total(bytes, Owned(u)) = bytes[s] + Total(bytes, Owned(u) \ {s})
    BY <2>1, <2>3, TotalOut
  <2>7. Total(bytes', Owned(u)) = bytes'[s] + Total(bytes', Owned(u) \ {s})
    BY <2>1, <2>3, <2>5, TotalOut
  <2>8. Total(bytes', rest) = Total(bytes, rest)
    BY <2>3, <2>4, TotalSame
  <2>9. used'[u] = Total(bytes', Owned(u))
    BY <2>1, <2>3, <2>4, <2>6, <2>7, <2>8 DEF Metered, rest
  <2> QED BY <1>2, <2>9 DEF Metered
<1> QED BY <1>4, <1>5

(* A create adds a row that holds nothing. *)
LEMMA InsertMetered ==
    ASSUME WorkInv, NEW t \in Txs, Inserts(t), NEW u \in Users, Metered(u)
    PROVE  Metered(u)'
<1> DEFINE s == job[t].row
<1>1. Typed /\ job[t].user \in Users /\ s \in Sessions
  BY JobTypes DEF WorkInv, Inserts
<1>2. st[s] = "none" /\ bytes[s] = 0
  BY <1>1 DEF Inserts, WorkInv, OnItsRow, Creating, NewRowsAreEmpty
<1>3. /\ st' = [st EXCEPT ![s] = "live"] /\ owner' = [owner EXCEPT ![s] = job[t].user]
      /\ UNCHANGED <<used, bytes>>
  BY DEF Inserts
<1>4. CASE u # job[t].user
  <2>1. Owned(u)' = Owned(u)
    BY <1>1, <1>2, <1>3, <1>4 DEF Owned, Typed, TypeOK
  <2> QED BY <1>1, <1>3, <2>1, MeterSame
<1>5. CASE u = job[t].user
  <2>1. Owned(u)' = Owned(u) \cup {s} /\ s \notin Owned(u)
    BY <1>1, <1>2, <1>3, <1>5 DEF Owned, Typed, TypeOK
  <2>2. /\ IsFiniteSet(Owned(u)) /\ IsFiniteSet(Owned(u)')
        /\ \A x \in Owned(u)' : bytes[x] \in Nat
    <3>1. IsFiniteSet(Owned(u)) /\ IsFiniteSet(Owned(u)')
      BY OwnedFinite, OwnedFiniteNext
    <3>2. \A x \in Owned(u)' : bytes[x] \in Nat
      BY <1>1 DEF Owned, Typed, TypeOK
    <3> QED BY <3>1, <3>2
  <2>3. s \in Owned(u)' /\ Owned(u)' \ {s} = Owned(u) /\ Total(bytes, Owned(u)) \in Nat
    BY <1>1, <2>1, OwnedSums
  <2>4. Total(bytes, Owned(u)') = bytes[s] + Total(bytes, Owned(u)' \ {s})
    <3> HIDE DEF s
    <3> QED BY <2>2, <2>3, TotalOut
  <2>5. used'[u] = Total(bytes, Owned(u)')
    <3>1. Total(bytes, Owned(u)') = 0 + Total(bytes, Owned(u))
      BY <1>2, <2>3, <2>4
    <3>2. Total(bytes, Owned(u)') = Total(bytes, Owned(u))
      BY <3>1, <2>3
    <3> QED BY <1>3, <3>2 DEF Metered
  <2>6. Total(bytes, Owned(u)') = Total(bytes', Owned(u)')
    BY <1>3
  <2> QED BY <2>5, <2>6 DEF Metered
<1> QED BY <1>4, <1>5

(* A delete credits what the row holds; the meter covers it. *)
LEMMA DeleteMetered ==
    ASSUME WorkInv, NEW t \in Txs, DeleteCommit(t), NEW u \in Users, Metered(u)
    PROVE  Metered(u)'
<1> DEFINE s == job[t].row
<1>1. Typed /\ job[t].user \in Users /\ s \in Sessions
  BY JobTypes DEF WorkInv, DeleteCommit
<1>2. owner[s] = job[t].user /\ st[s] \in {"live", "ended"}
  BY DEF DeleteCommit, WorkInv, OnItsRow, Deleting
<1>3. /\ used' = [used EXCEPT ![job[t].user] = IF @ > bytes[s] THEN @ - bytes[s] ELSE 0]
      /\ st' = [st EXCEPT ![s] = "deleted"] /\ bytes' = [bytes EXCEPT ![s] = 0]
      /\ UNCHANGED owner
  BY DEF DeleteCommit
<1>4. Owned(u)' = Owned(u) \ {s}
  BY <1>1, <1>3 DEF Owned, Typed, TypeOK
<1>5. CASE u # job[t].user
  <2>1. s \notin Owned(u)
    BY <1>2, <1>5 DEF Owned
  <2>2. Owned(u)' = Owned(u) /\ used'[u] = used[u] /\ \A x \in Owned(u) : bytes'[x] = bytes[x]
    BY <1>1, <1>3, <1>4, <1>5, <2>1 DEF Owned, Typed, TypeOK
  <2> QED BY <1>1, <2>2, MeterSame
<1>6. CASE u = job[t].user
  <2> DEFINE rest == Owned(u) \ {s}
  <2>1. s \in Owned(u) /\ rest \subseteq Owned(u) /\ rest \subseteq Sessions
    BY <1>1, <1>2, <1>6 DEF Owned
  <2>2. /\ IsFiniteSet(Owned(u)) /\ IsFiniteSet(rest)
        /\ Total(bytes, rest) \in Nat /\ \A x \in Owned(u) : bytes[x] \in Nat
    BY <1>1, <2>1, OwnedSums
  <2>3. /\ \A x \in rest : bytes'[x] = bytes[x]
        /\ used'[u] = IF used[u] > bytes[s] THEN used[u] - bytes[s] ELSE 0
    BY <1>1, <1>3, <1>6, <2>1 DEF Typed, TypeOK
  <2> HIDE DEF rest, s
  <2>4. Total(bytes, Owned(u)) = bytes[s] + Total(bytes, Owned(u) \ {s})
    BY <2>1, <2>2, TotalOut
  <2>5. Total(bytes', rest) = Total(bytes, rest)
    BY <2>2, <2>3, TotalSame
  <2>6. used'[u] = Total(bytes, rest)
    BY <2>1, <2>2, <2>3, <2>4 DEF Metered, rest
  <2> QED BY <1>4, <2>5, <2>6 DEF Metered, rest
<1> QED BY <1>5, <1>6

LEMMA MeterStep == WorkInv /\ MeterIsExact /\ [Next]_vars => MeterIsExact'
<1> SUFFICES ASSUME WorkInv, MeterIsExact, [Next]_vars, NEW u \in Users
             PROVE  Metered(u)'
  BY MeterIsMetered DEF AllMetered
<1>1. Typed /\ Metered(u)
  BY MeterIsMetered DEF AllMetered, WorkInv
<1>2. CASE UNCHANGED <<used, st, owner, bytes>>
  <2>1. Owned(u)' = Owned(u)
    BY <1>2 DEF Owned
  <2> QED BY <1>1, <1>2, <2>1, MeterSame
<1>3. CASE (\E s \in Sessions : EndSession(s)) \/ (\E t \in Txs : AutoEnd(t))
  <2>1. UNCHANGED <<used, owner, bytes>>
    BY <1>3 DEF EndSession, AutoEnd
  <2>2. \A s \in Sessions : st'[s] = st[s] \/ (st[s] = "live" /\ st'[s] = "ended")
    BY <1>1, <1>3 DEF EndSession, AutoEnd, Typed, TypeOK
  <2>3. Owned(u)' = Owned(u)
    BY <2>1, <2>2 DEF Owned
  <2> QED BY <1>1, <2>1, <2>3, MeterSame
<1>4. ASSUME NEW t \in Txs, Works(t) PROVE Metered(u)'
  <2>1. CASE \/ Refuse(t) \/ Admits(t) \/ Counts(t) \/ LocksFirst(t) \/ LocksNext(t)
             \/ Begins(t)
    BY <1>2, <2>1, BeginEffect DEF Refuse, Admits, Counts, LocksFirst, LocksNext, sessionVars
  <2>2. CASE AutoEnd(t)
    BY <1>3, <2>2
  <2> QED BY <1>1, <1>4, <2>1, <2>2, AppendMetered, InsertMetered, DeleteMetered, WorkShape
          DEF Works
<1>5. CASE Elsewhere
  BY <1>2, <1>3, <1>5 DEF Elsewhere, SetUserQuota, ChangeLicence, vars, sessionVars
<1> QED BY <1>4, <1>5, NextShape

(* Whatever runs at once, what a user is charged for is what the user's     *)
(* sessions hold.                                                           *)
THEOREM MeterExact == Spec => []MeterIsExact
<1>1. Init => MeterIsExact
  <2> SUFFICES ASSUME Init, NEW u \in Users PROVE Metered(u)
    BY MeterIsMetered DEF AllMetered
  <2>1. Owned(u) = {} /\ used[u] = 0
    BY DEF Init, Owned
  <2>2. Total(bytes, {}) = 0
    BY FS_EmptySet, TotalUnfolds
  <2> QED BY <2>1, <2>2 DEF Metered
<1>2. WorkInv /\ MeterIsExact /\ [Next]_vars => MeterIsExact'
  BY MeterStep
<1> QED BY <1>1, <1>2, WorkHolds, PTL DEF Spec

-----------------------------------------------------------------------------
(* The circles. *)

(* What a handler wants that has nothing to do with a fork; what it holds    *)
(* by then is its session, and what it lacks next is its owner.             *)
LEMMA PlainWants ==
    ASSUME WorkInv, NEW t \in Txs, ~Forking(t), NEW x \in Wants(t)
    PROVE  /\ x \in Rows
           /\ pc[t] \in {"owner", "row", "erase", "autoend", "meter", "credit"}
           /\ pc[t] \in {"meter", "credit"} => x = job[t].user
<1>1. Typed /\ OnItsRow(t)
  BY DEF WorkInv
<1>2. pc[t] \in {"idle", "owner", "count", "insert", "row", "meter", "autoend",
                 "erase", "credit", "unfork"}
  BY <1>1 DEF Typed, TypeOK
<1>3. CASE pc[t] \in {"idle", "count"}
  BY <1>3 DEF Wants
<1>4. CASE pc[t] = "insert"
  BY <1>1, <1>4 DEF Wants, OnItsRow, Creating, Forking
<1>5. CASE pc[t] = "unfork"
  BY <1>1, <1>5 DEF Wants, OnItsRow, Deleting, Forking
<1>6. CASE pc[t] \in {"owner", "row", "erase", "autoend", "meter", "credit"}
  <2>1. job[t].row \in Rows /\ job[t].user \in Rows
    BY <1>1, <1>6, JobTypes
  <2> QED BY <1>6, <2>1 DEF Wants, AppendOrder
<1> QED BY <1>2, <1>3, <1>4, <1>5, <1>6

LEMMA NoPlainCircle == WorkInv => CirclesInvolveForks
<1> SUFFICES ASSUME WorkInv, NEW T \in SUBSET Txs, Circle(T), \A t \in T : ~Forking(t)
             PROVE  FALSE
  BY DEF CirclesInvolveForks
(* Every member waits for one that holds its session and wants its owner.   *)
<1>1. ASSUME NEW t \in T
      PROVE  \E x \in Wants(t), o \in T :
               /\ holder[x] = o /\ x = job[o].row /\ x \in Sessions
               /\ pc[o] \in {"meter", "credit"}
  <2>1. PICK x \in Wants(t) : holder[x] \in T \ {t}
    BY DEF Circle
  <2> DEFINE o == holder[x]
  <2>2. x \in Rows /\ o \in Txs
    BY <2>1, PlainWants
  <2>3. pc[o] \in {"count", "insert", "meter", "credit", "unfork"}
        /\ (pc[o] \in {"meter", "credit"} => x = job[o].row)
    BY <2>2 DEF WorkInv, Holds
  <2>4. PICK y \in Wants(o) : TRUE
    BY <2>1 DEF Circle
  <2>5. pc[o] \in {"meter", "credit"}
    BY <2>1, <2>2, <2>3, <2>4, PlainWants
  <2>6. x = job[o].row /\ x \in Sessions
    BY <2>2, <2>3, <2>5, JobTypes DEF WorkInv
  <2> QED BY <2>1, <2>5, <2>6
<1>2. PICK t \in T : TRUE
  BY DEF Circle
<1>3. PICK o \in T : pc[o] \in {"meter", "credit"}
  BY <1>1, <1>2
<1>4. PICK y \in Wants(o) : y \in Sessions
  BY <1>1
<1>5. y = job[o].user /\ job[o].user \in Users
  BY <1>3, <1>4, PlainWants, JobTypes DEF WorkInv
<1> QED BY <1>4, <1>5, RowsAssumption

(* Handlers that wait for each other in a circle: a fork is involved.        *)
THEOREM CirclesForkHolds == Spec => []CirclesInvolveForks
BY WorkHolds, NoPlainCircle, PTL
=============================================================================
