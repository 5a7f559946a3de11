----------------------------- MODULE SessionLog -----------------------------
(***************************************************************************)
(* One session of the Go API: its Postgres row and event log, its Redis    *)
(* keys (the seq counter and the replay buffer), its pub/sub channel and   *)
(* its archive file, under every handler that writes them at the same      *)
(* time.                                                                   *)
(*                                                                         *)
(* A handler is a goroutine that makes one store, bus or disk call after   *)
(* another and holds nothing in between, so each call is one action and    *)
(* the goroutine's position is its pc.  Three kinds of calls are modelled: *)
(*   - an emitter runs POST /events (EmitEvent), and, when its event       *)
(*     crosses the owner's storage limit, handleQuotaCrossing;             *)
(*   - an ender runs POST /stop, the abandoned-agent reaper's              *)
(*     StopAndArchive or the idle reaper;                                  *)
(*   - an ender may instead run DELETE /sessions/{id}.                     *)
(* Every emitter and every ender is one call, so the number of calls       *)
(* bounds a run; nothing else is bounded.                                  *)
(***************************************************************************)
EXTENDS Integers, Sequences, FiniteSets

CONSTANTS
    Emitters,   \* POST /events calls
    Enders,     \* stop, reap and delete calls
    Viewers,    \* connections that may be subscribed to the session channel
    Limit       \* the owner's storage limit, in events (every event weighs 1)

ASSUME LimitAssumption == Limit \in Nat \ {0}
ASSUME CallsAssumption == Emitters \cap Enders = {}

VARIABLES
    status,      \* sessions.status, or "deleted" once the row is gone
    endedReason, \* sessions.ended_reason
    storageKey,  \* whether sessions.storage_key is set
    eventCount,  \* sessions.event_count
    log,         \* the seqs of the session's rows in session_events
    seqKey,      \* Redis session:{id}:seq (0: the key does not exist)
    buffer,      \* Redis session:{id}:buffer, the replay list
    blob,        \* the file sessions/{id}/raw.json
    subscribed,  \* connections subscribed to session:{id}:events
    queue,       \* per connection, the frames published and not yet read
    pc,          \* next call of each emitter and ender
    leg,         \* what an emitter is emitting: its event or the quota note
    mySeq,       \* the seq an emitter was allocated
    crossed,     \* whether an emitter's event crossed the storage limit
    snapshot,    \* the buffer an ender read, to be archived
    handoff      \* the seq an emitter's handoff code is pinned at (0: none)

rowVars  == <<status, endedReason, storageKey, eventCount, log>>
redisVars == <<seqKey, buffer>>
busVars  == <<subscribed, queue>>
emitVars == <<leg, mySeq, crossed, handoff>>
vars == <<rowVars, redisVars, blob, busVars, pc, emitVars, snapshot>>

Calls == Emitters \cup Enders

EmitPCs == {"check", "incr", "append", "push", "publish", "autoend", "maxseq"}
EndPCs  == {"check", "read", "put", "row", "tell", "drop",
            "delTell", "delRow", "delKeys", "delBlob"}
Over    == {"done", "failed"}

Frame == [type : {"event", "ended", "deleted"}, seq : Nat]
EventFrame(n) == [type |-> "event", seq |-> n]
EndedFrame    == [type |-> "ended", seq |-> 0]
DeletedFrame  == [type |-> "deleted", seq |-> 0]

NoFile == [exists |-> FALSE, body |-> <<>>]

Entries(s) == {s[i] : i \in 1..Len(s)}

Goto(c, label) == pc' = [pc EXCEPT ![c] = label]

(* Redis PUBLISH: every connection subscribed at that moment gets a copy. *)
Publish(frame) ==
    /\ queue' = [v \in Viewers |->
                    IF v \in subscribed THEN Append(queue[v], frame) ELSE queue[v]]
    /\ UNCHANGED subscribed

Init ==
    /\ status = "live" /\ endedReason = "none" /\ storageKey = FALSE
    /\ eventCount = 0 /\ log = {}
    /\ seqKey = 0 /\ buffer = <<>> /\ blob = NoFile
    /\ subscribed = {} /\ queue = [v \in Viewers |-> <<>>]
    /\ pc = [c \in Calls |-> "check"]
    /\ leg = [r \in Emitters |-> "event"]
    /\ mySeq = [r \in Emitters |-> 0]
    /\ crossed = [r \in Emitters |-> FALSE]
    /\ handoff = [r \in Emitters |-> 0]
    /\ snapshot = [e \in Enders |-> <<>>]

-----------------------------------------------------------------------------
(* The emit pipeline. *)

(* EmitEvent: the row is read once, and must be live at that moment. *)
EmitCheck(r) ==
    /\ pc[r] = "check"
    /\ Goto(r, IF status = "live" THEN "incr" ELSE "done")
    /\ UNCHANGED <<rowVars, redisVars, blob, busVars, emitVars, snapshot>>

MaxSeq == IF log = {} THEN 0 ELSE CHOOSE n \in log : \A m \in log : m <= n

(* bus.NextSeq: INCR creates a missing key at 1.  Two mutated forms: the    *)
(* counter's old value, and a read of the log instead of the counter.       *)
NextSeq_OldValue == seqKey
NextSeq_FromLog  == MaxSeq + 1
NextSeq == seqKey + 1

EmitIncr(r) ==
    /\ pc[r] = "incr"
    /\ seqKey' = seqKey + 1
    /\ mySeq' = [mySeq EXCEPT ![r] = NextSeq]
    /\ Goto(r, "append")
    /\ UNCHANGED <<rowVars, buffer, blob, busVars, leg, crossed, handoff, snapshot>>

(* store.AppendEvent, one transaction.  The status is not looked at again: *)
(* only a missing row (foreign key) or a taken seq (UNIQUE) refuses it.    *)
(* Mutated form: a session_events table without its UNIQUE constraint.     *)
AppendRefused_NoUnique(r) == status = "deleted"
AppendRefused(r) == status = "deleted" \/ mySeq[r] \in log

(* The event that reaches the limit crosses it.  Mutated form: only the one *)
(* that exceeds it.                                                         *)
Crosses_Late(count) == count > Limit
Crosses(count) == count >= Limit

EmitAppend(r) ==
    /\ pc[r] = "append"
    /\ ~AppendRefused(r)
    /\ log' = log \cup {mySeq[r]}
    /\ eventCount' = eventCount + 1
    /\ crossed' = [crossed EXCEPT ![r] = leg[r] = "event" /\ Crosses(eventCount + 1)]
    /\ Goto(r, "push")
    /\ UNCHANGED <<status, endedReason, storageKey, redisVars, blob, busVars,
                   leg, mySeq, handoff, snapshot>>

(* A refused event is a 500 to the client; a refused quota note is ignored. *)
EmitRefused(r) ==
    /\ pc[r] = "append"
    /\ AppendRefused(r)
    /\ Goto(r, IF leg[r] = "event" THEN "failed" ELSE "maxseq")
    /\ UNCHANGED <<rowVars, redisVars, blob, busVars, emitVars, snapshot>>

(* bus.BufferPush. *)
EmitPush(r) ==
    /\ pc[r] = "push"
    /\ buffer' = Append(buffer, mySeq[r])
    /\ Goto(r, "publish")
    /\ UNCHANGED <<rowVars, seqKey, blob, busVars, emitVars, snapshot>>

(* bus.Publish, then the handler's own decision: a crossing event goes on   *)
(* to handleQuotaCrossing, the note goes on to the handoff code.            *)
EmitPublish(r) ==
    /\ pc[r] = "publish"
    /\ Publish(EventFrame(mySeq[r]))
    /\ Goto(r, IF leg[r] = "note" THEN "maxseq"
               ELSE IF crossed[r] THEN "autoend" ELSE "done")
    /\ UNCHANGED <<rowVars, redisVars, blob, emitVars, snapshot>>

(* handleQuotaCrossing, first step: AutoEndQuota ends a row that is still   *)
(* live; either way the quota_exceeded note is emitted next.                *)
QuotaEnd(r) ==
    /\ pc[r] = "autoend"
    /\ IF status = "live"
         THEN status' = "ended" /\ endedReason' = "quota"
         ELSE UNCHANGED <<status, endedReason>>
    /\ leg' = [leg EXCEPT ![r] = "note"]
    /\ Goto(r, "incr")
    /\ UNCHANGED <<storageKey, eventCount, log, redisVars, blob, busVars,
                   mySeq, crossed, handoff, snapshot>>

(* handleQuotaCrossing, last step: the handoff code is pinned at MaxSeq.    *)
QuotaHandoff(r) ==
    /\ pc[r] = "maxseq"
    /\ handoff' = [handoff EXCEPT ![r] = MaxSeq]
    /\ Goto(r, "done")
    /\ UNCHANGED <<rowVars, redisVars, blob, busVars, leg, mySeq, crossed, snapshot>>

Emit(r) ==
    \/ EmitCheck(r) \/ EmitIncr(r) \/ EmitAppend(r) \/ EmitRefused(r)
    \/ EmitPush(r) \/ EmitPublish(r) \/ QuotaEnd(r) \/ QuotaHandoff(r)

-----------------------------------------------------------------------------
(* Ending a session. *)

(* Stop reads the row and goes on only if it is live; the abandoned-agent   *)
(* reaper lists live rows.  From there both run the same steps.             *)
StopCheck(e) ==
    /\ pc[e] = "check"
    /\ Goto(e, IF status = "live" THEN "read" ELSE "done")
    /\ UNCHANGED <<rowVars, redisVars, blob, busVars, emitVars, snapshot>>

(* bus.BufferAll. *)
StopRead(e) ==
    /\ pc[e] = "read"
    /\ snapshot' = [snapshot EXCEPT ![e] = buffer]
    /\ Goto(e, "put")
    /\ UNCHANGED <<rowVars, redisVars, blob, busVars, emitVars>>

(* blob.Put: the file has one name per session and is overwritten.  Mutated *)
(* form: the buffer is dropped before the row is ended.                     *)
StopPut_DropFirst(e) ==
    /\ pc[e] = "put"
    /\ blob' = [exists |-> TRUE, body |-> snapshot[e]]
    /\ Goto(e, "drop")
    /\ UNCHANGED <<rowVars, redisVars, busVars, emitVars, snapshot>>

StopPut(e) ==
    /\ pc[e] = "put"
    /\ blob' = [exists |-> TRUE, body |-> snapshot[e]]
    /\ Goto(e, "row")
    /\ UNCHANGED <<rowVars, redisVars, busVars, emitVars, snapshot>>

(* store.StopSession: a conditional UPDATE, no error when it matches        *)
(* nothing.  Mutated form: WHERE id = $1 alone.                             *)
StopMatches_AnyRow == status # "deleted"
StopMatches == status = "live"

StopRow(e) ==
    /\ pc[e] = "row"
    /\ IF StopMatches
         THEN status' = "ended" /\ storageKey' = TRUE
         ELSE UNCHANGED <<status, storageKey>>
    /\ Goto(e, "tell")
    /\ UNCHANGED <<endedReason, eventCount, log, redisVars, blob, busVars,
                   emitVars, snapshot>>

(* EndIdleSessions: one UPDATE over the live rows whose last event is older *)
(* than a day.  It judges the age on the statement's snapshot and then       *)
(* waits for the row lock, so an append that holds the lock may commit       *)
(* between the two: no position of an emitter is excluded.  Mutated form:    *)
(* the reaper tells nobody.                                                  *)
IdleEnd_Silent(e) ==
    /\ pc[e] = "check"
    /\ status = "live"
    /\ status' = "ended"
    /\ Goto(e, "drop")
    /\ UNCHANGED <<endedReason, storageKey, eventCount, log, redisVars, blob,
                   busVars, emitVars, snapshot>>

IdleEnd(e) ==
    /\ pc[e] = "check"
    /\ status = "live"
    /\ status' = "ended"
    /\ Goto(e, "tell")
    /\ UNCHANGED <<endedReason, storageKey, eventCount, log, redisVars, blob,
                   busVars, emitVars, snapshot>>

(* Publish session_ended on the viewer channel. *)
EndTell(e) ==
    /\ pc[e] = "tell"
    /\ Publish(EndedFrame)
    /\ Goto(e, "drop")
    /\ UNCHANGED <<rowVars, redisVars, blob, emitVars, snapshot>>

(* bus.BufferDelete drops the seq counter along with the buffer. *)
EndDrop(e) ==
    /\ pc[e] = "drop"
    /\ seqKey' = 0 /\ buffer' = <<>>
    /\ Goto(e, "done")
    /\ UNCHANGED <<rowVars, blob, busVars, emitVars, snapshot>>

-----------------------------------------------------------------------------
(* Deleting a session. *)

DeleteCheck(e) ==
    /\ pc[e] = "check"
    /\ Goto(e, IF status # "deleted" THEN "delTell" ELSE "done")
    /\ UNCHANGED <<rowVars, redisVars, blob, busVars, emitVars, snapshot>>

DeleteTell(e) ==
    /\ pc[e] = "delTell"
    /\ Publish(DeletedFrame)
    /\ Goto(e, "delRow")
    /\ UNCHANGED <<rowVars, redisVars, blob, emitVars, snapshot>>

(* store.DeleteSession: the row and, by cascade, its events. *)
DeleteRow(e) ==
    /\ pc[e] = "delRow"
    /\ status' = "deleted" /\ log' = {} /\ eventCount' = 0
    /\ endedReason' = "none" /\ storageKey' = FALSE
    /\ Goto(e, "delKeys")
    /\ UNCHANGED <<redisVars, blob, busVars, emitVars, snapshot>>

(* bus.DeleteSessionKeys. *)
DeleteKeys(e) ==
    /\ pc[e] = "delKeys"
    /\ seqKey' = 0 /\ buffer' = <<>>
    /\ Goto(e, "delBlob")
    /\ UNCHANGED <<rowVars, blob, busVars, emitVars, snapshot>>

(* blob.Delete removes sessions/{id}. *)
DeleteBlob(e) ==
    /\ pc[e] = "delBlob"
    /\ blob' = NoFile
    /\ Goto(e, "done")
    /\ UNCHANGED <<rowVars, redisVars, busVars, emitVars, snapshot>>

End(e) ==
    \/ StopCheck(e) \/ StopRead(e) \/ StopPut(e) \/ StopRow(e)
    \/ IdleEnd(e) \/ EndTell(e) \/ EndDrop(e)
    \/ DeleteCheck(e) \/ DeleteTell(e) \/ DeleteRow(e) \/ DeleteKeys(e) \/ DeleteBlob(e)

-----------------------------------------------------------------------------
(* The client of a call goes away: its request context is cancelled, every  *)
(* store and bus call left fails, and the handler returns.  The disk calls  *)
(* take no context, so an archive about to be written is still written and  *)
(* a delete whose key purge failed still removes the file.                  *)
Cancel(c) ==
    /\ pc[c] \notin Over \cup {"check", "put", "delBlob"}
    /\ Goto(c, IF pc[c] = "delKeys" THEN "delBlob" ELSE "failed")
    /\ UNCHANGED <<rowVars, redisVars, blob, busVars, emitVars, snapshot>>

(* The server process dies: every call and every connection dies with it.   *)
(* Postgres, Redis and the disk keep what they have.                        *)
Crash ==
    /\ pc' = [c \in Calls |-> IF pc[c] \in Over \cup {"check"} THEN pc[c] ELSE "failed"]
    /\ subscribed' = {} /\ queue' = [v \in Viewers |-> <<>>]
    /\ UNCHANGED <<rowVars, redisVars, blob, emitVars, snapshot>>

Next ==
    \/ \E r \in Emitters : Emit(r)
    \/ \E e \in Enders : End(e)
    \/ \E c \in Calls : Cancel(c)
    \/ Crash

Spec == Init /\ [][Next]_vars

(* Goroutines run: a call that has a step left takes it.  Clients owe us     *)
(* nothing: no call has to arrive and none has to be cancelled.             *)
FairSpec ==
    /\ Spec
    /\ \A r \in Emitters : WF_vars(pc[r] # "check" /\ Emit(r))
    /\ \A e \in Enders : WF_vars(pc[e] # "check" /\ End(e))

-----------------------------------------------------------------------------
(* Properties. *)

TypeOK ==
    /\ status \in {"live", "ended", "deleted"}
    /\ endedReason \in {"none", "quota"}
    /\ storageKey \in BOOLEAN
    /\ eventCount \in Nat
    /\ log \subseteq Nat \ {0}
    /\ seqKey \in Nat
    /\ buffer \in Seq(Nat)
    /\ blob \in [exists : BOOLEAN, body : Seq(Nat)]
    /\ subscribed \subseteq Viewers
    /\ queue \in [Viewers -> Seq(Frame)]
    /\ pc \in [Calls -> EmitPCs \cup EndPCs \cup Over]
    /\ leg \in [Emitters -> {"event", "note"}]
    /\ mySeq \in [Emitters -> Nat]
    /\ crossed \in [Emitters -> BOOLEAN]
    /\ snapshot \in [Enders -> Seq(Nat)]
    /\ handoff \in [Emitters -> Nat]

(* While the session is live no allocated seq can collide: the seqs of the  *)
(* emitters about to append are all different and none is in the log, so    *)
(* no capture client ever sees a 500 for a seq the server chose.  (The      *)
(* counter is deleted when a session ends; this holds because nobody        *)
(* deletes it before the row has stopped being live.)                       *)
LiveSeqsAreFresh ==
    status = "live" =>
        \A r \in Emitters : pc[r] = "append" =>
            /\ mySeq[r] \notin log
            /\ \A q \in Emitters \ {r} : pc[q] = "append" => mySeq[q] # mySeq[r]

(* The replay buffer never shows a viewer what the database does not hold,  *)
(* nor the same event twice, even when emitters race an ender that resets   *)
(* the seq counter.                                                         *)
BufferIsPersisted ==
    status # "deleted" =>
        /\ Entries(buffer) \subseteq log
        /\ \A i, j \in 1..Len(buffer) : buffer[i] = buffer[j] => i = j

(* sessions.event_count is the number of rows in session_events, whatever   *)
(* calls were refused or cancelled halfway.                                 *)
CountIsExact == eventCount = Cardinality(log)

(* While a session is live, an event is missing from the replay buffer only *)
(* if its emitter is about to push it or was cancelled before it could.     *)
ReplayIsComplete ==
    status = "live" =>
        \A n \in log : n \in Entries(buffer) \/
            \E r \in Emitters : mySeq[r] = n /\ pc[r] \in {"push", "failed"}

(* A session ends once: one that ran out of quota is not afterwards         *)
(* restamped by a stop that read the row while it was live.                 *)
OneEnding == ~(endedReason = "quota" /\ storageKey)

(* An owner over the limit loses the live session, unless a capture client  *)
(* hung up, or the server died, in the middle of a call.                    *)
CrossingEndsSession ==
    eventCount >= Limit ~> (status # "live" \/ \E r \in Emitters : pc[r] = "failed")

(* A session keeps what SessionLedger promises: entries are recorded one at *)
(* a time and never lost before a delete, counted exactly, and the session  *)
(* ends at most once.                                                       *)
Ledger == INSTANCE SessionLedger WITH
    phase   <- CASE status = "live" -> "live" [] status = "ended" -> "over"
                 [] OTHER -> "gone",
    outcome <- IF endedReason = "quota" THEN "quota"
               ELSE IF storageKey THEN "archived" ELSE "none",
    entries <- log,
    count   <- eventCount

ImplementsLedger == Ledger!Spec

-----------------------------------------------------------------------------
(* The inductive invariant behind the safety properties.                    *)

(* Each call runs its own handler; an emitter past its check never returns. *)
PcOK ==
    /\ \A r \in Emitters : pc[r] \in EmitPCs \cup Over
    /\ \A e \in Enders : pc[e] \in EndPCs \cup Over

(* Nobody appends without an allocated seq.                                 *)
Allocated == \A r \in Emitters : pc[r] = "append" => mySeq[r] # 0

(* The counter is ahead of the log as long as nobody may have dropped it.   *)
SeqsAhead ==
    status = "live" =>
        /\ log \subseteq 1..seqKey
        /\ \A r \in Emitters : pc[r] = "append" => mySeq[r] \in 1..seqKey

(* Whoever is about to drop keys has moved the row first.                   *)
RowBeforeKeys ==
    \A e \in Enders :
        /\ pc[e] \in {"tell", "drop"} => status # "live"
        /\ pc[e] \in {"delKeys", "delBlob"} => status = "deleted"

(* An emitter about to push holds a seq that is in the log, that is not in  *)
(* the buffer, and that no other emitter about to push holds.               *)
PushesAreNew ==
    status # "deleted" =>
        \A r \in Emitters : pc[r] = "push" =>
            /\ mySeq[r] \in log \ Entries(buffer)
            /\ \A q \in Emitters \ {r} : pc[q] = "push" => mySeq[q] # mySeq[r]

EndedOnce ==
    /\ endedReason = "quota" \/ storageKey => status = "ended"
    /\ OneEnding

Inv ==
    /\ TypeOK /\ PcOK /\ Allocated /\ SeqsAhead /\ RowBeforeKeys /\ PushesAreNew /\ EndedOnce
    /\ LiveSeqsAreFresh /\ BufferIsPersisted /\ ReplayIsComplete
    /\ IsFiniteSet(log) /\ CountIsExact

-----------------------------------------------------------------------------
(* What comments in the source say, and the code does not do. *)

(* stop.go: Stop is idempotent, an already ended session is returned        *)
(* unchanged.  So the archive a row's storage_key names keeps its content   *)
(* until the session is deleted.                                            *)
StopIsIdempotent == [][storageKey /\ storageKey' => blob' = blob]_vars

(* delete.go: every trace of a deleted session is removed, its Redis keys   *)
(* and its archive included.  So once every call is over, and none of them  *)
(* failed, nothing is left.                                                 *)
DeletedLeavesNoTrace ==
    (status = "deleted" /\ \A c \in Calls : pc[c] = "done") =>
        seqKey = 0 /\ buffer = <<>> /\ ~blob.exists
=============================================================================
