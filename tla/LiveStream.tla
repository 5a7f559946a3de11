----------------------------- MODULE LiveStream -----------------------------
(***************************************************************************)
(* GET /sessions/{id}/stream against the session of SessionLog: a viewer   *)
(* connects, is replayed what it does not hold, follows the channel, drops *)
(* and resumes with Last-Event-ID.                                         *)
(*                                                                         *)
(* The handler subscribes, reads the replay buffer, writes it out, then    *)
(* reads its channel; each call and each write is one action, and emitters *)
(* and enders run in between.                                              *)
(* The client is the web page: it loads the session once and opens the     *)
(* stream at the highest seq it holds.  What it fetches after a reopen is  *)
(* in StreamGap.                                                           *)
(* SUBSCRIBE is taken to be in force before the handler's LRANGE, and a    *)
(* subscribed connection to lose no frame while it stays connected.        *)
(***************************************************************************)
EXTENDS SessionLog, SequencesExt

CONSTANT MaxConnects   \* how often one viewer may open the stream

ASSUME ConnectsAssumption == MaxConnects \in Nat

VARIABLES
    vpc,      \* where each viewer's stream handler is
    connects, \* how many streams it has opened
    since,    \* Stream's since: what the client said it holds
    unsent,   \* Stream's buffered, or events: what is left to replay
    seen,     \* Stream's seen: replayed seqs whose live copy may come
    got,      \* the seqs sent on this connection, in order
    lastId,   \* the seq the page resumes from
    early,    \* whether it subscribed while the row was live
    leaving   \* whether the page was told the session is over

streamVars == <<vpc, since, unsent, seen, got, early>>
pageVars   == <<connects, lastId, leaving>>
logVars    == <<rowVars, redisVars, blob, pc, emitVars, snapshot>>
liveVars   == <<vars, streamVars, pageVars>>

ViewerPCs == {"load", "off", "ended", "rows", "subscribe", "replay", "write", "stream"}
Listening == {"replay", "write", "stream"}

Top(S) == IF S = {} THEN 0 ELSE CHOOSE n \in S : \A m \in S : m <= n

LiveInit ==
    /\ Init
    /\ vpc = [v \in Viewers |-> "load"] /\ connects = [v \in Viewers |-> 0]
    /\ since = [v \in Viewers |-> 0] /\ seen = [v \in Viewers |-> {}]
    /\ unsent = [v \in Viewers |-> <<>>]
    /\ got = [v \in Viewers |-> <<>>]
    /\ lastId = [v \in Viewers |-> 0] /\ early = [v \in Viewers |-> FALSE]
    /\ leaving = [v \in Viewers |-> FALSE]

At(v, label) == vpc' = [vpc EXCEPT ![v] = label]

(* The handler returns, and what it held is gone with it.                   *)
Returns(v) ==
    /\ At(v, "off")
    /\ since' = [since EXCEPT ![v] = 0] /\ unsent' = [unsent EXCEPT ![v] = <<>>]
    /\ seen' = [seen EXCEPT ![v] = {}] /\ got' = [got EXCEPT ![v] = <<>>]
    /\ early' = [early EXCEPT ![v] = FALSE]
Unsubscribes(v) == subscribed' = subscribed \ {v} /\ queue' = [queue EXCEPT ![v] = <<>>]

(* The page's load: GET /sessions/{id}, the whole log. *)
Load(v) ==
    /\ vpc[v] = "load"
    /\ lastId' = [lastId EXCEPT ![v] = Top(log)]
    /\ At(v, "off")
    /\ UNCHANGED <<vars, connects, since, unsent, seen, got, early, leaving>>

(* Stream, up to its first frame: the row decides which of the two paths    *)
(* the connection takes.  A missing row is a 404, and the page gives up.    *)
Connect(v) ==
    /\ vpc[v] = "off" /\ ~leaving[v] /\ connects[v] < MaxConnects /\ status # "deleted"
    /\ connects' = [connects EXCEPT ![v] = @ + 1]
    /\ since' = [since EXCEPT ![v] = lastId[v]]
    /\ At(v, IF status = "live" THEN "subscribe" ELSE "ended")
    /\ UNCHANGED <<vars, unsent, seen, got, early, lastId, leaving>>

NotFound(v) ==
    /\ vpc[v] = "off" /\ ~leaving[v] /\ connects[v] < MaxConnects /\ status = "deleted"
    /\ connects' = [connects EXCEPT ![v] = @ + 1]
    /\ leaving' = [leaving EXCEPT ![v] = TRUE]
    /\ UNCHANGED <<vars, streamVars, lastId>>

(* The connection of v writes an event to the page. *)
Send(v, n) ==
    /\ got' = [got EXCEPT ![v] = Append(@, n)]
    /\ lastId' = [lastId EXCEPT ![v] = n]

(* The ended path: the log above since, by seq, ... *)
Ascending(s) == \A i, j \in DOMAIN s : i < j => s[i] < s[j]

ReadRows(v) ==
    /\ vpc[v] = "ended"
    /\ LET rows == {n \in log : n > since[v]} IN
         \E s \in [1..Cardinality(rows) -> rows] :
           Ascending(s) /\ unsent' = [unsent EXCEPT ![v] = s]
    /\ At(v, "rows")
    /\ UNCHANGED <<vars, since, seen, got, early, pageVars>>

Subscribe(v) ==
    /\ vpc[v] = "subscribe"
    /\ subscribed' = subscribed \cup {v}
    /\ queue' = [queue EXCEPT ![v] = <<>>]
    /\ early' = [early EXCEPT ![v] = status = "live"]
    /\ At(v, "replay")
    /\ UNCHANGED <<logVars, since, unsent, seen, got, pageVars>>

ReadBuffer(v) ==
    /\ vpc[v] = "replay"
    /\ unsent' = [unsent EXCEPT ![v] = buffer]
    /\ At(v, "write")
    /\ UNCHANGED <<vars, since, seen, got, early, pageVars>>

(* Every entry above since is written and, of the buffer, remembered: the   *)
(* buffer is in push order, not in seq order.  Mutated form: nothing is     *)
(* remembered.                                                              *)
Remembered_Nothing(v, n) == seen
Remembered(v, n) == IF vpc[v] = "write" THEN [seen EXCEPT ![v] = @ \cup {n}] ELSE seen

Write(v) ==
    /\ vpc[v] \in {"rows", "write"} /\ unsent[v] # <<>>
    /\ LET n == Head(unsent[v]) IN
         IF n > since[v]
           THEN Send(v, n) /\ seen' = Remembered(v, n)
           ELSE UNCHANGED <<seen, got, lastId>>
    /\ unsent' = [unsent EXCEPT ![v] = Tail(@)]
    /\ UNCHANGED <<vars, vpc, connects, since, early, leaving>>

(* ... session_ended, close; or the channel is next. *)
RowsSent(v) ==
    /\ vpc[v] = "rows" /\ unsent[v] = <<>>
    /\ Returns(v)
    /\ leaving' = [leaving EXCEPT ![v] = TRUE]
    /\ UNCHANGED <<vars, connects, lastId>>

BufferSent(v) ==
    /\ vpc[v] = "write" /\ unsent[v] = <<>>
    /\ At(v, "stream")
    /\ UNCHANGED <<vars, since, unsent, seen, got, early, pageVars>>

(* The frame at the head of the channel, while v streams. *)
Reads(v, type) == vpc[v] = "stream" /\ queue[v] # <<>> /\ Head(queue[v]).type = type

(* An event is dropped if the client holds it or the replay sent it (once). *)
(* Mutated form: anything not above the last seq sent is taken to be held.  *)
Skip_Below(v, n) == n <= lastId[v]
Skip(v, n) == n <= since[v] \/ n \in seen[v]

ReadEvent(v) ==
    /\ Reads(v, "event")
    /\ LET n == Head(queue[v]).seq IN
         IF Skip(v, n)
           THEN /\ seen' = [seen EXCEPT ![v] = @ \ {n}]
                /\ UNCHANGED <<got, lastId>>
           ELSE Send(v, n) /\ UNCHANGED seen
    /\ queue' = [queue EXCEPT ![v] = Tail(@)]
    /\ UNCHANGED <<logVars, subscribed, vpc, connects, since, unsent, early, leaving>>

(* session_ended ends the handler; session_deleted is passed on like any    *)
(* other frame and the page closes the connection.                          *)
ReadClose(v) ==
    /\ Reads(v, "ended") \/ Reads(v, "deleted")
    /\ leaving' = [leaving EXCEPT ![v] = TRUE]
    /\ Unsubscribes(v) /\ Returns(v)
    /\ UNCHANGED <<logVars, connects, lastId>>

(* The network drops the connection, in the middle of a replay too; frames  *)
(* not yet read are lost with it.  Mutated form: the handler returns        *)
(* without closing its subscription.                                        *)
Served == ViewerPCs \ {"load", "off"}

Disconnect_Leaks(v) ==
    /\ vpc[v] \in Served
    /\ Returns(v)
    /\ UNCHANGED <<vars, pageVars>>

Disconnect(v) ==
    /\ vpc[v] \in Served
    /\ Unsubscribes(v) /\ Returns(v)
    /\ UNCHANGED <<logVars, pageVars>>

Serve(v) ==
    \/ ReadRows(v) \/ Subscribe(v) \/ ReadBuffer(v) \/ Write(v)
    \/ RowsSent(v) \/ BufferSent(v) \/ ReadEvent(v) \/ ReadClose(v)

View(v) ==
    \/ Load(v) \/ Connect(v) \/ NotFound(v)
    \/ Serve(v) \/ Disconnect(v)

(* The server dies with every stream it serves. *)
LiveCrash ==
    /\ Crash
    /\ vpc' = [v \in Viewers |-> IF vpc[v] = "load" THEN "load" ELSE "off"]
    /\ since' = [v \in Viewers |-> 0] /\ unsent' = [v \in Viewers |-> <<>>]
    /\ seen' = [v \in Viewers |-> {}] /\ got' = [v \in Viewers |-> <<>>]
    /\ early' = [v \in Viewers |-> FALSE]
    /\ UNCHANGED pageVars

LiveNext ==
    \/ \E r \in Emitters : Emit(r) /\ UNCHANGED <<streamVars, pageVars>>
    \/ \E e \in Enders : End(e) /\ UNCHANGED <<streamVars, pageVars>>
    \/ \E c \in Calls : Cancel(c) /\ UNCHANGED <<streamVars, pageVars>>
    \/ \E v \in Viewers : View(v)
    \/ LiveCrash

LiveSpec == LiveInit /\ [][LiveNext]_liveVars

(* Handlers run; pages and the network owe nothing.  What closes a stream   *)
(* is that whoever ended the session tells, and that the stream reads.      *)
TellersAndReadersRun ==
    /\ \A e \in Enders : WF_liveVars(EndTell(e) /\ UNCHANGED <<streamVars, pageVars>>)
    /\ \A v \in Viewers : WF_liveVars(ReadEvent(v) \/ ReadClose(v))
HandlersRun ==
    /\ \A r \in Emitters : WF_liveVars(pc[r] # "check" /\ Emit(r) /\ UNCHANGED <<streamVars, pageVars>>)
    /\ \A e \in Enders : WF_liveVars(pc[e] # "check" /\ End(e) /\ UNCHANGED <<streamVars, pageVars>>)
    /\ \A v \in Viewers : WF_liveVars(Serve(v))

ToldSpec == LiveSpec /\ TellersAndReadersRun
LiveFairSpec == LiveSpec /\ HandlersRun

-----------------------------------------------------------------------------
(* Properties. *)

LiveTypeOK ==
    /\ TypeOK
    /\ vpc \in [Viewers -> ViewerPCs]
    /\ connects \in [Viewers -> 0..MaxConnects]
    /\ since \in [Viewers -> Nat] /\ lastId \in [Viewers -> Nat]
    /\ seen \in [Viewers -> SUBSET Nat]
    /\ unsent \in [Viewers -> Seq(Nat)] /\ got \in [Viewers -> Seq(Nat)]
    /\ early \in [Viewers -> BOOLEAN] /\ leaving \in [Viewers -> BOOLEAN]
    /\ \A v \in Viewers : v \in subscribed <=> vpc[v] \in Listening

(* One connection never sends the same event twice, whichever of the replay *)
(* and the channel it comes by, and never one the client said it holds.     *)
NoDuplicateSend ==
    \A v \in Viewers :
        /\ IsInjective(got[v])
        /\ \A n \in Entries(got[v]) : n > since[v]

(* CONTRACT.md: an event emitted mid-replay is never missed.  On a stream   *)
(* of a live session every buffered event the client did not already claim  *)
(* has been sent, waits in the channel, or is about to be published; the    *)
(* only loss is an emitter that was cut off between push and publish.       *)
NothingMissed ==
    status = "live" =>
        \A v \in Viewers : vpc[v] = "stream" =>
            \A n \in Entries(buffer) :
                \/ n <= since[v]
                \/ n \in Entries(got[v])
                \/ EventFrame(n) \in Entries(queue[v])
                \/ \E r \in Emitters : mySeq[r] = n /\ pc[r] \in {"publish", "failed"}

SomeCallFailed == \E c \in Calls : pc[c] = "failed"

(* A viewer that was subscribed before the session ended is told so and its *)
(* stream closes, whatever ended it short of the quota and unless a call    *)
(* was cut off.                                                             *)
EarlyViewersClose ==
    \A v \in Viewers :
        (early[v] /\ vpc[v] = "stream" /\ status = "ended")
            ~> (vpc[v] # "stream" \/ endedReason = "quota" \/ SomeCallFailed)

-----------------------------------------------------------------------------
(* What comments and docs say, and the code does not do. *)

(* CONTRACT.md: when the session ends, the stream is sent session_ended and *)
(* closed.  Said of every stream, calls that were cut off excepted.         *)
EndedStreamsClose ==
    \A v \in Viewers :
        (vpc[v] = "stream" /\ status = "ended")
            ~> (vpc[v] # "stream" \/ SomeCallFailed)
=============================================================================
