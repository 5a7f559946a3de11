-------------------------- MODULE LiveStream_proofs --------------------------
(***************************************************************************)
(* Theorems about LiveStream, for any number of calls, viewers and         *)
(* connections.  The session's own invariant is the one of                 *)
(* SessionLog_proofs; what is added relates each connection to the         *)
(* emitters under way, the buffer and the channel.                         *)
(***************************************************************************)
EXTENDS LiveStream, SessionLog_proofs

-----------------------------------------------------------------------------
(* The inductive invariant. *)

Distinct(s) == \A i, j \in 1..Len(s) : s[i] = s[j] => i = j

(* The events that wait in the channel of v, each of them once. *)
Queued(v) == {n \in Nat : EventFrame(n) \in Entries(queue[v])}
QueuedOnce(v) ==
    \A i, j \in 1..Len(queue[v]) :
        queue[v][i].type = "event" /\ queue[v][i] = queue[v][j] => i = j

Publishing(n) == \E r \in Emitters : pc[r] = "publish" /\ mySeq[r] = n

(* Emitters past the insert hold seqs of their own: of the log, and, before *)
(* the push, new to the buffer.                                             *)
Emitting(r) == pc[r] \in {"push", "publish"}
EmittersDiffer ==
    /\ \A r, q \in Emitters : Emitting(r) /\ Emitting(q) /\ mySeq[r] = mySeq[q] => r = q
    /\ \A r \in Emitters : Emitting(r) /\ status # "deleted" => mySeq[r] \in log
    /\ \A r \in Emitters : pc[r] = "push" => mySeq[r] \notin Entries(buffer)
    /\ Distinct(buffer)

StreamTypes ==
    /\ vpc \in [Viewers -> ViewerPCs]
    /\ since \in [Viewers -> Nat] /\ lastId \in [Viewers -> Nat]
    /\ unsent \in [Viewers -> Seq(Nat)] /\ got \in [Viewers -> Seq(Nat)]
    /\ seen \in [Viewers -> SUBSET Nat]
    /\ \A v \in Viewers : v \in subscribed <=> vpc[v] \in Listening

(* What a handler has written, and what it has still to replay. *)
Sent(v) ==
    /\ Distinct(got[v]) /\ Distinct(unsent[v])
    /\ Entries(unsent[v]) \cap Entries(got[v]) = {}
    /\ \A n \in Entries(got[v]) : n > since[v]
    /\ seen[v] \subseteq Entries(got[v])
    /\ vpc[v] \notin {"rows", "write", "stream"} => got[v] = <<>>
    /\ vpc[v] \notin {"rows", "write"} => unsent[v] = <<>>

(* Whatever a connection carries is in the log, as long as there is one. *)
Carried(v) == Entries(got[v]) \cup Entries(unsent[v]) \cup Queued(v)
CarriesTheLog(v) == status # "deleted" => Carried(v) \subseteq log

(* On a subscribed connection: an event that nobody has pushed yet is       *)
(* nowhere on it, one that nobody has published yet is not in its channel,  *)
(* and one that was sent and may come again by the channel is remembered.   *)
Channel(v) ==
    vpc[v] \in Listening =>
        /\ QueuedOnce(v)
        /\ \A r \in Emitters : pc[r] = "push" => mySeq[r] \notin Carried(v)
        /\ \A r \in Emitters : pc[r] = "publish" => mySeq[r] \notin Queued(v)
        /\ \A n \in Entries(got[v]) : n \in Queued(v) \/ Publishing(n) => n \in seen[v]

(* NothingMissed, from the moment the buffer was read. *)
Underway(n) == \E r \in Emitters : mySeq[r] = n /\ pc[r] \in {"publish", "failed"}
Reaches(v, n) == n <= since[v] \/ n \in Carried(v) \/ Underway(n)
NoneMissed(v) ==
    status = "live" /\ vpc[v] \in {"write", "stream"} =>
        \A n \in Entries(buffer) : Reaches(v, n)

LInv ==
    /\ IInv /\ EmittersDiffer /\ StreamTypes
    /\ \A v \in Viewers : Sent(v) /\ CarriesTheLog(v) /\ Channel(v) /\ NoneMissed(v)

-----------------------------------------------------------------------------
(* Sequences. *)

LEMMA EntriesEmpty == Entries(<<>>) = {} /\ Distinct(<<>>)
BY DEF Entries, Distinct

LEMMA EntriesIn ==
    ASSUME NEW T, NEW s \in Seq(T)
    PROVE  Entries(s) \subseteq T
BY DEF Entries

LEMMA TailEntries ==
    ASSUME NEW T, NEW s \in Seq(T), s # <<>>
    PROVE  /\ Tail(s) \in Seq(T) /\ Head(s) \in T
           /\ Entries(s) = {Head(s)} \cup Entries(Tail(s))
           /\ Distinct(s) => Distinct(Tail(s)) /\ Head(s) \notin Entries(Tail(s))
<1>1. /\ Tail(s) \in Seq(T) /\ Head(s) \in T /\ Len(s) \in Nat \ {0}
      /\ Len(Tail(s)) = Len(s) - 1 /\ Head(s) = s[1]
      /\ \A i \in 1..Len(Tail(s)) : Tail(s)[i] = s[i + 1]
  BY HeadTailProperties, EmptySeq, LenProperties
<1> DEFINE t == Tail(s)
<1> HIDE DEF t
<1>2. /\ Len(t) = Len(s) - 1 /\ Len(s) \in Nat \ {0}
      /\ \A i \in 1..Len(t) : t[i] = s[i + 1] /\ i + 1 \in 1..Len(s)
      /\ \A i \in 1..Len(s) : i = 1 \/ (i - 1 \in 1..Len(t) /\ s[i] = t[i - 1])
  BY <1>1 DEF t
<1>3. Entries(s) = {Head(s)} \cup Entries(t)
  BY <1>1, <1>2 DEF Entries
<1>4. ASSUME Distinct(s) PROVE Distinct(t) /\ Head(s) \notin Entries(t)
  BY <1>1, <1>2, <1>4 DEF Distinct, Entries
<1> QED BY <1>1, <1>3, <1>4 DEF t

LEMMA AppendEntries ==
    ASSUME NEW T, NEW s \in Seq(T), NEW x \in T
    PROVE  /\ Append(s, x) \in Seq(T)
           /\ Entries(Append(s, x)) = Entries(s) \cup {x}
           /\ Distinct(s) /\ x \notin Entries(s) => Distinct(Append(s, x))
<1> DEFINE t == Append(s, x)
<1>1. /\ t \in Seq(T) /\ Len(t) = Len(s) + 1 /\ t[Len(s) + 1] = x
      /\ \A i \in 1..Len(s) : t[i] = s[i]
      /\ Len(s) \in Nat
  BY AppendProperties, LenProperties
<1> HIDE DEF t
<1>2. \A k \in 1..Len(t) : k \in 1..Len(s) \/ k = Len(s) + 1
  BY <1>1
<1>3. ASSUME Distinct(s), x \notin Entries(s) PROVE Distinct(t)
  <2>1. \A i \in 1..Len(s) : s[i] # x
    BY <1>3 DEF Entries
  <2> QED BY <1>1, <1>2, <1>3, <2>1 DEF Distinct
<1> QED BY <1>1, <1>3, EntriesAppend DEF t

-----------------------------------------------------------------------------
(* What a step of the session does to the connections. *)

SessionMoves ==
    \/ \E r \in Emitters : Emit(r)
    \/ \E e \in Enders : End(e)
    \/ \E c \in Calls : Cancel(c)
    \/ UNCHANGED vars

LEMMA MovesIsNext == SessionMoves => [Next]_vars
BY DEF SessionMoves, Next

LEMMA QueuedType == ASSUME NEW v PROVE Queued(v) \subseteq Nat
BY DEF Queued

(* PUBLISH reaches whoever is subscribed, and nobody else. *)
LEMMA PublishEffect ==
    ASSUME TypeOK, NEW f \in Frame, Publish(f), NEW v \in Viewers
    PROVE  /\ v \notin subscribed => queue'[v] = queue[v]
           /\ v \in subscribed => queue'[v] = Append(queue[v], f)
BY DEF TypeOK, Publish

(* A frame that is no event leaves the events of a channel as they were. *)
LEMMA PublishControl ==
    ASSUME TypeOK, NEW f \in Frame, f.type # "event", Publish(f), NEW v \in Viewers
    PROVE  Queued(v)' = Queued(v) /\ (QueuedOnce(v) => QueuedOnce(v)')
<1>1. CASE v \notin subscribed
  <2>1. queue'[v] = queue[v]
    BY <1>1, PublishEffect
  <2> QED BY <2>1 DEF Queued, QueuedOnce
<1>2. CASE v \in subscribed
  <2>1. queue[v] \in Seq(Frame)
    BY DEF TypeOK
  <2>2. queue'[v] = Append(queue[v], f)
    BY <1>2, PublishEffect
  <2>3. Entries(queue'[v]) = Entries(queue[v]) \cup {f}
    BY <2>1, <2>2, AppendEntries
  <2>4. Queued(v)' = Queued(v)
    BY <2>3 DEF Queued, EventFrame
  <2>5. ASSUME QueuedOnce(v) PROVE QueuedOnce(v)'
    <3>1. PICK q : q = queue[v]
      OBVIOUS
    <3>2. PICK t : t = queue'[v]
      OBVIOUS
    <3>3. /\ Len(q) \in Nat /\ Len(t) = Len(q) + 1 /\ t[Len(q) + 1] = f
          /\ \A i \in 1..Len(q) : t[i] = q[i]
      BY <2>1, <2>2, <3>1, <3>2, AppendProperties, LenProperties
    <3>4. \A k \in 1..Len(t) : k \in 1..Len(q) \/ k = Len(q) + 1
      BY <3>3
    <3>5. \A i, j \in 1..Len(q) : q[i].type = "event" /\ q[i] = q[j] => i = j
      BY <2>5, <3>1 DEF QueuedOnce
    <3>6. \A i, j \in 1..Len(t) : t[i].type = "event" /\ t[i] = t[j] => i = j
      BY <3>3, <3>4, <3>5
    <3> QED BY <3>2, <3>6 DEF QueuedOnce
  <2> QED BY <2>4, <2>5
<1> QED BY <1>1, <1>2

(* An event is added to the channel of whoever is subscribed. *)
LEMMA PublishEvent ==
    ASSUME TypeOK, NEW n \in Nat, Publish(EventFrame(n)), NEW v \in Viewers
    PROVE  /\ v \notin subscribed => Queued(v)' = Queued(v) /\ (QueuedOnce(v) => QueuedOnce(v)')
           /\ v \in subscribed => /\ Queued(v)' = Queued(v) \cup {n}
                                  /\ QueuedOnce(v) /\ n \notin Queued(v) => QueuedOnce(v)'
<1> DEFINE f == EventFrame(n)
<1>0. f \in Frame /\ \A m : EventFrame(m) = f <=> m = n
  BY FramesType DEF EventFrame
<1> HIDE DEF f
<1>1. CASE v \notin subscribed
  <2>1. queue'[v] = queue[v]
    BY <1>0, <1>1, PublishEffect DEF f
  <2> QED BY <1>1, <2>1 DEF Queued, QueuedOnce
<1>2. CASE v \in subscribed
  <2>1. queue[v] \in Seq(Frame)
    BY DEF TypeOK
  <2>2. queue'[v] = Append(queue[v], f)
    BY <1>0, <1>2, PublishEffect DEF f
  <2>3. Entries(queue'[v]) = Entries(queue[v]) \cup {f}
    BY <1>0, <2>1, <2>2, AppendEntries
  <2>4. Queued(v)' = Queued(v) \cup {n}
    BY <1>0, <2>3 DEF Queued
  <2>5. ASSUME QueuedOnce(v), n \notin Queued(v) PROVE QueuedOnce(v)'
    <3>1. PICK q : q = queue[v]
      OBVIOUS
    <3>2. PICK t : t = queue'[v]
      OBVIOUS
    <3>3. /\ Len(q) \in Nat /\ Len(t) = Len(q) + 1 /\ t[Len(q) + 1] = f
          /\ \A i \in 1..Len(q) : t[i] = q[i]
      BY <1>0, <2>1, <2>2, <3>1, <3>2, AppendProperties, LenProperties
    <3>4. \A k \in 1..Len(t) : k \in 1..Len(q) \/ k = Len(q) + 1
      BY <3>3
    <3>5. \A i, j \in 1..Len(q) : q[i].type = "event" /\ q[i] = q[j] => i = j
      BY <2>5, <3>1 DEF QueuedOnce
    <3>6. \A i \in 1..Len(q) : q[i] # f
      BY <2>5, <3>1 DEF Queued, Entries, f
    <3>7. \A i, j \in 1..Len(t) : t[i].type = "event" /\ t[i] = t[j] => i = j
      BY <3>3, <3>4, <3>5, <3>6
    <3> QED BY <3>2, <3>7 DEF QueuedOnce
  <2> QED BY <1>2, <2>4, <2>5
<1> QED BY <1>1, <1>2

(* Which steps write to a channel. *)
LEMMA ChannelStep ==
    ASSUME SessionMoves
    PROVE  \/ UNCHANGED <<subscribed, queue>>
           \/ Publish(EndedFrame) \/ Publish(DeletedFrame)
           \/ \E r \in Emitters : EmitPublish(r)
<1> USE DEF busVars
<1>1. ASSUME NEW r \in Emitters, Emit(r), ~EmitPublish(r) PROVE UNCHANGED <<subscribed, queue>>
  BY <1>1 DEF Emit, EmitCheck, EmitIncr, EmitAppend, EmitRefused, EmitPush, QuotaEnd, QuotaHandoff
<1>2. ASSUME NEW e \in Enders, End(e), ~EndTell(e), ~DeleteTell(e)
      PROVE  UNCHANGED <<subscribed, queue>>
  BY <1>2 DEF End, StopCheck, StopRead, StopPut, StopRow, IdleEnd, EndDrop,
     DeleteCheck, DeleteRow, DeleteKeys, DeleteBlob
<1>3. ASSUME NEW e \in Enders, EndTell(e) \/ DeleteTell(e)
      PROVE  Publish(EndedFrame) \/ Publish(DeletedFrame)
  BY <1>3 DEF EndTell, DeleteTell
<1>4. ASSUME NEW c \in Calls, Cancel(c) PROVE UNCHANGED <<subscribed, queue>>
  BY <1>4 DEF Cancel
<1>5. CASE UNCHANGED vars
  BY <1>5 DEF vars
<1> QED BY <1>1, <1>2, <1>3, <1>4, <1>5 DEF SessionMoves

(* How an emitter came where it is: the insert, then the push. *)
LEMMA EmitterTrace ==
    ASSUME IInv, [Next]_vars, NEW r \in Emitters
    PROVE  /\ pc'[r] = "push" => mySeq'[r] = mySeq[r] /\ (pc[r] = "push" \/ EmitAppend(r))
           /\ pc'[r] = "publish" => mySeq'[r] = mySeq[r] /\ (pc[r] = "publish" \/ EmitPush(r))
           /\ pc[r] = "failed" => mySeq'[r] = mySeq[r] /\ pc'[r] = "failed"
           /\ pc[r] = "push" /\ ~EmitPush(r) => pc'[r] \in {"push", "failed"}
<1>1. CASE EmitIncr(r)
  BY <1>1, IncrEffect, LiveTypes
<1>2. CASE EmitAppend(r)
  BY <1>2, AppendEffect, LiveTypes
<1>3. CASE EmitPush(r)
  BY <1>3, PushEffect, LiveTypes
<1> QED BY <1>1, <1>2, <1>3, EmitterStep

(* An event that waits to be published stays so, is published or cut off. *)
LEMMA PublishTrace ==
    ASSUME IInv, [Next]_vars, NEW r \in Emitters, pc[r] = "publish"
    PROVE  /\ mySeq'[r] = mySeq[r]
           /\ pc'[r] \in {"publish", "failed"} \/ EmitPublish(r)
<1> USE CallsAssumption DEF Goto, Calls, emitVars
<1>1. /\ pc \in [Calls -> EmitPCs \cup EndPCs \cup Over]
      /\ mySeq \in [Emitters -> Nat]
  BY DEF IInv, Inv, TypeOK
<1>2. ASSUME NEW q \in Emitters, Emit(q), q # r PROVE UNCHANGED <<pc[r], mySeq[r]>>
  BY <1>1, <1>2 DEF Emit, EmitCheck, EmitIncr, EmitAppend, EmitRefused, EmitPush, EmitPublish,
     QuotaEnd, QuotaHandoff
<1>3. ASSUME Emit(r) PROVE EmitPublish(r) /\ mySeq'[r] = mySeq[r]
  BY <1>3 DEF Emit, EmitCheck, EmitIncr, EmitAppend, EmitRefused, EmitPush, EmitPublish,
     QuotaEnd, QuotaHandoff
<1>4. ASSUME NEW e \in Enders, End(e) PROVE UNCHANGED <<pc[r], mySeq[r]>>
  BY <1>1, <1>4 DEF End, StopCheck, StopRead, StopPut, StopRow, IdleEnd, EndTell, EndDrop,
     DeleteCheck, DeleteTell, DeleteRow, DeleteKeys, DeleteBlob
<1>5. ASSUME NEW c \in Calls, Cancel(c)
      PROVE  mySeq'[r] = mySeq[r] /\ pc'[r] \in {"publish", "failed"}
  BY <1>1, <1>5 DEF Cancel
<1>6. CASE Crash
  BY <1>1, <1>6 DEF Crash
<1>7. CASE UNCHANGED vars
  BY <1>7 DEF vars
<1> QED BY <1>2, <1>3, <1>4, <1>5, <1>6, <1>7 DEF Next

(* The log only grows until the session is deleted. *)
LEMMA LogGrows ==
    ASSUME IInv, [Next]_vars, status' # "deleted"
    PROVE  status # "deleted" /\ log \subseteq log'
<1>1. status # "deleted"
  BY RowStep
<1>2. ASSUME NEW r \in Emitters, EmitAppend(r) PROVE log \subseteq log'
  BY <1>2, AppendEffect
<1>3. ASSUME NEW e \in Enders, DeleteRow(e) PROVE FALSE
  BY <1>3 DEF DeleteRow
<1> QED BY <1>1, <1>2, <1>3, LogStep

(* The buffer is emptied, or gains the seq of a push. *)
LEMMA DifferStep == IInv /\ EmittersDiffer /\ [Next]_vars => EmittersDiffer'
<1> SUFFICES ASSUME IInv, EmittersDiffer, [Next]_vars PROVE EmittersDiffer'
  OBVIOUS
<1>1. ASSUME NEW r \in Emitters, pc[r] \in {"push", "publish"}, NEW q \in Emitters, EmitAppend(q)
      PROVE  mySeq[r] # mySeq[q]
  BY <1>1, AppendEffect DEF EmittersDiffer, Emitting
<1>2. ASSUME NEW r \in Emitters, NEW q \in Emitters, EmitAppend(r), EmitAppend(q) PROVE r = q
  BY <1>2, AppendEffect, LiveTypes
<1>3. \A r, q \in Emitters : Emitting(r)' /\ Emitting(q)' /\ mySeq'[r] = mySeq'[q] => r = q
  <2> SUFFICES ASSUME NEW r \in Emitters, NEW q \in Emitters, Emitting(r)', Emitting(q)',
                      mySeq'[r] = mySeq'[q]
               PROVE  r = q
    OBVIOUS
  <2>1. /\ mySeq'[r] = mySeq[r] /\ (Emitting(r) \/ EmitAppend(r))
        /\ mySeq'[q] = mySeq[q] /\ (Emitting(q) \/ EmitAppend(q))
    BY EmitterTrace, PushEffect DEF Emitting
  <2> QED BY <1>1, <1>2, <2>1 DEF EmittersDiffer, Emitting
<1>4. ASSUME NEW r \in Emitters, Emitting(r)', status' # "deleted" PROVE mySeq'[r] \in log'
  <2>1. mySeq'[r] = mySeq[r] /\ (Emitting(r) \/ EmitAppend(r))
    BY <1>4, EmitterTrace, PushEffect DEF Emitting
  <2>2. status # "deleted" /\ log \subseteq log'
    BY <1>4, LogGrows
  <2> QED BY <2>1, <2>2, AppendEffect DEF EmittersDiffer
<1>5. (\A r \in Emitters : pc'[r] = "push" => mySeq'[r] \notin Entries(buffer')) /\ Distinct(buffer')
  <2>1. ASSUME NEW r \in Emitters, pc'[r] = "push"
        PROVE  mySeq'[r] = mySeq[r] /\ mySeq[r] \notin Entries(buffer)
    <3>1. mySeq'[r] = mySeq[r] /\ (pc[r] = "push" \/ EmitAppend(r))
      BY <2>1, EmitterTrace
    <3>2. ASSUME EmitAppend(r) PROVE mySeq[r] \notin Entries(buffer)
      BY <3>2, AppendEffect DEF IInv, Inv, BufferIsPersisted
    <3> QED BY <3>1, <3>2 DEF EmittersDiffer
  <2>2. CASE UNCHANGED buffer
    BY <2>1, <2>2 DEF EmittersDiffer
  <2>3. CASE buffer' = <<>>
    BY <2>3, EntriesEmpty
  <2>4. ASSUME NEW q \in Emitters, EmitPush(q)
        PROVE  /\ \A r \in Emitters : pc'[r] = "push" => mySeq'[r] \notin Entries(buffer')
               /\ Distinct(buffer')
    <3>1. /\ pc[q] = "push" /\ pc'[q] = "publish" /\ buffer' = Append(buffer, mySeq[q])
          /\ Entries(buffer') = Entries(buffer) \cup {mySeq[q]}
          /\ \A r \in Emitters : r # q => pc'[r] = pc[r]
      BY <2>4, PushEffect, LiveTypes
    <3>2. mySeq[q] \notin Entries(buffer) /\ Distinct(buffer)
      BY <3>1 DEF EmittersDiffer
    <3>3. Distinct(buffer')
      BY <3>1, <3>2, AppendEntries, LiveTypes
    <3>4. ASSUME NEW r \in Emitters, pc'[r] = "push" PROVE mySeq'[r] \notin Entries(buffer')
      <4>1. r # q /\ pc[r] = "push"
        BY <3>1, <3>4
      <4>2. mySeq[r] # mySeq[q]
        BY <3>1, <4>1 DEF EmittersDiffer, Emitting
      <4> QED BY <2>1, <3>1, <3>4, <4>2
    <3> QED BY <3>3, <3>4
  <2> QED BY <2>2, <2>3, <2>4, BufferStep
<1> QED BY <1>3, <1>4, <1>5 DEF EmittersDiffer

(* What is in the channel of v after a step of the session. *)
LEMMA QueuedStep ==
    ASSUME IInv, EmittersDiffer, SessionMoves, NEW v \in Viewers
    PROVE  /\ subscribed' = subscribed
           /\ \/ Queued(v)' = Queued(v) /\ (QueuedOnce(v) => QueuedOnce(v)')
              \/ \E r \in Emitters :
                   /\ pc[r] = "publish" /\ pc'[r] # "publish" /\ v \in subscribed
                   /\ Queued(v)' = Queued(v) \cup {mySeq[r]}
                   /\ QueuedOnce(v) /\ mySeq[r] \notin Queued(v) => QueuedOnce(v)'
           /\ \A r \in Emitters :
                EmitPublish(r) /\ v \in subscribed => mySeq[r] \in Queued(v)'
<1>0. TypeOK
  BY DEF IInv, Inv
<1>1. CASE UNCHANGED <<subscribed, queue>> /\ ~(\E r \in Emitters : EmitPublish(r))
  BY <1>1 DEF Queued, QueuedOnce
<1>2. ASSUME Publish(EndedFrame) \/ Publish(DeletedFrame), ~(\E r \in Emitters : EmitPublish(r))
      PROVE  subscribed' = subscribed /\ Queued(v)' = Queued(v) /\ (QueuedOnce(v) => QueuedOnce(v)')
  <2>1. EndedFrame.type # "event" /\ DeletedFrame.type # "event"
    BY DEF EndedFrame, DeletedFrame
  <2>2. subscribed' = subscribed
    BY <1>2 DEF Publish
  <2> QED BY <1>0, <1>2, <2>1, <2>2, PublishControl, FramesType
<1>3. ASSUME NEW r \in Emitters, EmitPublish(r)
      PROVE  /\ subscribed' = subscribed /\ pc[r] = "publish" /\ pc'[r] # "publish"
             /\ v \notin subscribed => Queued(v)' = Queued(v) /\ (QueuedOnce(v) => QueuedOnce(v)')
             /\ v \in subscribed => /\ Queued(v)' = Queued(v) \cup {mySeq[r]}
                                    /\ QueuedOnce(v) /\ mySeq[r] \notin Queued(v) => QueuedOnce(v)'
  <2>1. Publish(EventFrame(mySeq[r])) /\ pc[r] = "publish" /\ pc'[r] # "publish" /\ mySeq[r] \in Nat
    BY <1>3, LiveTypes DEF EmitPublish, Goto
  <2> QED BY <1>0, <2>1, PublishEvent DEF Publish
<1>4. CASE \E r \in Emitters : EmitPublish(r)
  BY <1>3, <1>4
<1> QED BY <1>1, <1>2, <1>4, ChannelStep

LEMMA SessionKeepsTypes ==
    ASSUME LInv, SessionMoves, UNCHANGED <<streamVars, pageVars>>
    PROVE  StreamTypes'
<1>1. ASSUME NEW v \in Viewers PROVE v \in subscribed' <=> v \in subscribed
  BY <1>1, QueuedStep DEF LInv
<1> QED BY <1>1 DEF LInv, StreamTypes, streamVars, pageVars

LEMMA SessionKeepsSent ==
    ASSUME LInv, UNCHANGED <<streamVars, pageVars>>, NEW v \in Viewers
    PROVE  Sent(v)'
BY DEF LInv, Sent, streamVars, pageVars

(* What v has and has to send is untouched; its channel is as in QueuedStep. *)
LEMMA SessionCarries ==
    ASSUME LInv, SessionMoves, UNCHANGED <<streamVars, pageVars>>, NEW v \in Viewers
    PROVE  /\ UNCHANGED <<vpc[v], since[v], unsent[v], seen[v], got[v]>>
           /\ Entries(got[v])' = Entries(got[v]) /\ Entries(unsent[v])' = Entries(unsent[v])
           /\ Carried(v) \subseteq Carried(v)'
           /\ \A n \in Carried(v)' : n \in Carried(v) \/
                \E r \in Emitters : pc[r] = "publish" /\ pc'[r] # "publish" /\ mySeq[r] = n
<1>1. /\ UNCHANGED <<vpc[v], since[v], unsent[v], seen[v], got[v]>>
      /\ Entries(got[v])' = Entries(got[v]) /\ Entries(unsent[v])' = Entries(unsent[v])
  BY DEF streamVars
<1> QED BY <1>1, QueuedStep DEF LInv, Carried

LEMMA SessionKeepsLog ==
    ASSUME LInv, SessionMoves, UNCHANGED <<streamVars, pageVars>>, NEW v \in Viewers
    PROVE  CarriesTheLog(v)'
<1> SUFFICES ASSUME status' # "deleted" PROVE Carried(v)' \subseteq log'
  BY DEF CarriesTheLog
<1>1. status # "deleted" /\ log \subseteq log'
  BY LogGrows, MovesIsNext DEF LInv
<1>2. Carried(v) \subseteq log
  BY <1>1 DEF LInv, CarriesTheLog
<1>3. \A r \in Emitters : pc[r] = "publish" => mySeq[r] \in log
  BY <1>1 DEF LInv, EmittersDiffer, Emitting
<1> QED BY <1>1, <1>2, <1>3, SessionCarries

LEMMA SessionKeepsChannel ==
    ASSUME LInv, SessionMoves, UNCHANGED <<streamVars, pageVars>>, NEW v \in Viewers
    PROVE  Channel(v)'
<1> SUFFICES ASSUME vpc'[v] \in Listening PROVE Channel(v)'
  BY DEF Channel
<1>0. vpc[v] \in Listening /\ v \in subscribed
  BY SessionCarries DEF LInv, StreamTypes
<1>1. /\ QueuedOnce(v)
      /\ \A r \in Emitters : pc[r] = "push" => mySeq[r] \notin Carried(v)
      /\ \A r \in Emitters : pc[r] = "publish" => mySeq[r] \notin Queued(v)
      /\ \A n \in Entries(got[v]) : n \in Queued(v) \/ Publishing(n) => n \in seen[v]
  BY <1>0 DEF LInv, Channel
<1>2. IInv /\ EmittersDiffer /\ [Next]_vars
  BY MovesIsNext DEF LInv
<1>3. \A r, q \in Emitters : Emitting(r) /\ Emitting(q) /\ mySeq[r] = mySeq[q] => r = q
  BY <1>2 DEF EmittersDiffer
<1>4. /\ seen'[v] = seen[v] /\ Entries(got[v])' = Entries(got[v])
      /\ \A n \in Carried(v)' : n \in Carried(v) \/
           \E r \in Emitters : pc[r] = "publish" /\ pc'[r] # "publish" /\ mySeq[r] = n
  BY SessionCarries
<1>5. \/ Queued(v)' = Queued(v) /\ (QueuedOnce(v) => QueuedOnce(v)')
      \/ \E r \in Emitters :
           /\ pc[r] = "publish" /\ pc'[r] # "publish"
           /\ Queued(v)' = Queued(v) \cup {mySeq[r]}
           /\ QueuedOnce(v) /\ mySeq[r] \notin Queued(v) => QueuedOnce(v)'
  BY <1>2, QueuedStep
<1>6. QueuedOnce(v)'
  BY <1>1, <1>5
<1>7. ASSUME NEW r \in Emitters, pc'[r] = "push" PROVE mySeq'[r] \notin Carried(v)'
  <2>1. mySeq'[r] = mySeq[r] /\ (pc[r] = "push" \/ EmitAppend(r))
    BY <1>2, <1>7, EmitterTrace
  <2>2. mySeq[r] \notin Carried(v)
    <3>1. CASE pc[r] = "push"
      BY <1>1, <3>1
    <3>2. CASE EmitAppend(r)
      BY <1>2, <3>2, AppendEffect DEF LInv, CarriesTheLog
    <3> QED BY <2>1, <3>1, <3>2
  <2>3. ASSUME NEW q \in Emitters, pc[q] = "publish", pc'[q] # "publish" PROVE mySeq[q] # mySeq[r]
    <3>1. CASE pc[r] = "push"
      BY <1>3, <2>3, <3>1 DEF Emitting
    <3>2. CASE EmitAppend(r)
      BY <1>2, <2>3, <3>2, AppendEffect DEF EmittersDiffer, Emitting
    <3> QED BY <2>1, <3>1, <3>2
  <2> QED BY <1>4, <2>1, <2>2, <2>3
<1>8. ASSUME NEW r \in Emitters, pc'[r] = "publish"
      PROVE  /\ mySeq'[r] = mySeq[r] /\ mySeq[r] \notin Queued(v)'
             /\ mySeq[r] \in Entries(got[v]) => mySeq[r] \in seen[v]
  <2>1. mySeq'[r] = mySeq[r] /\ (pc[r] = "publish" \/ EmitPush(r))
    BY <1>2, <1>8, EmitterTrace
  <2>2. pc[r] \in {"push", "publish"}
    BY <1>2, <2>1, PushEffect
  <2>3. mySeq[r] \notin Queued(v) /\ (mySeq[r] \in Entries(got[v]) => mySeq[r] \in seen[v])
    BY <1>1, <2>2 DEF Carried, Publishing
  <2>4. ASSUME NEW q \in Emitters, pc[q] = "publish", pc'[q] # "publish" PROVE mySeq[q] # mySeq[r]
    BY <1>3, <1>8, <2>2, <2>4 DEF Emitting
  <2> QED BY <1>5, <2>1, <2>3, <2>4
<1>9. ASSUME NEW n \in Entries(got[v])', (n \in Queued(v) \/ Publishing(n))'
      PROVE  n \in seen'[v]
  <2>1. CASE n \in Queued(v)'
    <3>1. n \in Queued(v) \/ Publishing(n)
      BY <1>5, <2>1 DEF Publishing
    <3> QED BY <1>1, <1>4, <1>9, <3>1
  <2>2. CASE Publishing(n)'
    <3>1. PICK r \in Emitters : pc'[r] = "publish" /\ mySeq'[r] = n
      BY <2>2 DEF Publishing
    <3> QED BY <1>4, <1>8, <1>9, <3>1
  <2> QED BY <1>9, <2>1, <2>2
<1>10. \A r \in Emitters : pc'[r] = "publish" => mySeq'[r] \notin Queued(v)'
  BY <1>8
<1> QED BY <1>6, <1>7, <1>9, <1>10 DEF Channel

LEMMA SessionKeepsNoneMissed ==
    ASSUME LInv, SessionMoves, UNCHANGED <<streamVars, pageVars>>, NEW v \in Viewers
    PROVE  NoneMissed(v)'
<1> SUFFICES ASSUME status' = "live", vpc'[v] \in {"write", "stream"}, NEW n \in Entries(buffer')
             PROVE  Reaches(v, n)'
  BY DEF NoneMissed
<1>1. IInv /\ EmittersDiffer /\ [Next]_vars
  BY MovesIsNext DEF LInv
<1>2. status = "live"
  BY <1>1, RowStep
<1>3. /\ vpc[v] \in {"write", "stream"} /\ since'[v] = since[v]
      /\ Carried(v) \subseteq Carried(v)' /\ v \in subscribed
  BY SessionCarries DEF LInv, StreamTypes, Listening
<1>4. \A m \in Entries(buffer) : Reaches(v, m)
  BY <1>2, <1>3 DEF LInv, NoneMissed
<1>5. ASSUME Reaches(v, n) PROVE Reaches(v, n)'
  <2>1. CASE n <= since[v] \/ n \in Carried(v)
    BY <1>3, <2>1 DEF Reaches
  <2>2. CASE Underway(n)
    <3>1. PICK r \in Emitters : mySeq[r] = n /\ pc[r] \in {"publish", "failed"}
      BY <2>2 DEF Underway
    <3>2. CASE pc[r] = "failed"
      BY <1>1, <3>1, <3>2, EmitterTrace DEF Reaches, Underway
    <3>3. CASE pc[r] = "publish"
      <4>1. mySeq'[r] = n /\ (pc'[r] \in {"publish", "failed"} \/ EmitPublish(r))
        BY <1>1, <3>1, <3>3, PublishTrace
      <4>2. EmitPublish(r) => n \in Carried(v)'
        BY <1>1, <1>3, <3>1, QueuedStep DEF Carried
      <4> QED BY <4>1, <4>2 DEF Reaches, Underway
    <3> QED BY <3>1, <3>2, <3>3
  <2> QED BY <1>5, <2>1, <2>2 DEF Reaches
<1>6. CASE n \in Entries(buffer)
  BY <1>4, <1>5, <1>6
<1>7. CASE n \notin Entries(buffer)
  <2>1. PICK r \in Emitters : EmitPush(r)
    BY <1>1, <1>7, BufferStep, EntriesEmpty
  <2>2. pc'[r] = "publish" /\ mySeq'[r] = mySeq[r] /\ n = mySeq[r]
    BY <1>1, <1>7, <2>1, PushEffect, LiveTypes
  <2> QED BY <2>2 DEF Reaches, Underway
<1> QED BY <1>6, <1>7

-----------------------------------------------------------------------------
(* The steps of the viewers. *)

LEMMA TopType ==
    ASSUME NEW S \in SUBSET Nat, NEW b \in Nat, \A n \in S : n <= b
    PROVE  Top(S) \in Nat
<1>1. CASE S = {}
  BY <1>1 DEF Top
<1>2. CASE S # {}
  <2>1. \E n \in S : \A m \in S : m <= n
    BY <1>2, BoundedHasMax
  <2> QED BY <1>2, <2>1 DEF Top
<1> QED BY <1>1, <1>2

Own(u) == <<vpc[u], since[u], unsent[u], seen[u], got[u], queue[u]>>

(* A viewer's step touches neither the session nor another connection. *)
LEMMA ViewFrame ==
    ASSUME LInv, NEW v \in Viewers, View(v), NEW u \in Viewers \ {v}
    PROVE  UNCHANGED <<logVars, Own(u)>> /\ (u \in subscribed' <=> u \in subscribed)
<1>1. /\ queue \in [Viewers -> Seq(Frame)] /\ vpc \in [Viewers -> ViewerPCs]
      /\ since \in [Viewers -> Nat] /\ unsent \in [Viewers -> Seq(Nat)]
      /\ got \in [Viewers -> Seq(Nat)] /\ seen \in [Viewers -> SUBSET Nat]
  BY DEF LInv, IInv, Inv, TypeOK, StreamTypes
<1> USE <1>1 DEF At, Returns, Unsubscribes, Send, vars, busVars, logVars, streamVars, pageVars, Own
<1>2. ASSUME Load(v) \/ Connect(v) \/ NotFound(v) \/ ReadRows(v)
      PROVE  UNCHANGED <<logVars, Own(u)>> /\ (u \in subscribed' <=> u \in subscribed)
  BY <1>2 DEF Load, Connect, NotFound, ReadRows
<1>3. ASSUME Subscribe(v) \/ ReadBuffer(v) \/ RowsSent(v) \/ BufferSent(v)
      PROVE  UNCHANGED <<logVars, Own(u)>> /\ (u \in subscribed' <=> u \in subscribed)
  BY <1>3 DEF Subscribe, ReadBuffer, RowsSent, BufferSent
<1>4. ASSUME Write(v)
      PROVE  UNCHANGED <<logVars, Own(u)>> /\ (u \in subscribed' <=> u \in subscribed)
  BY <1>4 DEF Write, Remembered
<1>5. ASSUME ReadEvent(v)
      PROVE  UNCHANGED <<logVars, Own(u)>> /\ (u \in subscribed' <=> u \in subscribed)
  BY <1>5 DEF ReadEvent
<1>6. ASSUME ReadClose(v) \/ Disconnect(v)
      PROVE  UNCHANGED <<logVars, Own(u)>> /\ (u \in subscribed' <=> u \in subscribed)
  BY <1>6 DEF ReadClose, Disconnect
<1> QED BY <1>2, <1>3, <1>4, <1>5, <1>6 DEF View, Serve

LEMMA ViewLeavesTheLog == ASSUME NEW v, View(v) PROVE UNCHANGED logVars
BY DEF View, Serve, Load, Connect, NotFound, ReadRows, Subscribe, ReadBuffer, Write,
   RowsSent, BufferSent, ReadEvent, ReadClose, Disconnect, vars, logVars, rowVars, redisVars,
   emitVars

(* The session's invariant says nothing of the channels but their types. *)
LEMMA LogKept ==
    ASSUME IInv, EmittersDiffer, UNCHANGED logVars,
           subscribed' \subseteq Viewers, queue' \in [Viewers -> Seq(Frame)]
    PROVE  IInv' /\ EmittersDiffer'
<1> USE DEF logVars, rowVars, redisVars, emitVars
<1>1. TypeOK'
  BY DEF IInv, Inv, TypeOK
<1>2. PcOK' /\ Allocated' /\ SeqsAhead' /\ RowBeforeKeys' /\ EndedOnce'
  BY DEF IInv, Inv, PcOK, Allocated, SeqsAhead, RowBeforeKeys, EndedOnce, OneEnding
<1>3. PushesAreNew' /\ LiveSeqsAreFresh'
  BY DEF IInv, Inv, PushesAreNew, LiveSeqsAreFresh
<1>4. BufferIsPersisted' /\ ReplayIsComplete'
  BY DEF IInv, Inv, BufferIsPersisted, ReplayIsComplete
<1>5. IsFiniteSet(log)' /\ CountIsExact' /\ LogBounded'
  BY DEF IInv, Inv, CountIsExact, LogBounded
<1>6. EmittersDiffer'
  BY DEF EmittersDiffer, Emitting
<1> QED BY <1>1, <1>2, <1>3, <1>4, <1>5, <1>6 DEF IInv, Inv

(* The other connections keep what they promise. *)
LEMMA OthersKept ==
    ASSUME LInv, UNCHANGED logVars, NEW u \in Viewers, UNCHANGED Own(u)
    PROVE  Sent(u)' /\ CarriesTheLog(u)' /\ Channel(u)' /\ NoneMissed(u)'
<1> USE DEF logVars, rowVars, redisVars, emitVars, Own
<1>1. Queued(u)' = Queued(u) /\ Entries(got[u])' = Entries(got[u])
      /\ Entries(unsent[u])' = Entries(unsent[u]) /\ Carried(u)' = Carried(u)
  BY DEF Queued, Carried
<1>2. Sent(u)'
  BY DEF LInv, Sent
<1>3. CarriesTheLog(u)'
  BY <1>1 DEF LInv, CarriesTheLog
<1>4. QueuedOnce(u) => QueuedOnce(u)'
  BY DEF QueuedOnce
<1>5. Channel(u)'
  BY <1>1, <1>4 DEF LInv, Channel, Publishing
<1>6. NoneMissed(u)'
  BY <1>1 DEF LInv, NoneMissed, Reaches, Underway
<1> QED BY <1>2, <1>3, <1>5, <1>6

(* A handler that holds nothing and has read nothing promises nothing. *)
LEMMA BlankKept ==
    ASSUME NEW v \in Viewers, got'[v] = <<>>, unsent'[v] = <<>>, queue'[v] = <<>>, seen'[v] = {},
           vpc'[v] \notin {"write", "stream"}
    PROVE  Sent(v)' /\ CarriesTheLog(v)' /\ Channel(v)' /\ NoneMissed(v)'
<1>1. /\ Entries(got[v])' = {} /\ Entries(unsent[v])' = {} /\ Entries(queue[v])' = {}
      /\ Distinct(got[v])' /\ Distinct(unsent[v])'
  BY EntriesEmpty
<1>2. Queued(v)' = {} /\ QueuedOnce(v)'
  <2>1. Len(queue'[v]) = 0
    OBVIOUS
  <2> QED BY <1>1, <2>1 DEF Queued, QueuedOnce
<1>3. Sent(v)'
  BY <1>1 DEF Sent
<1>4. CarriesTheLog(v)'
  BY <1>1, <1>2 DEF CarriesTheLog, Carried
<1>5. Channel(v)'
  BY <1>1, <1>2 DEF Channel, Carried
<1> QED BY <1>3, <1>4, <1>5 DEF NoneMissed

LEMMA ViewerTypes ==
    ASSUME LInv
    PROVE  /\ vpc \in [Viewers -> ViewerPCs]
           /\ since \in [Viewers -> Nat] /\ lastId \in [Viewers -> Nat]
           /\ unsent \in [Viewers -> Seq(Nat)] /\ got \in [Viewers -> Seq(Nat)]
           /\ seen \in [Viewers -> SUBSET Nat] /\ queue \in [Viewers -> Seq(Frame)]
           /\ subscribed \subseteq Viewers /\ log \subseteq Nat /\ buffer \in Seq(Nat)
BY DEF LInv, IInv, Inv, TypeOK, StreamTypes

LEMMA MembershipKept ==
    ASSUME LInv, NEW v \in Viewers, View(v), v \in subscribed' <=> vpc'[v] \in Listening
    PROVE  \A u \in Viewers : u \in subscribed' <=> vpc'[u] \in Listening
<1>1. ASSUME NEW u \in Viewers \ {v} PROVE u \in subscribed' <=> vpc'[u] \in Listening
  BY <1>1, ViewFrame DEF LInv, StreamTypes, Own
<1> QED BY <1>1

(* Outside Listening nothing is promised of the channel. *)
LEMMA QuietKept ==
    ASSUME LInv, UNCHANGED logVars, NEW v \in Viewers, UNCHANGED queue[v],
           vpc'[v] \notin Listening,
           status # "deleted" => Entries(got'[v]) \cup Entries(unsent'[v]) \subseteq log
    PROVE  CarriesTheLog(v)' /\ Channel(v)' /\ NoneMissed(v)'
<1> USE DEF logVars, rowVars
<1>1. Queued(v)' = Queued(v)
  BY DEF Queued
<1>2. CarriesTheLog(v)'
  BY <1>1 DEF LInv, CarriesTheLog, Carried
<1> QED BY <1>2 DEF Channel, NoneMissed, Listening

LEMMA LoadKeeps == ASSUME LInv, NEW v \in Viewers, Load(v) PROVE LInv'
<1> USE ViewerTypes DEF Load, At, vars, busVars, logVars
<1>0. View(v)
  BY DEF View
<1>1. IInv' /\ EmittersDiffer'
  BY LogKept DEF LInv
<1>2. Top(log) \in Nat
  BY TopType DEF LInv, IInv, LogBounded
<1>3. StreamTypes'
  <2>1. vpc'[v] = "off" /\ vpc' \in [Viewers -> ViewerPCs] /\ lastId' \in [Viewers -> Nat]
    BY <1>2 DEF ViewerPCs
  <2>2. v \in subscribed' <=> vpc'[v] \in Listening
    BY <2>1 DEF LInv, StreamTypes, Listening
  <2> QED BY <1>0, <2>1, <2>2, MembershipKept DEF StreamTypes
<1>4. Sent(v)' /\ CarriesTheLog(v)' /\ Channel(v)' /\ NoneMissed(v)'
  <2>1. got'[v] = <<>> /\ unsent'[v] = <<>> /\ vpc'[v] = "off" /\ seen'[v] = seen[v]
    BY DEF LInv, Sent
  <2>2. Sent(v)'
    BY <2>1, EntriesEmpty DEF LInv, Sent
  <2> QED BY <2>1, <2>2, QuietKept, EntriesEmpty DEF Listening
<1> QED BY <1>0, <1>1, <1>3, <1>4, ViewFrame, OthersKept DEF LInv

LEMMA UntouchedKeeps ==
    ASSUME LInv, NEW v \in Viewers, View(v), UNCHANGED <<vars, streamVars, lastId>>
    PROVE  LInv'
<1> USE DEF vars, busVars, logVars, streamVars
<1>1. IInv' /\ EmittersDiffer'
  BY LogKept, ViewerTypes DEF LInv
<1>2. StreamTypes'
  BY DEF LInv, StreamTypes
<1>3. \A u \in Viewers : UNCHANGED Own(u)
  BY DEF Own
<1> QED BY <1>1, <1>2, <1>3, OthersKept DEF LInv

LEMMA ConnectKeeps == ASSUME LInv, NEW v \in Viewers, Connect(v) PROVE LInv'
<1> USE ViewerTypes DEF Connect, At, vars, busVars, logVars
<1>0. View(v)
  BY DEF View
<1>1. IInv' /\ EmittersDiffer'
  BY LogKept DEF LInv
<1>2. vpc'[v] \in {"subscribe", "ended"} /\ UNCHANGED <<queue, subscribed, got, unsent, seen>>
  OBVIOUS
<1>3. StreamTypes'
  <2>1. vpc' \in [Viewers -> ViewerPCs] /\ since' \in [Viewers -> Nat]
    BY DEF ViewerPCs
  <2>2. v \in subscribed' <=> vpc'[v] \in Listening
    BY <1>2 DEF LInv, StreamTypes, Listening
  <2> QED BY <1>0, <2>1, <2>2, MembershipKept DEF StreamTypes
<1>4. Sent(v)' /\ CarriesTheLog(v)' /\ Channel(v)' /\ NoneMissed(v)'
  <2>1. got'[v] = <<>> /\ unsent'[v] = <<>> /\ seen'[v] = seen[v]
    BY <1>2 DEF LInv, Sent
  <2>2. Sent(v)'
    BY <1>2, <2>1, EntriesEmpty DEF LInv, Sent
  <2> QED BY <1>2, <2>1, <2>2, QuietKept, EntriesEmpty DEF Listening
<1> QED BY <1>0, <1>1, <1>3, <1>4, ViewFrame, OthersKept DEF LInv

LEMMA ReadRowsKeeps == ASSUME LInv, NEW v \in Viewers, ReadRows(v) PROVE LInv'
<1> USE ViewerTypes DEF At, vars, busVars, logVars, pageVars
<1>0. View(v)
  BY DEF View, Serve
<1>1. IInv' /\ EmittersDiffer'
  BY LogKept DEF LInv, ReadRows
<1>2. /\ vpc[v] = "ended" /\ vpc' = [vpc EXCEPT ![v] = "rows"]
      /\ UNCHANGED <<queue, subscribed, since, got, seen, lastId>>
  BY DEF ReadRows
<1>3. PICK s : /\ s \in [1..Cardinality({n \in log : n > since[v]}) -> {n \in log : n > since[v]}]
               /\ Ascending(s) /\ unsent' = [unsent EXCEPT ![v] = s]
  BY DEF ReadRows
<1>4. /\ s \in Seq(Nat) /\ Entries(s) \subseteq log
      /\ Distinct(s)
  <2> DEFINE rows == {n \in log : n > since[v]}
             k == Cardinality(rows)
  <2>1. IsFiniteSet(log) /\ rows \subseteq log
    BY DEF LInv, IInv, Inv
  <2>2. k \in Nat
    BY <2>1, FS_Subset, FS_CardinalityType
  <2>3. s \in [1..k -> rows] /\ rows \subseteq Nat
    BY <1>3
  <2> HIDE DEF rows, k
  <2>4. s \in Seq(rows) /\ Len(s) = k /\ DOMAIN s = 1..k
    BY <2>2, <2>3
  <2>5. s \in Seq(Nat)
    <3>1. s \in [1..k -> Nat]
      BY <2>3
    <3> QED BY <2>2, <3>1
  <2>6. Distinct(s)
    <3>1. \A i, j \in 1..k : i < j => s[i] < s[j]
      BY <1>3, <2>4 DEF Ascending
    <3>2. \A i \in 1..k : s[i] \in Nat
      BY <2>3
    <3> QED BY <2>2, <2>4, <3>1, <3>2 DEF Distinct
  <2> QED BY <2>1, <2>4, <2>5, <2>6, EntriesIn
<1>5. StreamTypes'
  <2>1. vpc'[v] = "rows" /\ vpc' \in [Viewers -> ViewerPCs] /\ unsent' \in [Viewers -> Seq(Nat)]
    BY <1>2, <1>3, <1>4 DEF ViewerPCs
  <2>2. v \in subscribed' <=> vpc'[v] \in Listening
    BY <1>2, <2>1 DEF LInv, StreamTypes, Listening
  <2> QED BY <1>0, <1>2, <2>1, <2>2, MembershipKept DEF StreamTypes
<1>6. Sent(v)' /\ CarriesTheLog(v)' /\ Channel(v)' /\ NoneMissed(v)'
  <2>1. got'[v] = <<>> /\ unsent'[v] = s /\ seen'[v] = seen[v] /\ vpc'[v] = "rows"
    BY <1>2, <1>3 DEF LInv, Sent
  <2>2. Sent(v)'
    BY <1>2, <1>4, <2>1, EntriesEmpty DEF LInv, Sent
  <2> QED BY <1>1, <1>2, <1>4, <2>1, <2>2, QuietKept, EntriesEmpty, ViewLeavesTheLog, <1>0 DEF Listening
<1> QED BY <1>0, <1>1, <1>5, <1>6, ViewFrame, OthersKept, ViewLeavesTheLog DEF LInv

LEMMA SubscribeKeeps == ASSUME LInv, NEW v \in Viewers, Subscribe(v) PROVE LInv'
<1> USE ViewerTypes DEF Subscribe, At, pageVars
<1>0. View(v) /\ UNCHANGED logVars
  BY DEF View, Serve
<1>1. IInv' /\ EmittersDiffer'
  <2>1. queue' \in [Viewers -> Seq(Frame)] /\ subscribed' \subseteq Viewers
    OBVIOUS
  <2> QED BY <1>0, <2>1, LogKept DEF LInv
<1>2. StreamTypes'
  <2>1. vpc'[v] = "replay" /\ vpc' \in [Viewers -> ViewerPCs] /\ v \in subscribed'
    BY DEF ViewerPCs
  <2> QED BY <1>0, <2>1, MembershipKept DEF StreamTypes, Listening
<1>3. /\ got'[v] = <<>> /\ unsent'[v] = <<>> /\ queue'[v] = <<>> /\ seen'[v] = {}
      /\ vpc'[v] = "replay"
  BY EntriesEmpty DEF LInv, Sent
<1>4. Sent(v)' /\ CarriesTheLog(v)' /\ Channel(v)' /\ NoneMissed(v)'
  BY <1>3, BlankKept
<1> QED BY <1>0, <1>1, <1>2, <1>4, ViewFrame, OthersKept DEF LInv

(* The handler returns: its channel and what it held are gone. *)
LEMMA ReturnKeeps ==
    ASSUME LInv, NEW v \in Viewers, ReadClose(v) \/ Disconnect(v)
    PROVE  LInv'
<1> USE ViewerTypes DEF At, Returns, Unsubscribes, pageVars
<1>0. View(v) /\ UNCHANGED logVars
  BY DEF View, Serve, ReadClose, Disconnect
<1>1. /\ subscribed' = subscribed \ {v} /\ queue' = [queue EXCEPT ![v] = <<>>]
      /\ vpc' = [vpc EXCEPT ![v] = "off"]
      /\ since' = [since EXCEPT ![v] = 0] /\ unsent' = [unsent EXCEPT ![v] = <<>>]
      /\ seen' = [seen EXCEPT ![v] = {}] /\ got' = [got EXCEPT ![v] = <<>>]
      /\ lastId' = lastId
  BY DEF ReadClose, Disconnect
<1>2. IInv' /\ EmittersDiffer'
  <2>1. queue' \in [Viewers -> Seq(Frame)] /\ subscribed' \subseteq Viewers
    BY <1>1
  <2> QED BY <1>0, <2>1, LogKept DEF LInv
<1>3. StreamTypes'
  <2>1. /\ vpc'[v] = "off" /\ vpc' \in [Viewers -> ViewerPCs] /\ v \notin subscribed'
        /\ since' \in [Viewers -> Nat] /\ lastId' \in [Viewers -> Nat]
        /\ unsent' \in [Viewers -> Seq(Nat)] /\ got' \in [Viewers -> Seq(Nat)]
        /\ seen' \in [Viewers -> SUBSET Nat]
    BY <1>1 DEF ViewerPCs
  <2> QED BY <1>0, <2>1, MembershipKept DEF StreamTypes, Listening
<1>4. Sent(v)' /\ CarriesTheLog(v)' /\ Channel(v)' /\ NoneMissed(v)'
  BY <1>1, BlankKept
<1> QED BY <1>0, <1>2, <1>3, <1>4, ViewFrame, OthersKept DEF LInv

LEMMA RowsSentKeeps == ASSUME LInv, NEW v \in Viewers, RowsSent(v) PROVE LInv'
<1> USE ViewerTypes DEF RowsSent, At, Returns, vars, busVars, logVars
<1>0. View(v) /\ UNCHANGED logVars
  BY DEF View, Serve
<1>1. IInv' /\ EmittersDiffer'
  BY <1>0, LogKept DEF LInv
<1>2. StreamTypes'
  <2>1. /\ vpc'[v] = "off" /\ vpc' \in [Viewers -> ViewerPCs]
        /\ since' \in [Viewers -> Nat] /\ lastId' \in [Viewers -> Nat]
        /\ unsent' \in [Viewers -> Seq(Nat)] /\ got' \in [Viewers -> Seq(Nat)]
        /\ seen' \in [Viewers -> SUBSET Nat]
    BY DEF ViewerPCs
  <2>2. v \in subscribed' <=> vpc'[v] \in Listening
    BY <2>1 DEF LInv, StreamTypes, Listening
  <2> QED BY <1>0, <2>1, <2>2, MembershipKept DEF StreamTypes
<1>3. Sent(v)' /\ CarriesTheLog(v)' /\ Channel(v)' /\ NoneMissed(v)'
  <2>1. got'[v] = <<>> /\ unsent'[v] = <<>> /\ seen'[v] = {} /\ vpc'[v] = "off"
        /\ UNCHANGED queue[v]
    OBVIOUS
  <2>2. Sent(v)'
    BY <2>1, EntriesEmpty DEF Sent
  <2> QED BY <1>0, <2>1, <2>2, QuietKept, EntriesEmpty DEF Listening
<1> QED BY <1>0, <1>1, <1>2, <1>3, ViewFrame, OthersKept DEF LInv

LEMMA ReadBufferKeeps == ASSUME LInv, NEW v \in Viewers, ReadBuffer(v) PROVE LInv'
<1> USE ViewerTypes DEF ReadBuffer, At, vars, busVars, logVars, pageVars, rowVars, redisVars
<1>0. View(v) /\ UNCHANGED logVars
  BY DEF View, Serve
<1>1. IInv' /\ EmittersDiffer'
  BY <1>0, LogKept DEF LInv
<1>2. StreamTypes'
  <2>1. vpc'[v] = "write" /\ vpc' \in [Viewers -> ViewerPCs] /\ unsent' \in [Viewers -> Seq(Nat)]
    BY DEF ViewerPCs
  <2>2. v \in subscribed' <=> vpc'[v] \in Listening
    BY <2>1 DEF LInv, StreamTypes, Listening
  <2> QED BY <1>0, <2>1, <2>2, MembershipKept DEF StreamTypes
<1>3. /\ got[v] = <<>> /\ got'[v] = <<>> /\ unsent'[v] = buffer /\ seen'[v] = seen[v]
      /\ vpc[v] = "replay" /\ vpc'[v] = "write" /\ UNCHANGED queue[v] /\ unsent[v] = <<>>
  BY DEF LInv, Sent
<1>4. /\ Entries(got[v]) = {} /\ Entries(got[v])' = {} /\ Queued(v)' = Queued(v)
      /\ Entries(unsent[v])' = Entries(buffer)
      /\ Carried(v)' = Entries(buffer) \cup Queued(v) /\ Queued(v) \subseteq Carried(v)
  BY <1>3, EntriesEmpty DEF Queued, Carried
<1>5. Sent(v)'
  BY <1>3, <1>4, EntriesEmpty DEF LInv, Sent, EmittersDiffer
<1>6. CarriesTheLog(v)'
  BY <1>4 DEF LInv, CarriesTheLog, IInv, Inv, BufferIsPersisted
<1>7. Channel(v)'
  <2>1. QueuedOnce(v)'
    BY <1>3 DEF LInv, Channel, Listening, QueuedOnce
  <2>2. \A r \in Emitters : pc[r] = "push" => mySeq[r] \notin Carried(v)'
    BY <1>3, <1>4 DEF LInv, Channel, Listening, EmittersDiffer
  <2>3. \A r \in Emitters : pc[r] = "publish" => mySeq[r] \notin Queued(v)'
    BY <1>3, <1>4 DEF LInv, Channel, Listening
  <2>4. UNCHANGED <<pc, mySeq>>
    BY DEF emitVars
  <2> QED BY <1>4, <2>1, <2>2, <2>3, <2>4 DEF Channel
<1>8. NoneMissed(v)'
  BY <1>4 DEF NoneMissed, Reaches
<1> QED BY <1>0, <1>1, <1>2, <1>5, <1>6, <1>7, <1>8, ViewFrame, OthersKept DEF LInv

LEMMA BufferSentKeeps == ASSUME LInv, NEW v \in Viewers, BufferSent(v) PROVE LInv'
<1> USE ViewerTypes DEF BufferSent, At, vars, busVars, logVars, pageVars, rowVars, redisVars
<1>0. View(v) /\ UNCHANGED logVars
  BY DEF View, Serve
<1>1. IInv' /\ EmittersDiffer'
  BY <1>0, LogKept DEF LInv
<1>2. StreamTypes'
  <2>1. vpc'[v] = "stream" /\ vpc' \in [Viewers -> ViewerPCs]
    BY DEF ViewerPCs
  <2>2. v \in subscribed' <=> vpc'[v] \in Listening
    BY <2>1 DEF LInv, StreamTypes, Listening
  <2> QED BY <1>0, <2>1, <2>2, MembershipKept DEF StreamTypes
<1>3. /\ UNCHANGED <<got[v], unsent[v], seen[v], since[v], queue[v]>> /\ unsent[v] = <<>>
      /\ vpc[v] = "write" /\ vpc'[v] = "stream" /\ UNCHANGED <<pc, mySeq>>
  BY DEF emitVars
<1>4. /\ Entries(got[v])' = Entries(got[v]) /\ Queued(v)' = Queued(v) /\ Carried(v)' = Carried(v)
  BY <1>3 DEF Queued, Carried
<1>5. Sent(v)'
  BY <1>3 DEF LInv, Sent
<1>6. CarriesTheLog(v)'
  BY <1>4 DEF LInv, CarriesTheLog
<1>7. Channel(v)'
  <2>1. QueuedOnce(v) => QueuedOnce(v)'
    BY <1>3 DEF QueuedOnce
  <2> QED BY <1>3, <1>4, <2>1 DEF LInv, Channel, Listening, Publishing
<1>8. NoneMissed(v)'
  BY <1>3, <1>4 DEF LInv, NoneMissed, Reaches, Underway
<1> QED BY <1>0, <1>1, <1>2, <1>5, <1>6, <1>7, <1>8, ViewFrame, OthersKept DEF LInv

(* Of the replay, what the client does not hold is written and remembered. *)
LEMMA WriteKeeps == ASSUME LInv, NEW v \in Viewers, Write(v) PROVE LInv'
<1>0. View(v) /\ UNCHANGED logVars /\ UNCHANGED <<pc, mySeq, status, log, buffer>>
  BY ViewLeavesTheLog DEF View, Serve, logVars, emitVars, rowVars, redisVars
<1> DEFINE n == Head(unsent[v])
<1>1. /\ vpc[v] \in {"rows", "write"} /\ unsent[v] # <<>>
      /\ unsent' = [unsent EXCEPT ![v] = Tail(unsent[v])]
      /\ UNCHANGED <<queue, subscribed, vpc, since>>
      /\ \/ /\ n > since[v] /\ got' = [got EXCEPT ![v] = Append(got[v], n)]
            /\ lastId' = [lastId EXCEPT ![v] = n]
            /\ seen' = IF vpc[v] = "write" THEN [seen EXCEPT ![v] = seen[v] \cup {n}] ELSE seen
         \/ ~(n > since[v]) /\ UNCHANGED <<got, seen, lastId>>
  BY DEF Write, Send, Remembered, vars, busVars
<1>2. /\ Tail(unsent[v]) \in Seq(Nat) /\ n \in Nat
      /\ Entries(unsent[v]) = {n} \cup Entries(Tail(unsent[v]))
      /\ Distinct(Tail(unsent[v])) /\ n \notin Entries(Tail(unsent[v]))
  BY <1>1, TailEntries, ViewerTypes DEF LInv, Sent
<1>3. n \notin Entries(got[v]) /\ Distinct(got[v])
  BY <1>2 DEF LInv, Sent
<1>4. /\ Append(got[v], n) \in Seq(Nat) /\ Distinct(Append(got[v], n))
      /\ Entries(Append(got[v], n)) = Entries(got[v]) \cup {n}
  BY <1>2, <1>3, AppendEntries, ViewerTypes
<1> HIDE DEF n
<1>5. IInv' /\ EmittersDiffer'
  BY <1>0, <1>1, LogKept, ViewerTypes DEF LInv
<1>6. StreamTypes'
  <2>1. /\ vpc' \in [Viewers -> ViewerPCs] /\ unsent' \in [Viewers -> Seq(Nat)]
        /\ since' \in [Viewers -> Nat]
    BY <1>1, <1>2, ViewerTypes
  <2>2. got' \in [Viewers -> Seq(Nat)] /\ lastId' \in [Viewers -> Nat]
    BY <1>1, <1>2, <1>4, ViewerTypes
  <2>3. seen' \in [Viewers -> SUBSET Nat]
    <3> DEFINE more == seen[v] \cup {n}
    <3>1. more \in SUBSET Nat
      BY <1>2, ViewerTypes
    <3>2. seen' = seen \/ seen' = [seen EXCEPT ![v] = more]
      BY <1>1
    <3> HIDE DEF more
    <3> QED BY <3>1, <3>2, ViewerTypes
  <2> QED BY <1>1, <2>1, <2>2, <2>3 DEF LInv, StreamTypes
<1>7. /\ unsent'[v] = Tail(unsent[v])
      /\ UNCHANGED <<vpc[v], since[v], queue[v]>>
  BY <1>1, ViewerTypes
<1>8. \/ /\ n > since[v] /\ got'[v] = Append(got[v], n)
         /\ seen'[v] = IF vpc[v] = "write" THEN seen[v] \cup {n} ELSE seen[v]
      \/ ~(n > since[v]) /\ UNCHANGED <<got[v], seen[v]>>
  BY <1>1, ViewerTypes
<1>9. /\ Entries(unsent[v])' \cup {n} = Entries(unsent[v]) /\ n \notin Entries(unsent[v])'
      /\ Queued(v)' = Queued(v) /\ (QueuedOnce(v) => QueuedOnce(v)')
      /\ \/ n > since[v] /\ Entries(got[v])' = Entries(got[v]) \cup {n}
         \/ ~(n > since[v]) /\ Entries(got[v])' = Entries(got[v])
      /\ Distinct(got[v])' /\ Distinct(unsent[v])'
  BY <1>2, <1>3, <1>4, <1>7, <1>8 DEF Queued, QueuedOnce
<1>10. Carried(v)' \subseteq Carried(v) /\ (Carried(v) \subseteq Carried(v)' \cup {n})
       /\ (n > since[v] => n \in Carried(v)')
  BY <1>9 DEF Carried
<1>11. Sent(v)'
  <2>1. \A m \in Entries(got[v])' : m > since'[v]
    BY <1>7, <1>9 DEF LInv, Sent
  <2>2. seen'[v] \subseteq Entries(got[v])'
    BY <1>8, <1>9 DEF LInv, Sent
  <2>3. Entries(unsent[v])' \cap Entries(got[v])' = {}
    BY <1>9 DEF LInv, Sent
  <2>4. vpc'[v] \in {"rows", "write"}
    BY <1>1, <1>7
  <2> QED BY <1>9, <2>1, <2>2, <2>3, <2>4 DEF Sent
<1>12. CarriesTheLog(v)'
  BY <1>0, <1>10 DEF LInv, CarriesTheLog
<1>13. Channel(v)'
  <2> SUFFICES ASSUME vpc'[v] \in Listening PROVE Channel(v)'
    BY DEF Channel
  <2>1. vpc[v] = "write" /\ vpc[v] \in Listening
    BY <1>1, <1>7 DEF Listening
  <2>2. \A m \in Entries(got[v])' : m \in Queued(v) \/ Publishing(m) => m \in seen'[v]
    BY <1>8, <1>9, <2>1 DEF LInv, Channel
  <2> QED BY <1>0, <1>9, <1>10, <2>1, <2>2 DEF LInv, Channel, Publishing
<1>14. NoneMissed(v)'
  <2> SUFFICES ASSUME status' = "live", vpc'[v] \in {"write", "stream"}, NEW m \in Entries(buffer')
               PROVE  Reaches(v, m)'
    BY DEF NoneMissed
  <2>1. Reaches(v, m)
    BY <1>0, <1>7 DEF LInv, NoneMissed
  <2>2. Underway(m) => Underway(m)'
    BY <1>0 DEF Underway
  <2>3. CASE m \in Carried(v)
    <3>1. m \in Carried(v)' \/ (m = n /\ ~(n > since[v]))
      BY <1>10, <2>3
    <3>2. ~(n > since[v]) => n <= since'[v]
      BY <1>2, <1>7, ViewerTypes
    <3> QED BY <3>1, <3>2 DEF Reaches
  <2> QED BY <1>7, <2>1, <2>2, <2>3 DEF Reaches
<1> QED BY <1>0, <1>5, <1>6, <1>11, <1>12, <1>13, <1>14, ViewFrame, OthersKept DEF LInv

(* Of the channel, what was not replayed and is not held is written.        *)
LEMMA ReadEventKeeps == ASSUME LInv, NEW v \in Viewers, ReadEvent(v) PROVE LInv'
<1>0. View(v) /\ UNCHANGED logVars /\ UNCHANGED <<pc, mySeq, status, log, buffer>>
  BY ViewLeavesTheLog DEF View, Serve, logVars, emitVars, rowVars, redisVars
<1> DEFINE f == Head(queue[v])
           n == f.seq
<1>1. /\ vpc[v] = "stream" /\ queue[v] # <<>> /\ f.type = "event"
      /\ queue' = [queue EXCEPT ![v] = Tail(queue[v])]
      /\ UNCHANGED <<subscribed, vpc, since, unsent>>
      /\ \/ /\ n <= since[v] \/ n \in seen[v]
            /\ seen' = [seen EXCEPT ![v] = seen[v] \ {n}] /\ UNCHANGED <<got, lastId>>
         \/ /\ ~(n <= since[v]) /\ n \notin seen[v]
            /\ got' = [got EXCEPT ![v] = Append(got[v], n)]
            /\ lastId' = [lastId EXCEPT ![v] = n] /\ UNCHANGED seen
  BY DEF ReadEvent, Reads, Skip, Send
<1>2. /\ queue[v] \in Seq(Frame) /\ Tail(queue[v]) \in Seq(Frame) /\ f \in Frame
      /\ Entries(queue[v]) = {f} \cup Entries(Tail(queue[v]))
  BY <1>1, TailEntries, ViewerTypes
<1>3. n \in Nat /\ f = EventFrame(n) /\ \A m : EventFrame(m) = f <=> m = n
  BY <1>1, <1>2 DEF Frame, EventFrame
<1>4. QueuedOnce(v)
  BY <1>1 DEF LInv, Channel, Listening
<1>5. f \notin Entries(Tail(queue[v])) /\ QueuedOnce(v)'
  <2>1. PICK q : q = queue[v]
    OBVIOUS
  <2>2. PICK t : t = Tail(queue[v])
    OBVIOUS
  <2>3. /\ Len(q) \in Nat \ {0} /\ Len(t) = Len(q) - 1 /\ f = q[1]
        /\ \A i \in 1..Len(t) : t[i] = q[i + 1] /\ i + 1 \in 1..Len(q)
    <3>1. /\ Len(q) \in Nat \ {0} /\ Len(t) = Len(q) - 1 /\ f = q[1]
          /\ \A i \in 1..Len(t) : t[i] = q[i + 1]
      BY <1>1, <1>2, <2>1, <2>2, HeadTailProperties, EmptySeq, LenProperties
    <3> QED BY <3>1
  <2>4. \A i, j \in 1..Len(q) : q[i].type = "event" /\ q[i] = q[j] => i = j
    BY <1>4, <2>1 DEF QueuedOnce
  <2>5. f \notin Entries(t)
    BY <1>1, <2>3, <2>4 DEF Entries
  <2>6. \A i, j \in 1..Len(t) : t[i].type = "event" /\ t[i] = t[j] => i = j
    BY <2>3, <2>4
  <2>7. queue'[v] = t
    BY <1>1, <2>2, ViewerTypes
  <2> QED BY <2>2, <2>5, <2>6, <2>7 DEF QueuedOnce
<1>6. Queued(v) = {n} \cup Queued(v)' /\ n \notin Queued(v)'
  <2>1. queue'[v] = Tail(queue[v])
    BY <1>1, ViewerTypes
  <2> QED BY <1>2, <1>3, <1>5, <2>1 DEF Queued
<1>7. /\ Append(got[v], n) \in Seq(Nat)
      /\ Entries(Append(got[v], n)) = Entries(got[v]) \cup {n}
      /\ n \notin Entries(got[v]) => Distinct(Append(got[v], n))
  <2>1. got[v] \in Seq(Nat) /\ Distinct(got[v])
    BY ViewerTypes DEF LInv, Sent
  <2> HIDE DEF n
  <2> QED BY <1>3, <2>1, AppendEntries
<1>8. n \in Entries(got[v]) => n \in seen[v]
  BY <1>1, <1>6 DEF LInv, Channel, Listening
<1>9. \A r \in Emitters : pc[r] = "publish" => mySeq[r] # n
  BY <1>1, <1>6 DEF LInv, Channel, Listening
<1> HIDE DEF n, f
<1>10. IInv' /\ EmittersDiffer'
  <2>1. queue' \in [Viewers -> Seq(Frame)] /\ subscribed' \subseteq Viewers
    BY <1>1, <1>2, ViewerTypes
  <2> QED BY <1>0, <2>1, LogKept DEF LInv
<1>11. StreamTypes'
  <2>1. got' \in [Viewers -> Seq(Nat)] /\ lastId' \in [Viewers -> Nat]
    BY <1>1, <1>3, <1>7, ViewerTypes
  <2>2. seen' \in [Viewers -> SUBSET Nat]
    <3> DEFINE less == seen[v] \ {n}
    <3>1. less \in SUBSET Nat
      BY ViewerTypes
    <3>2. seen' = seen \/ seen' = [seen EXCEPT ![v] = less]
      BY <1>1
    <3> HIDE DEF less
    <3> QED BY <3>1, <3>2, ViewerTypes
  <2> QED BY <1>1, <2>1, <2>2 DEF LInv, StreamTypes
<1>12. /\ UNCHANGED <<vpc[v], since[v], unsent[v]>> /\ unsent[v] = <<>>
       /\ Entries(unsent[v]) = {} /\ Entries(unsent[v])' = {}
  BY <1>1, EntriesEmpty DEF LInv, Sent
<1>13. \/ /\ n <= since[v] \/ n \in seen[v]
          /\ seen'[v] = seen[v] \ {n} /\ UNCHANGED got[v]
       \/ /\ ~(n <= since[v]) /\ n \notin seen[v]
          /\ got'[v] = Append(got[v], n) /\ UNCHANGED seen[v]
  BY <1>1, ViewerTypes
<1>14. \/ /\ n <= since[v] \/ n \in Entries(got[v])
          /\ seen'[v] = seen[v] \ {n} /\ got'[v] = got[v] /\ Entries(got[v])' = Entries(got[v])
       \/ /\ n > since[v] /\ n \notin Entries(got[v])
          /\ Entries(got[v])' = Entries(got[v]) \cup {n} /\ Distinct(got[v])'
          /\ seen'[v] = seen[v]
  <2>1. seen[v] \subseteq Entries(got[v])
    BY DEF LInv, Sent
  <2>2. ~(n <= since[v]) => n > since[v]
    BY <1>3, ViewerTypes
  <2> QED BY <1>7, <1>8, <1>13, <2>1, <2>2
<1>15. Sent(v)'
  <2>1. Distinct(got[v])' /\ Distinct(unsent[v])'
    BY <1>12, <1>14, EntriesEmpty DEF LInv, Sent
  <2>2. \A m \in Entries(got[v])' : m > since'[v]
    BY <1>12, <1>14 DEF LInv, Sent
  <2>3. seen'[v] \subseteq Entries(got[v])'
    BY <1>14 DEF LInv, Sent
  <2>4. vpc'[v] = "stream" /\ unsent'[v] = <<>>
    BY <1>1, <1>12
  <2> QED BY <1>12, <2>1, <2>2, <2>3, <2>4 DEF Sent
<1>16. Carried(v)' \subseteq Carried(v) /\ (Carried(v) \subseteq Carried(v)' \cup {n})
       /\ (n \in Carried(v)' \/ n <= since[v])
  BY <1>6, <1>12, <1>14 DEF Carried
<1>17. CarriesTheLog(v)'
  BY <1>0, <1>16 DEF LInv, CarriesTheLog
<1>18. Channel(v)'
  <2>1. vpc[v] \in Listening
    BY <1>1 DEF Listening
  <2>2. ASSUME NEW m \in Entries(got[v])', m \in Queued(v)' \/ Publishing(m) PROVE m \in seen'[v]
    <3>1. m # n
      BY <1>6, <1>9, <2>2 DEF Publishing
    <3>2. m \in Entries(got[v]) /\ (m \in Queued(v) \/ Publishing(m))
      BY <1>6, <1>14, <2>2, <3>1
    <3>3. m \in seen[v]
      BY <2>1, <3>2 DEF LInv, Channel
    <3> QED BY <1>14, <3>1, <3>3
  <2> QED BY <1>0, <1>5, <1>6, <1>16, <2>1, <2>2 DEF LInv, Channel, Publishing
<1>19. NoneMissed(v)'
  <2> SUFFICES ASSUME status' = "live", NEW m \in Entries(buffer') PROVE Reaches(v, m)'
    BY DEF NoneMissed
  <2>1. Reaches(v, m)
    BY <1>0, <1>1 DEF LInv, NoneMissed
  <2>2. Underway(m) => Underway(m)'
    BY <1>0 DEF Underway
  <2> QED BY <1>12, <1>16, <2>1, <2>2 DEF Reaches
<1> QED BY <1>0, <1>10, <1>11, <1>15, <1>17, <1>18, <1>19, ViewFrame, OthersKept DEF LInv

-----------------------------------------------------------------------------
(* The invariant is inductive. *)

LEMMA LInvInit == LiveInit => LInv
<1> SUFFICES ASSUME LiveInit PROVE LInv
  OBVIOUS
<1>1. IInv
  BY IInvInit DEF LiveInit
<1>2. EmittersDiffer
  <2>1. \A r \in Emitters : pc[r] = "check"
    BY DEF LiveInit, Init, Calls
  <2> QED BY <2>1, EntriesEmpty DEF LiveInit, Init, EmittersDiffer, Emitting
<1>3. StreamTypes
  BY DEF LiveInit, Init, StreamTypes, ViewerPCs, Listening
<1>4. ASSUME NEW v \in Viewers PROVE Sent(v) /\ CarriesTheLog(v) /\ Channel(v) /\ NoneMissed(v)
  <2>1. /\ got[v] = <<>> /\ unsent[v] = <<>> /\ queue[v] = <<>> /\ seen[v] = {}
        /\ vpc[v] = "load"
    BY DEF LiveInit, Init
  <2>2. Queued(v) = {}
    BY <2>1, EntriesEmpty DEF Queued
  <2> QED BY <2>1, <2>2, EntriesEmpty DEF Sent, CarriesTheLog, Carried, Channel, NoneMissed, Listening
<1> QED BY <1>1, <1>2, <1>3, <1>4 DEF LInv

LEMMA SessionKeeps ==
    ASSUME LInv, SessionMoves, UNCHANGED <<streamVars, pageVars>>
    PROVE  LInv'
<1>1. IInv' /\ EmittersDiffer'
  BY IInvStep, DifferStep, MovesIsNext DEF LInv
<1> QED BY <1>1, SessionKeepsTypes, SessionKeepsSent, SessionKeepsLog, SessionKeepsChannel,
           SessionKeepsNoneMissed DEF LInv

LEMMA CrashKeeps == ASSUME LInv, LiveCrash PROVE LInv'
<1>1. Crash /\ [Next]_vars
  BY DEF LiveCrash, Next
<1>2. IInv' /\ EmittersDiffer'
  BY <1>1, IInvStep, DifferStep DEF LInv
<1>3. /\ subscribed' = {} /\ queue' = [v \in Viewers |-> <<>>]
      /\ vpc' = [v \in Viewers |-> IF vpc[v] = "load" THEN "load" ELSE "off"]
      /\ since' = [v \in Viewers |-> 0] /\ unsent' = [v \in Viewers |-> <<>>]
      /\ seen' = [v \in Viewers |-> {}] /\ got' = [v \in Viewers |-> <<>>]
      /\ lastId' = lastId
  BY DEF LiveCrash, Crash, pageVars
<1>4. StreamTypes'
  BY <1>3, ViewerTypes DEF StreamTypes, ViewerPCs, Listening
<1>5. ASSUME NEW v \in Viewers
      PROVE  Sent(v)' /\ CarriesTheLog(v)' /\ Channel(v)' /\ NoneMissed(v)'
  BY <1>3, BlankKept
<1> QED BY <1>2, <1>4, <1>5 DEF LInv

LEMMA LInvStep == LInv /\ [LiveNext]_liveVars => LInv'
<1> SUFFICES ASSUME LInv, [LiveNext]_liveVars PROVE LInv'
  OBVIOUS
<1>1. ASSUME NEW v \in Viewers, View(v) PROVE LInv'
  <2>1. CASE NotFound(v)
    BY <1>1, <2>1, UntouchedKeeps DEF NotFound
  <2> QED BY <1>1, <2>1, LoadKeeps, ConnectKeeps, ReadRowsKeeps, SubscribeKeeps, ReadBufferKeeps,
             WriteKeeps, RowsSentKeeps, BufferSentKeeps, ReadEventKeeps, ReturnKeeps
          DEF View, Serve
<1>2. CASE SessionMoves /\ UNCHANGED <<streamVars, pageVars>>
  BY <1>2, SessionKeeps
<1>3. CASE UNCHANGED liveVars
  BY <1>3, SessionKeeps DEF liveVars, SessionMoves
<1> QED BY <1>1, <1>2, <1>3, CrashKeeps DEF LiveNext, SessionMoves

LEMMA LiveInvariance == LiveSpec => []LInv
BY LInvInit, LInvStep, PTL DEF LiveSpec

-----------------------------------------------------------------------------
(* The pages. *)

PageTypes ==
    /\ connects \in [Viewers -> 0..MaxConnects]
    /\ early \in [Viewers -> BOOLEAN] /\ leaving \in [Viewers -> BOOLEAN]

LEMMA PageInit == LiveInit => PageTypes
BY ConnectsAssumption DEF LiveInit, PageTypes

LEMMA PageStep == LInv /\ PageTypes /\ [LiveNext]_liveVars => PageTypes'
<1> SUFFICES ASSUME LInv, PageTypes, [LiveNext]_liveVars PROVE PageTypes'
  OBVIOUS
<1>1. ASSUME NEW v \in Viewers, View(v) PROVE PageTypes'
  <2> USE DEF pageVars, streamVars
  <2>1. CASE Load(v) \/ Write(v) \/ ReadEvent(v)
    BY <2>1 DEF Load, Write, ReadEvent, PageTypes
  <2>2. CASE Connect(v)
    BY <2>2, ConnectsAssumption DEF Connect, PageTypes
  <2>3. CASE NotFound(v)
    BY <2>3, ConnectsAssumption DEF NotFound, PageTypes
  <2>4. CASE ReadRows(v) \/ ReadBuffer(v) \/ BufferSent(v)
    BY <2>4 DEF ReadRows, ReadBuffer, BufferSent, PageTypes
  <2>5. CASE Subscribe(v)
    <3> DEFINE b == status = "live"
    <3>1. early' = [early EXCEPT ![v] = b] /\ b \in BOOLEAN /\ early \in [Viewers -> BOOLEAN]
      BY <2>5, Zenon DEF Subscribe, PageTypes
    <3> HIDE DEF b
    <3>2. early' \in [Viewers -> BOOLEAN]
      BY <3>1, Zenon
    <3> QED BY <2>5, <3>2 DEF Subscribe, PageTypes
  <2>6. CASE RowsSent(v) \/ ReadClose(v) \/ Disconnect(v)
    BY <2>6, Zenon DEF RowsSent, ReadClose, Disconnect, Returns, PageTypes
  <2> QED BY <1>1, <2>1, <2>2, <2>3, <2>4, <2>5, <2>6 DEF View, Serve
<1>2. CASE UNCHANGED <<streamVars, pageVars>>
  BY <1>2 DEF streamVars, pageVars, PageTypes
<1>3. CASE LiveCrash
  BY <1>3 DEF LiveCrash, pageVars, PageTypes
<1>4. CASE UNCHANGED liveVars
  BY <1>4 DEF liveVars, streamVars, pageVars, PageTypes
<1> QED BY <1>1, <1>2, <1>3, <1>4 DEF LiveNext

-----------------------------------------------------------------------------
(* The theorems. *)

(* Viewers and the session are correctly typed, and a connection is         *)
(* subscribed exactly while its handler listens: a stream that is dropped,  *)
(* is told, or dies with the server leaves no subscription behind.          *)
THEOREM LiveTypeCorrect == LiveSpec => []LiveTypeOK
<1>1. LInv /\ PageTypes => LiveTypeOK
  BY DEF LInv, PageTypes, LiveTypeOK, StreamTypes, IInv, Inv
<1>2. LiveSpec => []PageTypes
  BY PageInit, PageStep, LiveInvariance, PTL DEF LiveSpec
<1> QED BY <1>1, <1>2, LiveInvariance, PTL

(* No connection sends an event twice, nor one its client holds, however    *)
(* emitters, enders, crashes and drops interleave with its replay.          *)
THEOREM NothingIsSentTwice == LiveSpec => []NoDuplicateSend
<1>1. LInv => NoDuplicateSend
  <2> SUFFICES ASSUME LInv, NEW v \in Viewers
               PROVE  IsInjective(got[v]) /\ \A n \in Entries(got[v]) : n > since[v]
    BY DEF NoDuplicateSend
  <2>1. got[v] \in Seq(Nat) /\ Sent(v)
    BY ViewerTypes DEF LInv
  <2>2. DOMAIN got[v] = 1..Len(got[v])
    BY <2>1
  <2> QED BY <2>1, <2>2 DEF Sent, Distinct, IsInjective
<1> QED BY <1>1, LiveInvariance, PTL

(* On a stream of a live session no buffered event is missed, but for one   *)
(* whose emitter was cut off before it could publish.                       *)
THEOREM NothingIsMissed == LiveSpec => []NothingMissed
<1>1. LInv => NothingMissed
  <2> SUFFICES ASSUME LInv, status = "live", NEW v \in Viewers, vpc[v] = "stream",
                      NEW n \in Entries(buffer)
               PROVE  \/ n <= since[v]
                      \/ n \in Entries(got[v])
                      \/ EventFrame(n) \in Entries(queue[v])
                      \/ \E r \in Emitters : mySeq[r] = n /\ pc[r] \in {"publish", "failed"}
    BY DEF NothingMissed
  <2>1. Reaches(v, n)
    BY DEF LInv, NoneMissed
  <2>2. Entries(unsent[v]) = {}
    BY EntriesEmpty DEF LInv, Sent
  <2> QED BY <2>1, <2>2 DEF Reaches, Carried, Queued, Underway
<1> QED BY <1>1, LiveInvariance, PTL
=============================================================================
