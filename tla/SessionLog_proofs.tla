-------------------------- MODULE SessionLog_proofs --------------------------
(***************************************************************************)
(* Theorems about SessionLog, for any number of calls and any limit.       *)
(***************************************************************************)
EXTENDS SessionLog, FiniteSetTheorems, SequenceTheorems, WellFoundedInduction, TLAPS

-----------------------------------------------------------------------------
(* Lemmas about the operators. *)

(* A bounded set of naturals has a maximum: the least of its upper bounds. *)
LEMMA BoundedHasMax ==
    ASSUME NEW S \in SUBSET Nat, S # {}, NEW b \in Nat, \A n \in S : n <= b
    PROVE  \E n \in S : \A m \in S : m <= n
<1> DEFINE Uppers == {k \in Nat : \A n \in S : n <= k}
<1>1. Uppers # {} /\ Uppers \subseteq Nat
  OBVIOUS
<1>2. PICK k \in Uppers : \A y \in Uppers : ~(<<y, k>> \in OpToRel(<, Nat))
  <2> HIDE DEF Uppers
  <2> QED BY <1>1, NatLessThanWellFounded, WFMin
<1>3. k \in Nat /\ \A n \in S : n <= k
  OBVIOUS
<1>4. k \in S
  <2> SUFFICES ASSUME k \notin S PROVE FALSE
    OBVIOUS
  <2>1. \A n \in S : n <= k - 1
    BY <1>3
  <2>2. k - 1 \in Uppers
    <3>1. PICK n \in S : TRUE
      OBVIOUS
    <3>2. n \in Nat /\ n <= k - 1
      BY <2>1
    <3> QED BY <2>1, <1>3, <3>2
  <2>3. <<k - 1, k>> \in OpToRel(<, Nat)
    BY <2>2, <1>3 DEF OpToRel
  <2> QED BY <1>2, <2>2, <2>3
<1> QED BY <1>3, <1>4

(* Appending to a sequence adds one entry. *)
LEMMA EntriesAppend ==
    ASSUME NEW T, NEW s \in Seq(T), NEW x \in T
    PROVE  Entries(Append(s, x)) = Entries(s) \cup {x}
<1> DEFINE t == Append(s, x)
<1>1. /\ t \in Seq(T) /\ Len(t) = Len(s) + 1 /\ t[Len(s) + 1] = x
      /\ \A i \in 1..Len(s) : t[i] = s[i]
  BY AppendProperties
<1>2. Len(s) \in Nat
  BY LenProperties
<1> QED BY <1>1, <1>2 DEF Entries

-----------------------------------------------------------------------------
(* Types. *)

LogBounded == \E b \in Nat : \A n \in log : n <= b

LEMMA MaxSeqType ==
    ASSUME log \subseteq Nat, LogBounded
    PROVE  MaxSeq \in Nat
<1>1. CASE log = {}
  BY <1>1 DEF MaxSeq
<1>2. CASE log # {}
  <2>1. PICK b \in Nat : \A n \in log : n <= b
    BY DEF LogBounded
  <2>2. \E n \in log : \A m \in log : m <= n
    BY <1>2, <2>1, BoundedHasMax
  <2> QED BY <1>2, <2>2 DEF MaxSeq
<1> QED BY <1>1, <1>2

(* Publishing keeps the queues sequences of frames. *)
LEMMA PublishType ==
    ASSUME TypeOK, NEW f \in Frame, Publish(f)
    PROVE  subscribed' \subseteq Viewers /\ queue' \in [Viewers -> Seq(Frame)]
BY DEF TypeOK, Publish

LEMMA FramesType ==
    /\ \A n \in Nat : EventFrame(n) \in Frame
    /\ EndedFrame \in Frame /\ DeletedFrame \in Frame
BY DEF Frame, EventFrame, EndedFrame, DeletedFrame

TInv == TypeOK /\ LogBounded /\ PcOK /\ Allocated

LEMMA TInvInit == Init => TInv
<1> SUFFICES ASSUME Init PROVE TInv
  OBVIOUS
<1>1. NoFile \in [exists : BOOLEAN, body : Seq(Nat)]
  BY DEF NoFile
<1>2. TypeOK
  <2>1. /\ <<>> \in Seq(Nat) /\ <<>> \in Seq(Frame)
    OBVIOUS
  <2>2. /\ crossed \in [Emitters -> BOOLEAN] /\ storageKey \in BOOLEAN
    BY Zenon DEF Init
  <2>3. /\ blob \in [exists : BOOLEAN, body : Seq(Nat)]
    BY <1>1, Zenon DEF Init
  <2> QED BY <2>1, <2>2, <2>3 DEF Init, TypeOK, EmitPCs
<1>3. LogBounded
  BY DEF Init, LogBounded
<1>4. PcOK /\ Allocated
  BY DEF Init, PcOK, Allocated, Calls, EmitPCs, EndPCs
<1> QED BY <1>2, <1>3, <1>4 DEF TInv

LEMMA TypeStep == TInv /\ [Next]_vars => TypeOK'
<1> SUFFICES ASSUME TInv, [Next]_vars PROVE TypeOK'
  OBVIOUS
<1> USE DEF TInv, TypeOK
<1>0. pc \in [Calls -> EmitPCs \cup EndPCs \cup Over]
  OBVIOUS
<1>1. ASSUME NEW c \in Calls, NEW l \in EmitPCs \cup EndPCs \cup Over, Goto(c, l)
      PROVE  pc' \in [Calls -> EmitPCs \cup EndPCs \cup Over]
  BY <1>0, <1>1, Zenon DEF Goto
<1> USE DEF Goto, rowVars, redisVars, busVars, emitVars, Calls
<1>2. ASSUME NEW r \in Emitters, Emit(r) PROVE TypeOK'
  <2>1. CASE EmitCheck(r)
    BY <2>1 DEF EmitCheck, EmitPCs, Over
  <2>2. CASE EmitIncr(r)
    BY <2>2 DEF EmitIncr, NextSeq, EmitPCs
  <2>3. CASE EmitAppend(r)
    <3> DEFINE x == leg[r] = "event" /\ Crosses(eventCount + 1)
    <3>1. crossed' \in [Emitters -> BOOLEAN]
      <4>1. x \in BOOLEAN
        OBVIOUS
      <4>2. crossed' = [crossed EXCEPT ![r] = x] /\ crossed \in [Emitters -> BOOLEAN]
        BY <2>3, Zenon DEF EmitAppend
      <4> HIDE DEF x
      <4> QED BY <4>1, <4>2, Zenon
    <3>2. log' \subseteq Nat \ {0} /\ eventCount' \in Nat
      <4>1. /\ log' = log \cup {mySeq[r]} /\ eventCount' = eventCount + 1
            /\ pc[r] = "append"
        BY <2>3, Zenon DEF EmitAppend
      <4>2. mySeq[r] \in Nat \ {0}
        BY <4>1 DEF Allocated
      <4>3. log \subseteq Nat \ {0} /\ eventCount \in Nat
        OBVIOUS
      <4>4. log' \subseteq Nat \ {0}
        BY <4>1, <4>2, <4>3, Zenon
      <4>5. eventCount' \in Nat
        BY <4>1, <4>3
      <4> QED BY <4>4, <4>5
    <3>3. pc' \in [Calls -> EmitPCs \cup EndPCs \cup Over]
      BY <2>3 DEF EmitAppend, EmitPCs
    <3> QED BY <2>3, <3>1, <3>2, <3>3, Zenon DEF EmitAppend
  <2>4. CASE EmitRefused(r)
    BY <2>4 DEF EmitRefused, EmitPCs, Over
  <2>5. CASE EmitPush(r)
    BY <2>5 DEF EmitPush, EmitPCs
  <2>6. CASE EmitPublish(r)
    BY <2>6, PublishType, FramesType DEF EmitPublish, EmitPCs, Over
  <2>7. CASE QuotaEnd(r)
    BY <2>7 DEF QuotaEnd, EmitPCs
  <2>8. CASE QuotaHandoff(r)
    <3>1. MaxSeq \in Nat
      BY MaxSeqType
    <3> QED BY <2>8, <3>1 DEF QuotaHandoff, Over
  <2> QED BY <1>2, <2>1, <2>2, <2>3, <2>4, <2>5, <2>6, <2>7, <2>8 DEF Emit
<1>3. ASSUME NEW e \in Enders, End(e) PROVE TypeOK'
  <2> USE DEF EndPCs, Over
  <2>1. CASE StopCheck(e)
    BY <2>1 DEF StopCheck
  <2>2. CASE StopRead(e)
    BY <2>2 DEF StopRead
  <2>3. CASE StopPut(e)
    <3>1. blob' \in [exists : BOOLEAN, body : Seq(Nat)]
      BY <2>3 DEF StopPut
    <3> QED BY <2>3, <3>1 DEF StopPut
  <2>4. CASE StopRow(e)
    BY <2>4 DEF StopRow
  <2>5. CASE IdleEnd(e)
    BY <2>5 DEF IdleEnd
  <2>6. CASE EndTell(e)
    BY <2>6, PublishType, FramesType DEF EndTell
  <2>7. CASE EndDrop(e)
    BY <2>7 DEF EndDrop
  <2>8. CASE DeleteCheck(e)
    BY <2>8 DEF DeleteCheck
  <2>9. CASE DeleteTell(e)
    BY <2>9, PublishType, FramesType DEF DeleteTell
  <2>10. CASE DeleteRow(e)
    BY <2>10 DEF DeleteRow
  <2>11. CASE DeleteKeys(e)
    BY <2>11 DEF DeleteKeys
  <2>12. CASE DeleteBlob(e)
    <3>1. blob' \in [exists : BOOLEAN, body : Seq(Nat)]
      BY <2>12 DEF DeleteBlob, NoFile
    <3> QED BY <2>12, <3>1 DEF DeleteBlob
  <2> QED BY <1>3, <2>1, <2>2, <2>3, <2>4, <2>5, <2>6, <2>7, <2>8, <2>9, <2>10, <2>11, <2>12 DEF End
<1>4. ASSUME NEW c \in Calls, Cancel(c) PROVE TypeOK'
  BY <1>4 DEF Cancel, EndPCs, Over
<1>5. CASE Crash
  BY <1>5 DEF Crash, Over
<1>6. CASE UNCHANGED vars
  BY <1>6 DEF vars
<1> QED BY <1>2, <1>3, <1>4, <1>5, <1>6 DEF Next

(* Where a step moves a call: an action of one call moves that call only.   *)
LEMMA PcStep == TInv /\ [Next]_vars => PcOK' /\ Allocated'
<1> SUFFICES ASSUME TInv, [Next]_vars PROVE PcOK' /\ Allocated'
  OBVIOUS
<1> USE CallsAssumption DEF TInv, TypeOK, PcOK, Allocated, Goto, Calls, EmitPCs, EndPCs, Over,
        emitVars
<1>1. ASSUME NEW r \in Emitters, Emit(r) PROVE PcOK' /\ Allocated'
  <2>1. CASE EmitIncr(r)
    BY <2>1 DEF EmitIncr, NextSeq
  <2>2. CASE EmitAppend(r)
    BY <2>2 DEF EmitAppend
  <2>3. CASE EmitCheck(r) \/ EmitRefused(r) \/ EmitPush(r) \/ EmitPublish(r)
    BY <2>3 DEF EmitCheck, EmitRefused, EmitPush, EmitPublish
  <2>4. CASE QuotaEnd(r) \/ QuotaHandoff(r)
    BY <2>4 DEF QuotaEnd, QuotaHandoff
  <2> QED BY <1>1, <2>1, <2>2, <2>3, <2>4 DEF Emit
<1>2. ASSUME NEW e \in Enders, End(e) PROVE PcOK' /\ Allocated'
  BY <1>2 DEF End, StopCheck, StopRead, StopPut, StopRow, IdleEnd, EndTell, EndDrop,
     DeleteCheck, DeleteTell, DeleteRow, DeleteKeys, DeleteBlob
<1>3. ASSUME NEW c \in Calls, Cancel(c) PROVE PcOK' /\ Allocated'
  BY <1>3 DEF Cancel
<1>4. CASE Crash
  BY <1>4 DEF Crash
<1>5. CASE UNCHANGED vars
  BY <1>5 DEF vars
<1> QED BY <1>1, <1>2, <1>3, <1>4, <1>5 DEF Next

(* Only an append or a delete touches the log and its count. *)
LEMMA CountFrame ==
    ASSUME [Next]_vars,
           ~(\E r \in Emitters : EmitAppend(r)), ~(\E e \in Enders : DeleteRow(e))
    PROVE  UNCHANGED <<eventCount, log>>
<1> USE DEF rowVars
<1>1. ASSUME NEW r \in Emitters, Emit(r) PROVE UNCHANGED <<eventCount, log>>
  BY <1>1 DEF Emit, EmitCheck, EmitIncr, EmitRefused, EmitPush, EmitPublish,
     QuotaEnd, QuotaHandoff
<1>2. ASSUME NEW e \in Enders, End(e) PROVE UNCHANGED <<eventCount, log>>
  BY <1>2 DEF End, StopCheck, StopRead, StopPut, StopRow, IdleEnd, EndTell, EndDrop,
     DeleteCheck, DeleteTell, DeleteKeys, DeleteBlob
<1>3. ASSUME NEW c \in Calls, Cancel(c) PROVE UNCHANGED <<eventCount, log>>
  BY <1>3 DEF Cancel
<1>4. CASE Crash
  BY <1>4 DEF Crash
<1>5. CASE UNCHANGED vars
  BY <1>5 DEF vars
<1> QED BY <1>1, <1>2, <1>3, <1>4, <1>5 DEF Next

(* Which steps change the log. *)
LEMMA LogStep ==
    ASSUME [Next]_vars
    PROVE  \/ UNCHANGED log
           \/ \E r \in Emitters : EmitAppend(r)
           \/ \E e \in Enders : DeleteRow(e)
BY CountFrame

LEMMA BoundStep == TInv /\ [Next]_vars => LogBounded'
<1> SUFFICES ASSUME TInv, [Next]_vars PROVE LogBounded'
  OBVIOUS
<1>1. CASE UNCHANGED log
  BY <1>1 DEF TInv, LogBounded
<1>2. ASSUME NEW r \in Emitters, EmitAppend(r) PROVE LogBounded'
  <2>1. PICK b \in Nat : \A n \in log : n <= b
    BY DEF TInv, LogBounded
  <2>2. log' = log \cup {mySeq[r]} /\ log \subseteq Nat /\ mySeq[r] \in Nat
    BY <1>2, Zenon DEF EmitAppend, TInv, TypeOK
  <2>3. \A n \in log' : n <= b + mySeq[r]
    BY <2>1, <2>2
  <2>4. b + mySeq[r] \in Nat
    BY <2>1, <2>2
  <2> HIDE DEF LogBounded
  <2>5. \E k \in Nat : \A n \in log' : n <= k
    BY <2>3, <2>4, Zenon
  <2> QED BY <2>5, Zenon DEF LogBounded
<1>3. ASSUME NEW e \in Enders, DeleteRow(e) PROVE LogBounded'
  BY <1>3 DEF DeleteRow, LogBounded
<1> QED BY <1>1, <1>2, <1>3, LogStep

(* SessionLog is correctly typed. *)
THEOREM TypeCorrect == Spec => []TypeOK
<1>1. TInv /\ [Next]_vars => TInv'
  BY TypeStep, PcStep, BoundStep DEF TInv
<1> QED BY <1>1, TInvInit, PTL DEF Spec, TInv

-----------------------------------------------------------------------------
(* The inductive invariant. *)

IInv == Inv /\ LogBounded

LEMMA IInvTyped == IInv => TInv
BY DEF IInv, Inv, TInv

LEMMA IInvInit == Init => IInv
<1> SUFFICES ASSUME Init PROVE IInv
  OBVIOUS
<1>1. TInv
  BY TInvInit
<1>2. SeqsAhead /\ RowBeforeKeys /\ PushesAreNew /\ LiveSeqsAreFresh /\ ReplayIsComplete
  BY DEF Init, SeqsAhead, RowBeforeKeys, PushesAreNew, LiveSeqsAreFresh, ReplayIsComplete, Calls
<1>3. EndedOnce /\ BufferIsPersisted
  BY DEF Init, EndedOnce, OneEnding, BufferIsPersisted, Entries
<1>4. IsFiniteSet(log) /\ CountIsExact
  BY FS_EmptySet DEF Init, CountIsExact
<1> QED BY <1>1, <1>2, <1>3, <1>4 DEF IInv, Inv, TInv

(* The row only moves forward, and each ending is stamped on a live row. *)
LEMMA RowStep ==
    ASSUME [Next]_vars
    PROVE  \/ UNCHANGED <<status, endedReason, storageKey>>
           \/ /\ status = "live" /\ status' = "ended"
              /\ UNCHANGED storageKey \/ UNCHANGED endedReason
           \/ /\ \E e \in Enders : DeleteRow(e)
              /\ status' = "deleted" /\ endedReason' = "none" /\ storageKey' = FALSE
<1> USE DEF rowVars
<1>1. ASSUME NEW r \in Emitters, Emit(r), ~QuotaEnd(r)
      PROVE  UNCHANGED <<status, endedReason, storageKey>>
  BY <1>1 DEF Emit, EmitCheck, EmitIncr, EmitAppend, EmitRefused, EmitPush, EmitPublish, QuotaHandoff
<1>2. ASSUME NEW r \in Emitters, QuotaEnd(r)
      PROVE  \/ UNCHANGED <<status, endedReason, storageKey>>
             \/ status = "live" /\ status' = "ended" /\ UNCHANGED storageKey
  BY <1>2 DEF QuotaEnd
<1>3. ASSUME NEW e \in Enders, End(e), ~StopRow(e), ~IdleEnd(e), ~DeleteRow(e)
      PROVE  UNCHANGED <<status, endedReason, storageKey>>
  BY <1>3 DEF End, StopCheck, StopRead, StopPut, EndTell, EndDrop,
     DeleteCheck, DeleteTell, DeleteKeys, DeleteBlob
<1>4. ASSUME NEW e \in Enders, StopRow(e) \/ IdleEnd(e)
      PROVE  \/ UNCHANGED <<status, endedReason, storageKey>>
             \/ status = "live" /\ status' = "ended" /\ UNCHANGED endedReason
  BY <1>4 DEF StopRow, StopMatches, IdleEnd
<1>5. ASSUME NEW e \in Enders, DeleteRow(e)
      PROVE  status' = "deleted" /\ endedReason' = "none" /\ storageKey' = FALSE
  BY <1>5 DEF DeleteRow
<1>6. ASSUME NEW c \in Calls, Cancel(c) PROVE UNCHANGED <<status, endedReason, storageKey>>
  BY <1>6 DEF Cancel
<1>7. CASE Crash
  BY <1>7 DEF Crash
<1>8. CASE UNCHANGED vars
  BY <1>8 DEF vars
<1> QED BY <1>1, <1>2, <1>3, <1>4, <1>5, <1>6, <1>7, <1>8 DEF Next

LEMMA EndedStep == IInv /\ [Next]_vars => EndedOnce'
<1> SUFFICES ASSUME IInv, [Next]_vars PROVE EndedOnce'
  OBVIOUS
<1>1. EndedOnce
  BY DEF IInv, Inv
<1>2. CASE UNCHANGED <<status, endedReason, storageKey>>
  BY <1>1, <1>2 DEF EndedOnce, OneEnding
<1>3. CASE status = "live" /\ status' = "ended" /\ (UNCHANGED storageKey \/ UNCHANGED endedReason)
  BY <1>1, <1>3 DEF EndedOnce, OneEnding
<1>4. CASE status' = "deleted" /\ endedReason' = "none" /\ storageKey' = FALSE
  BY <1>4 DEF EndedOnce, OneEnding
<1> QED BY <1>2, <1>3, <1>4, RowStep

LEMMA KeysStep == IInv /\ [Next]_vars => RowBeforeKeys'
<1> SUFFICES ASSUME IInv, [Next]_vars, NEW e \in Enders
             PROVE  /\ pc'[e] \in {"tell", "drop"} => status' # "live"
                    /\ pc'[e] \in {"delKeys", "delBlob"} => status' = "deleted"
  BY DEF RowBeforeKeys
<1> USE CallsAssumption DEF Goto, Calls
<1>1. /\ pc[e] \in {"tell", "drop"} => status # "live"
      /\ pc[e] \in {"delKeys", "delBlob"} => status = "deleted"
  BY DEF IInv, Inv, RowBeforeKeys
<1>2. /\ status' = "live" => status = "live"
      /\ status = "deleted" => status' = "deleted"
  BY RowStep
<1>3. pc \in [Calls -> EmitPCs \cup EndPCs \cup Over]
  BY DEF IInv, Inv, TypeOK
<1>4. ASSUME NEW r \in Emitters, Emit(r) PROVE UNCHANGED pc[e]
  BY <1>3, <1>4 DEF Emit, EmitCheck, EmitIncr, EmitAppend, EmitRefused, EmitPush, EmitPublish,
     QuotaEnd, QuotaHandoff
<1>5. ASSUME NEW f \in Enders, End(f), f # e PROVE UNCHANGED pc[e]
  BY <1>3, <1>5 DEF End, StopCheck, StopRead, StopPut, StopRow, IdleEnd, EndTell, EndDrop,
     DeleteCheck, DeleteTell, DeleteRow, DeleteKeys, DeleteBlob
<1>6. CASE StopCheck(e) \/ StopRead(e) \/ StopPut(e) \/ DeleteCheck(e) \/ DeleteTell(e)
  BY <1>3, <1>6 DEF StopCheck, StopRead, StopPut, DeleteCheck, DeleteTell
<1>7. CASE StopRow(e) \/ IdleEnd(e) \/ EndTell(e) \/ EndDrop(e)
  BY <1>1, <1>2, <1>3, <1>7 DEF StopRow, StopMatches, IdleEnd, EndTell, EndDrop
<1>8. CASE DeleteRow(e) \/ DeleteKeys(e) \/ DeleteBlob(e)
  BY <1>1, <1>2, <1>3, <1>8 DEF DeleteRow, DeleteKeys, DeleteBlob
<1>9. ASSUME NEW c \in Calls, Cancel(c) PROVE UNCHANGED pc[e] \/ pc'[e] = "failed"
                                          \/ (pc[e] = "delKeys" /\ pc'[e] = "delBlob")
  BY <1>3, <1>9 DEF Cancel
<1>10. CASE Crash
  BY <1>3, <1>10 DEF Crash, Over
<1>11. CASE UNCHANGED vars
  BY <1>1, <1>11 DEF vars, rowVars
<1> QED BY <1>1, <1>2, <1>4, <1>5, <1>6, <1>7, <1>8, <1>9, <1>10, <1>11 DEF Next, End

(* What a step does to the counter, as long as the session is live after it. *)
LEMMA CounterStep ==
    ASSUME IInv, [Next]_vars, status' = "live"
    PROVE  \/ UNCHANGED <<seqKey, buffer>>
           \/ \E r \in Emitters : EmitIncr(r) \/ EmitPush(r)
<1> USE DEF redisVars
<1>1. ASSUME NEW r \in Emitters, Emit(r), ~EmitIncr(r), ~EmitPush(r) PROVE UNCHANGED <<seqKey, buffer>>
  BY <1>1 DEF Emit, EmitCheck, EmitAppend, EmitRefused, EmitPublish, QuotaEnd, QuotaHandoff
<1>2. ASSUME NEW e \in Enders, End(e), ~EndDrop(e), ~DeleteKeys(e) PROVE UNCHANGED <<seqKey, buffer>>
  BY <1>2 DEF End, StopCheck, StopRead, StopPut, StopRow, IdleEnd, EndTell,
     DeleteCheck, DeleteTell, DeleteRow, DeleteBlob
<1>3. ASSUME NEW e \in Enders, EndDrop(e) \/ DeleteKeys(e) PROVE FALSE
  <2>1. status = "live"
    BY RowStep
  <2>2. pc[e] \in {"drop", "delKeys"}
    BY <1>3 DEF EndDrop, DeleteKeys
  <2> QED BY <2>1, <2>2 DEF IInv, Inv, RowBeforeKeys
<1>4. ASSUME NEW c \in Calls, Cancel(c) PROVE UNCHANGED <<seqKey, buffer>>
  BY <1>4 DEF Cancel
<1>5. CASE Crash
  BY <1>5 DEF Crash
<1>6. CASE UNCHANGED vars
  BY <1>6 DEF vars
<1> QED BY <1>1, <1>2, <1>3, <1>4, <1>5, <1>6 DEF Next

(* Which steps move an emitter, and where to. *)
LEMMA EmitterStep ==
    ASSUME IInv, [Next]_vars, NEW r \in Emitters
    PROVE  \/ UNCHANGED <<pc[r], mySeq[r]>>
           \/ pc'[r] \notin {"append", "push", "publish"} /\ UNCHANGED mySeq[r]
                /\ (pc[r] \in {"push", "failed"} => pc'[r] = "failed")
           \/ EmitIncr(r) \/ EmitAppend(r) \/ EmitPush(r)
<1> USE CallsAssumption DEF Goto, Calls, emitVars
<1>1. /\ pc \in [Calls -> EmitPCs \cup EndPCs \cup Over]
      /\ mySeq \in [Emitters -> Nat]
  BY DEF IInv, Inv, TypeOK
<1>2. ASSUME NEW q \in Emitters, Emit(q), q # r PROVE UNCHANGED <<pc[r], mySeq[r]>>
  BY <1>1, <1>2 DEF Emit, EmitCheck, EmitIncr, EmitAppend, EmitRefused, EmitPush, EmitPublish,
     QuotaEnd, QuotaHandoff
<1>3. CASE EmitCheck(r) \/ EmitRefused(r) \/ EmitPublish(r) \/ QuotaEnd(r) \/ QuotaHandoff(r)
  BY <1>1, <1>3 DEF EmitCheck, EmitRefused, EmitPublish, QuotaEnd, QuotaHandoff
<1>4. ASSUME NEW e \in Enders, End(e) PROVE UNCHANGED <<pc[r], mySeq[r]>>
  BY <1>1, <1>4 DEF End, StopCheck, StopRead, StopPut, StopRow, IdleEnd, EndTell, EndDrop,
     DeleteCheck, DeleteTell, DeleteRow, DeleteKeys, DeleteBlob
<1>5. ASSUME NEW c \in Calls, Cancel(c)
      PROVE  \/ UNCHANGED <<pc[r], mySeq[r]>>
             \/ pc'[r] \notin {"append", "push", "publish"} /\ UNCHANGED mySeq[r]
                  /\ (pc[r] \in {"push", "failed"} => pc'[r] = "failed")
  <2>1. pc[r] # "delKeys"
    BY DEF IInv, Inv, PcOK, EmitPCs, Over
  <2> QED BY <1>1, <1>5, <2>1 DEF Cancel, Over
<1>6. CASE Crash
  BY <1>1, <1>6 DEF Crash, Over
<1>7. CASE UNCHANGED vars
  BY <1>7 DEF vars
<1> QED BY <1>2, <1>3, <1>4, <1>5, <1>6, <1>7 DEF Next, Emit

(* Two actions of emitters written out, so that steps can be cited. *)
LEMMA IncrEffect ==
    ASSUME IInv, NEW r \in Emitters, EmitIncr(r)
    PROVE  /\ pc[r] = "incr" /\ pc' = [pc EXCEPT ![r] = "append"]
           /\ seqKey' = seqKey + 1 /\ mySeq' = [mySeq EXCEPT ![r] = seqKey + 1]
           /\ UNCHANGED <<status, log, eventCount, buffer>>
BY DEF EmitIncr, NextSeq, Goto, rowVars

LEMMA AppendEffect ==
    ASSUME IInv, NEW r \in Emitters, EmitAppend(r)
    PROVE  /\ pc[r] = "append" /\ pc' = [pc EXCEPT ![r] = "push"]
           /\ status # "deleted" /\ mySeq[r] \notin log
           /\ log' = log \cup {mySeq[r]} /\ eventCount' = eventCount + 1
           /\ UNCHANGED <<status, seqKey, buffer, mySeq>>
BY Zenon DEF EmitAppend, AppendRefused, Goto, redisVars

LEMMA PushEffect ==
    ASSUME IInv, NEW r \in Emitters, EmitPush(r)
    PROVE  /\ pc[r] = "push" /\ pc' = [pc EXCEPT ![r] = "publish"]
           /\ buffer' = Append(buffer, mySeq[r])
           /\ Entries(buffer') = Entries(buffer) \cup {mySeq[r]}
           /\ UNCHANGED <<status, log, eventCount, seqKey, mySeq>>
<1>1. buffer \in Seq(Nat) /\ mySeq[r] \in Nat
  BY DEF IInv, Inv, TypeOK
<1>2. buffer' = Append(buffer, mySeq[r])
  BY DEF EmitPush
<1>3. Entries(buffer') = Entries(buffer) \cup {mySeq[r]}
  BY <1>1, <1>2, EntriesAppend
<1> QED BY <1>2, <1>3 DEF EmitPush, Goto, rowVars, emitVars

LEMMA LiveTypes ==
    ASSUME IInv
    PROVE  /\ pc \in [Calls -> EmitPCs \cup EndPCs \cup Over] /\ Emitters \subseteq Calls
           /\ mySeq \in [Emitters -> Nat] /\ seqKey \in Nat /\ log \subseteq Nat
           /\ buffer \in Seq(Nat)
BY DEF IInv, Inv, TypeOK, Calls

LEMMA SeqStep == IInv /\ [Next]_vars => SeqsAhead' /\ LiveSeqsAreFresh'
<1> DEFINE Ahead ==
      /\ log \subseteq 1..seqKey
      /\ \A r \in Emitters : pc[r] = "append" =>
            /\ mySeq[r] \in 1..seqKey
            /\ mySeq[r] \notin log
            /\ \A q \in Emitters \ {r} : pc[q] = "append" => mySeq[q] # mySeq[r]
<1> SUFFICES ASSUME IInv, [Next]_vars, status' = "live"
             PROVE  Ahead'
  BY Zenon DEF SeqsAhead, LiveSeqsAreFresh
<1>1. status = "live"
  BY RowStep
<1>2. Ahead
  BY <1>1 DEF IInv, Inv, SeqsAhead, LiveSeqsAreFresh
<1>3. ASSUME NEW r \in Emitters, EmitIncr(r)
      PROVE  Ahead'
  <2>1. /\ seqKey \in Nat /\ seqKey' = seqKey + 1 /\ log' = log
        /\ mySeq'[r] = seqKey + 1
    BY <1>3, IncrEffect, LiveTypes
  <2>2. \A q \in Emitters \ {r} : pc'[q] = pc[q] /\ mySeq'[q] = mySeq[q]
    BY <1>3, IncrEffect, LiveTypes
  <2>3. seqKey + 1 \notin 1..seqKey /\ 1..seqKey \subseteq 1..(seqKey + 1)
    BY <2>1
  <2> QED BY <1>2, <2>1, <2>2, <2>3
<1>4. ASSUME NEW r \in Emitters, EmitAppend(r)
      PROVE  Ahead'
  <2>1. /\ pc[r] = "append" /\ seqKey' = seqKey /\ log' = log \cup {mySeq[r]}
        /\ mySeq' = mySeq /\ pc'[r] = "push"
    BY <1>4, AppendEffect, LiveTypes
  <2>2. \A q \in Emitters \ {r} : pc'[q] = pc[q]
    BY <1>4, AppendEffect, LiveTypes
  <2> QED BY <1>2, <2>1, <2>2
<1>5. ASSUME NEW r \in Emitters, EmitPush(r)
      PROVE  Ahead'
  BY <1>2, <1>5, PushEffect, LiveTypes
<1>6. CASE \A r \in Emitters : ~EmitIncr(r) /\ ~EmitAppend(r) /\ ~EmitPush(r)
  <2>1. UNCHANGED log
    <3>1. ASSUME NEW e \in Enders, DeleteRow(e) PROVE FALSE
      BY <3>1 DEF DeleteRow
    <3> QED BY <1>6, <3>1, LogStep
  <2>2. UNCHANGED seqKey
    BY <1>6, CounterStep
  <2>3. \A r \in Emitters : pc'[r] = "append" => pc[r] = "append" /\ mySeq'[r] = mySeq[r]
    BY <1>6, EmitterStep
  <2> QED BY <1>2, <2>1, <2>2, <2>3
<1> QED BY <1>3, <1>4, <1>5, <1>6

LEMMA CountStep == IInv /\ [Next]_vars => IsFiniteSet(log)' /\ CountIsExact'
<1> SUFFICES ASSUME IInv, [Next]_vars PROVE IsFiniteSet(log') /\ eventCount' = Cardinality(log')
  BY DEF CountIsExact
<1>1. IsFiniteSet(log) /\ eventCount = Cardinality(log)
  BY DEF IInv, Inv, CountIsExact
<1>2. ASSUME NEW r \in Emitters, EmitAppend(r)
      PROVE  IsFiniteSet(log') /\ eventCount' = Cardinality(log')
  BY <1>1, <1>2, AppendEffect, FS_AddElement
<1>3. ASSUME NEW e \in Enders, DeleteRow(e)
      PROVE  IsFiniteSet(log') /\ eventCount' = Cardinality(log')
  BY <1>3, FS_EmptySet DEF DeleteRow
<1>4. CASE ~(\E r \in Emitters : EmitAppend(r)) /\ ~(\E e \in Enders : DeleteRow(e))
  <2>1. UNCHANGED <<eventCount, log>>
    BY <1>4, CountFrame
  <2> QED BY <1>1, <2>1
<1> QED BY <1>2, <1>3, <1>4

LEMMA BufferStep ==
    ASSUME [Next]_vars
    PROVE  UNCHANGED buffer \/ buffer' = <<>> \/ \E r \in Emitters : EmitPush(r)
<1> USE DEF redisVars
<1>1. ASSUME NEW r \in Emitters, Emit(r), ~EmitPush(r) PROVE UNCHANGED buffer
  BY <1>1 DEF Emit, EmitCheck, EmitIncr, EmitAppend, EmitRefused, EmitPublish, QuotaEnd, QuotaHandoff
<1>2. ASSUME NEW e \in Enders, End(e) PROVE UNCHANGED buffer \/ buffer' = <<>>
  BY <1>2 DEF End, StopCheck, StopRead, StopPut, StopRow, IdleEnd, EndTell, EndDrop,
     DeleteCheck, DeleteTell, DeleteRow, DeleteKeys, DeleteBlob
<1>3. ASSUME NEW c \in Calls, Cancel(c) PROVE UNCHANGED buffer
  BY <1>3 DEF Cancel
<1>4. CASE Crash
  BY <1>4 DEF Crash
<1>5. CASE UNCHANGED vars
  BY <1>5 DEF vars
<1> QED BY <1>1, <1>2, <1>3, <1>4, <1>5 DEF Next

(* A sequence without repetitions has none after a new entry is appended. *)
LEMMA AppendDistinct ==
    ASSUME NEW s \in Seq(Nat), NEW x \in Nat, x \notin Entries(s),
           \A i, j \in 1..Len(s) : s[i] = s[j] => i = j
    PROVE  LET t == Append(s, x) IN \A i, j \in 1..Len(t) : t[i] = t[j] => i = j
<1> DEFINE t == Append(s, x)
<1>1. /\ Len(t) = Len(s) + 1 /\ t[Len(s) + 1] = x
      /\ \A i \in 1..Len(s) : t[i] = s[i]
      /\ Len(s) \in Nat
  BY AppendProperties, LenProperties
<1>2. \A i \in 1..Len(s) : s[i] # x
  BY DEF Entries
<1> HIDE DEF t
<1>3. SUFFICES ASSUME NEW i \in 1..Len(t), NEW j \in 1..Len(t), t[i] = t[j] PROVE i = j
  BY DEF t
<1>4. \A k \in 1..Len(t) : k \in 1..Len(s) \/ k = Len(s) + 1
  BY <1>1
<1> QED BY <1>1, <1>2, <1>3, <1>4

LEMMA PushStep == IInv /\ [Next]_vars => BufferIsPersisted' /\ PushesAreNew'
<1> DEFINE Buffered ==
      /\ Entries(buffer) \subseteq log
      /\ \A i, j \in 1..Len(buffer) : buffer[i] = buffer[j] => i = j
      /\ \A r \in Emitters : pc[r] = "push" =>
            /\ mySeq[r] \in log \ Entries(buffer)
            /\ \A q \in Emitters \ {r} : pc[q] = "push" => mySeq[q] # mySeq[r]
<1> SUFFICES ASSUME IInv, [Next]_vars, status' # "deleted" PROVE Buffered'
  BY Zenon DEF BufferIsPersisted, PushesAreNew
<1>1. status # "deleted"
  BY RowStep
<1>2. Buffered
  BY <1>1 DEF IInv, Inv, BufferIsPersisted, PushesAreNew
<1>3. ASSUME NEW r \in Emitters, EmitIncr(r) PROVE Buffered'
  <2>1. /\ pc'[r] = "append" /\ buffer' = buffer /\ log' = log
        /\ \A q \in Emitters \ {r} : pc'[q] = pc[q] /\ mySeq'[q] = mySeq[q]
    BY <1>3, IncrEffect, LiveTypes
  <2>2. Entries(buffer') = Entries(buffer)
    BY <2>1
  <2> QED BY <1>2, <2>1, <2>2
<1>4. ASSUME NEW r \in Emitters, EmitAppend(r) PROVE Buffered'
  <2>1. /\ pc'[r] = "push" /\ buffer' = buffer /\ log' = log \cup {mySeq[r]} /\ mySeq[r] \notin log
        /\ mySeq' = mySeq /\ \A q \in Emitters \ {r} : pc'[q] = pc[q]
    BY <1>4, AppendEffect, LiveTypes
  <2>2. Entries(buffer') = Entries(buffer)
    BY <2>1
  <2> QED BY <1>2, <2>1, <2>2
<1>5. ASSUME NEW r \in Emitters, EmitPush(r) PROVE Buffered'
  <2>1. /\ pc[r] = "push" /\ pc'[r] = "publish" /\ log' = log /\ mySeq' = mySeq
        /\ buffer' = Append(buffer, mySeq[r])
        /\ Entries(buffer') = Entries(buffer) \cup {mySeq[r]}
        /\ \A q \in Emitters \ {r} : pc'[q] = pc[q]
    BY <1>5, PushEffect, LiveTypes
  <2>2. mySeq[r] \in log \ Entries(buffer)
    BY <1>2, <2>1
  <2>3. \A i, j \in 1..Len(buffer') : buffer'[i] = buffer'[j] => i = j
    <3>1. buffer \in Seq(Nat) /\ mySeq[r] \in Nat /\ mySeq[r] \notin Entries(buffer)
      BY <2>2, LiveTypes
    <3>2. \A i, j \in 1..Len(buffer) : buffer[i] = buffer[j] => i = j
      BY <1>2
    <3> QED BY <2>1, <3>1, <3>2, AppendDistinct
  <2> QED BY <1>2, <2>1, <2>2, <2>3
<1>6. CASE \A r \in Emitters : ~EmitIncr(r) /\ ~EmitAppend(r) /\ ~EmitPush(r)
  <2>1. log' = log
    <3>1. ASSUME NEW e \in Enders, DeleteRow(e) PROVE FALSE
      BY <3>1 DEF DeleteRow
    <3> QED BY <1>6, <3>1, LogStep
  <2>2. buffer' = buffer \/ buffer' = <<>>
    BY <1>6, BufferStep
  <2>3. \A r \in Emitters : pc'[r] = "push" => pc[r] = "push" /\ mySeq'[r] = mySeq[r]
    BY <1>6, EmitterStep
  <2>4. Entries(<<>>) = {} /\ Len(<<>>) = 0
    BY DEF Entries
  <2>5. CASE buffer' = buffer
    <3>1. Entries(buffer') = Entries(buffer)
      BY <2>5
    <3> QED BY <1>2, <2>1, <2>3, <2>5, <3>1
  <2>6. CASE buffer' = <<>>
    <3>1. Entries(buffer') = {} /\ Len(buffer') = 0
      BY <2>4, <2>6
    <3> QED BY <1>2, <2>1, <2>3, <3>1
  <2> QED BY <2>2, <2>5, <2>6
<1> QED BY <1>3, <1>4, <1>5, <1>6

LEMMA ReplayStep == IInv /\ [Next]_vars => ReplayIsComplete'
<1> DEFINE Covered(n) ==
      n \in Entries(buffer) \/ \E r \in Emitters : mySeq[r] = n /\ pc[r] \in {"push", "failed"}
<1> SUFFICES ASSUME IInv, [Next]_vars, status' = "live", NEW n \in log' PROVE Covered(n)'
  BY Zenon DEF ReplayIsComplete
<1>1. status = "live"
  BY RowStep
<1>2. \A m \in log : Covered(m)
  BY <1>1 DEF IInv, Inv, ReplayIsComplete
<1>3. ASSUME NEW r \in Emitters, EmitIncr(r) PROVE Covered(n)'
  <2>1. /\ pc[r] = "incr" /\ buffer' = buffer /\ log' = log
        /\ \A q \in Emitters \ {r} : pc'[q] = pc[q] /\ mySeq'[q] = mySeq[q]
    BY <1>3, IncrEffect, LiveTypes
  <2>2. Entries(buffer') = Entries(buffer)
    BY <2>1
  <2> QED BY <1>2, <2>1, <2>2
<1>4. ASSUME NEW r \in Emitters, EmitAppend(r) PROVE Covered(n)'
  <2>1. /\ pc[r] = "append" /\ pc'[r] = "push" /\ buffer' = buffer
        /\ log' = log \cup {mySeq[r]} /\ mySeq' = mySeq
        /\ \A q \in Emitters \ {r} : pc'[q] = pc[q]
    BY <1>4, AppendEffect, LiveTypes
  <2>2. Entries(buffer') = Entries(buffer)
    BY <2>1
  <2> QED BY <1>2, <2>1, <2>2
<1>5. ASSUME NEW r \in Emitters, EmitPush(r) PROVE Covered(n)'
  <2>1. /\ log' = log /\ mySeq' = mySeq
        /\ Entries(buffer') = Entries(buffer) \cup {mySeq[r]}
        /\ \A q \in Emitters \ {r} : pc'[q] = pc[q]
    BY <1>5, PushEffect, LiveTypes
  <2> QED BY <1>2, <2>1
<1>6. CASE \A r \in Emitters : ~EmitIncr(r) /\ ~EmitAppend(r) /\ ~EmitPush(r)
  <2>1. log' = log
    <3>1. ASSUME NEW e \in Enders, DeleteRow(e) PROVE FALSE
      BY <3>1 DEF DeleteRow
    <3> QED BY <1>6, <3>1, LogStep
  <2>2. buffer' = buffer
    BY <1>6, CounterStep
  <2>3. Entries(buffer') = Entries(buffer)
    BY <2>2
  <2>4. \A r \in Emitters : pc[r] \in {"push", "failed"} =>
          pc'[r] \in {"push", "failed"} /\ mySeq'[r] = mySeq[r]
    BY <1>6, EmitterStep
  <2> QED BY <1>2, <2>1, <2>3, <2>4
<1> QED BY <1>3, <1>4, <1>5, <1>6

(* The invariant is inductive. *)
LEMMA IInvStep == IInv /\ [Next]_vars => IInv'
<1> SUFFICES ASSUME IInv, [Next]_vars PROVE IInv'
  OBVIOUS
<1>1. TypeOK' /\ PcOK' /\ Allocated' /\ LogBounded'
  BY IInvTyped, TypeStep, PcStep, BoundStep
<1>2. SeqsAhead' /\ LiveSeqsAreFresh' /\ RowBeforeKeys' /\ EndedOnce'
  BY SeqStep, KeysStep, EndedStep
<1>3. BufferIsPersisted' /\ PushesAreNew' /\ ReplayIsComplete' /\ IsFiniteSet(log)' /\ CountIsExact'
  BY PushStep, ReplayStep, CountStep
<1> QED BY <1>1, <1>2, <1>3 DEF IInv, Inv

LEMMA Invariance == Spec => []IInv
BY IInvInit, IInvStep, PTL DEF Spec

-----------------------------------------------------------------------------
(* The safety properties. *)

(* The invariant a run checks holds of any number of handlers, events and   *)
(* crashes: with the cap on the log's length it is inductive.               *)
THEOREM Invariant == Spec => []Inv
<1>1. IInv => Inv
  BY DEF IInv
<1> QED BY <1>1, Invariance, PTL

(* No two emitters of a live session hold the same seq, nor one that the    *)
(* log has, however many handlers run: EmitEvent never fails on a seq.      *)
THEOREM FreshSeqs == Spec => []LiveSeqsAreFresh
<1>1. IInv => LiveSeqsAreFresh
  BY DEF IInv, Inv
<1> QED BY <1>1, Invariance, PTL

(* The replay buffer holds persisted events only, each once. *)
THEOREM BufferPersisted == Spec => []BufferIsPersisted
<1>1. IInv => BufferIsPersisted
  BY DEF IInv, Inv
<1> QED BY <1>1, Invariance, PTL

(* event_count counts the log. *)
THEOREM CountExact == Spec => []CountIsExact
<1>1. IInv => CountIsExact
  BY DEF IInv, Inv
<1> QED BY <1>1, Invariance, PTL

(* While a session is live its buffer misses no event but one whose emitter *)
(* is about to push it or was cut off.                                      *)
THEOREM ReplayComplete == Spec => []ReplayIsComplete
<1>1. IInv => ReplayIsComplete
  BY DEF IInv, Inv
<1> QED BY <1>1, Invariance, PTL

(* A session ends once. *)
THEOREM EndsOnce == Spec => []OneEnding
<1>1. IInv => OneEnding
  BY DEF IInv, Inv, EndedOnce
<1> QED BY <1>1, Invariance, PTL

(* A session implements its ledger: entries are recorded one at a time and  *)
(* never lost before a delete, and its one ending is never rewritten.       *)
THEOREM Refinement == Spec => ImplementsLedger
<1> DEFINE phase   == CASE status = "live" -> "live" [] status = "ended" -> "over"
                        [] OTHER -> "gone"
           outcome == IF endedReason = "quota" THEN "quota"
                      ELSE IF storageKey THEN "archived" ELSE "none"
<1>1. Init => Ledger!Init
  BY DEF Init, Ledger!Init
<1>2. IInv /\ [Next]_vars => [Ledger!Next]_(Ledger!ledgerVars)
  <2> SUFFICES ASSUME IInv, [Next]_vars, ~(UNCHANGED Ledger!ledgerVars) PROVE Ledger!Next
    OBVIOUS
  <2>1. status \in {"live", "ended", "deleted"} /\ endedReason \in {"none", "quota"}
        /\ EndedOnce
    BY DEF IInv, Inv, TypeOK
  <2>2. ASSUME NEW r \in Emitters, EmitAppend(r) PROVE Ledger!Next
    <3>1. /\ status # "deleted" /\ mySeq[r] \notin log
          /\ log' = log \cup {mySeq[r]} /\ eventCount' = eventCount + 1
          /\ status' = status
      BY <2>2, AppendEffect
    <3>2. UNCHANGED <<endedReason, storageKey>>
      BY <2>2, Zenon DEF EmitAppend
    <3>3. phase # "gone" /\ phase' = phase /\ outcome' = outcome
      BY <2>1, <3>1, <3>2
    <3>4. \E n \in log' \ log : log' = log \cup {n}
      BY <3>1
    <3>5. Ledger!Record
      BY <3>1, <3>3, <3>4 DEF Ledger!Record
    <3> QED BY <3>5 DEF Ledger!Next
  <2>3. ASSUME NEW e \in Enders, DeleteRow(e) PROVE Ledger!Next
    <3>1. Ledger!Erase
      BY <2>3 DEF DeleteRow, Ledger!Erase
    <3> QED BY <3>1 DEF Ledger!Next
  <2>4. CASE /\ ~(\E r \in Emitters : EmitAppend(r)) /\ ~(\E e \in Enders : DeleteRow(e))
    <3>1. UNCHANGED <<log, eventCount>>
      BY <2>4, CountFrame
    <3>2. CASE UNCHANGED <<status, endedReason, storageKey>>
      BY <2>1, <3>1, <3>2 DEF Ledger!ledgerVars
    <3>3. CASE status = "live" /\ status' = "ended"
      <4>1. Ledger!Finish
        BY <3>1, <3>3 DEF Ledger!Finish, Ledger!Outcomes
      <4> QED BY <4>1 DEF Ledger!Next
    <3> QED BY <2>4, <3>2, <3>3, RowStep
  <2> QED BY <2>2, <2>3, <2>4
<1> QED BY <1>1, <1>2, Invariance, PTL DEF Spec, Ledger!Spec, ImplementsLedger
=============================================================================
