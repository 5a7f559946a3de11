--------------------------- MODULE TranscriptRows ---------------------------
(***************************************************************************)
(* The transcript: how events fold into rows, and the rows that are        *)
(* painted again when events come, in order, late or as echoes.            *)
(***************************************************************************)
EXTENDS Browser, SequencesExt

CONSTANTS
    Kinds,      \* event types, a subset of AllKinds
    MaxEvents   \* events of the session

OnTranscript == page = "transcript"

AllKinds == {"prompt", "response", "viewer_comment", "input_requested", "tool_call", "stream_end"}
BREAKERS == {"prompt", "response", "viewer_comment", "input_requested"}
MARKERS == {"stream_end"}
SUPERSEDES == AllKinds \ {"input_requested"}

(* Time counts in 300 s, a day has two of them.  Each type has one author.  *)
DayOf(e) == e.ts \div 2

(* foldEvents: a separator where the day changes, a row for an event that   *)
(* stands alone, and the others in runs.  Rows are named by the place of    *)
(* their first event.                                                       *)
(* Mutated forms: a run is named by its time, a marker joins a run.         *)
DayRow(e) == [kind |-> "day", id |-> <<"d", e.at>>, events |-> <<>>, grouped |-> FALSE]
SingleRow(e, last) ==
    [kind |-> "single", id |-> <<"e", e.at>>, events |-> <<e>>,
     grouped |-> last # Nothing /\ last.kind = e.kind /\ last.ts = e.ts]
WorkRow_ByTime(e) == [kind |-> "work", id |-> <<"w", e.ts>>, events |-> <<e>>, grouped |-> FALSE]
WorkRow(e) == [kind |-> "work", id |-> <<"w", e.at>>, events |-> <<e>>, grouped |-> FALSE]

FoldStep_MarkersWork(acc, e) ==
    LET newDay == acc.last = Nothing \/ DayOf(acc.last) # DayOf(e)
        rows == IF newDay THEN Append(acc.rows, DayRow(e)) ELSE acc.rows
    IN IF e.kind \in BREAKERS
         THEN [rows |-> Append(rows, SingleRow(e, acc.last)), run |-> FALSE, last |-> e]
         ELSE [rows |-> IF acc.run /\ ~newDay THEN [rows EXCEPT ![Len(rows)].events = Append(@, e)]
                        ELSE Append(rows, WorkRow(e)),
               run |-> TRUE, last |-> e]
FoldStep(acc, e) ==
    LET newDay == acc.last = Nothing \/ DayOf(acc.last) # DayOf(e)
        rows == IF newDay THEN Append(acc.rows, DayRow(e)) ELSE acc.rows
        run == acc.run /\ ~newDay
    IN CASE e.kind \in MARKERS -> [rows |-> rows, run |-> FALSE, last |-> e]
         [] e.kind \in BREAKERS -> [rows |-> Append(rows, SingleRow(e, acc.last)), run |-> FALSE, last |-> e]
         [] OTHER -> [rows |-> IF run THEN [rows EXCEPT ![Len(rows)].events = Append(@, e)]
                               ELSE Append(rows, WorkRow(e)),
                      run |-> TRUE, last |-> e]
FoldEvents(events) == FoldLeft(FoldStep, [rows |-> <<>>, run |-> FALSE, last |-> Nothing], events).rows

(* The newest event of some kinds, 0 if none.                               *)
NewestOf(events, kinds) ==
    LET at == {k \in DOMAIN events : events[k].kind \in kinds} IN IF at = {} THEN 0 ELSE Max(at)

(* agentBusy: what the newest event of a turn says.                         *)
AgentBusy(events) ==
    NewestOf(events, {"prompt", "viewer_comment", "tool_call"}) >
      NewestOf(events, {"response", "stream_end", "input_requested"})

ActivityLabel(events) ==
    LET k == NewestOf(events, AllKinds \ ({"viewer_comment"} \cup MARKERS))
    IN IF k = 0 THEN "working"
       ELSE CASE events[k].kind = "tool_call" -> "running"
              [] events[k].kind = "response" -> "writing"
              [] events[k].kind = "prompt" -> "thinking"
              [] OTHER -> "waiting for you"

(* pendingProbe: the newest request that no later activity supersedes.      *)
(* Mutated form: an answer typed by a viewer does not supersede it.         *)
PendingProbe_Deaf(events) ==
    LET k == NewestOf(events, {"input_requested"})
    IN IF k > NewestOf(events, SUPERSEDES \ {"viewer_comment"}) THEN k ELSE 0
PendingProbe(events) ==
    LET k == NewestOf(events, {"input_requested"}) IN IF k > NewestOf(events, SUPERSEDES) THEN k ELSE 0

(* toolCallBefore: the last call before the request, in its turn.           *)
(* Mutated form: in any turn.                                               *)
ToolCallBefore_AnyTurn(events, probe) ==
    LET before == SelectSeq(events, LAMBDA e : e.at < events[probe].at)
        k == NewestOf(before, {"tool_call"})
    IN IF k # 0 THEN before[k] ELSE Nothing
ToolCallBefore(events, probe) ==
    LET before == SelectSeq(events, LAMBDA e : e.at < events[probe].at)
        k == NewestOf(before, {"tool_call"})
    IN IF k > NewestOf(before, {"prompt", "response", "viewer_comment"}) THEN before[k] ELSE Nothing

(* memo: rows it takes for the same are not painted again.                  *)
(* Mutated form: a run is the same while its first event is.                *)
SameRow_Id(a, b) == a.id = b.id
SameRow(a, b) ==
    /\ a.id = b.id
    /\ a.kind = "work" => Len(a.events) = Len(b.events)
    /\ a.kind = "single" => a.events = b.events /\ a.grouped = b.grouped

(* React keeps what was painted under a key.                                *)
Painted(old, rows) ==
    [k \in DOMAIN rows |->
      LET same == {j \in DOMAIN old : old[j].id = rows[k].id /\ SameRow(old[j], rows[k])}
      IN IF same = {} THEN rows[k] ELSE old[Min(same)]]

Holds(u, events) ==
    Page([u EXCEPT !.events = events, !.painted = Painted(u.painted, FoldEvents(events))])

TranscriptInit ==
    \E kinds \in [1..MaxEvents -> Kinds], ts \in {<<0, 0, 0>>, <<0, 0, 2>>, <<0, 1, 2>>} :
      Opens("transcript", [events |-> <<>>, painted |-> <<>>, echoed |-> 0, late |-> FALSE],
            [k \in 1..MaxEvents |-> [kind |-> kinds[k], ts |-> ts[k], at |-> 2 * k]], Free)

InPlace(events, e) ==
    SelectSeq(events, LAMBDA x : x.at <= e.at) \o <<e>> \o SelectSeq(events, LAMBDA x : x.at > e.at)
Echoes(events) == SelectSeq(events, LAMBDA e : "local" \in DOMAIN e)

(* addEvents: some events come, sorted; a comment takes an echo's place.    *)
(* late remembers that one came after a later one.                          *)
Arrive(seqs) ==
    /\ seqs # {} /\ \A k \in seqs : ~Contains(ui.events, server[k])
    /\ LET echoes == Echoes(ui.events)
           comments == Cardinality({k \in seqs : server[k].kind = "viewer_comment"})
           gone == SubSeq(echoes, 1, IF comments < Len(echoes) THEN comments ELSE Len(echoes))
           kept == SelectSeq(ui.events, LAMBDA e : ~Contains(gone, e))
           events == FoldLeft(LAMBDA s, k : IF k \in seqs THEN InPlace(s, server[k]) ELSE s,
                              kept, [k \in 1..MaxEvents |-> k])
           late == \E k \in seqs : \E j \in DOMAIN ui.events : ui.events[j].at > 2 * k
       IN Holds([ui EXCEPT !.late = @ \/ late], events)
    /\ Only(<<server, calls>>)

(* A comment is shown half a seq after the last event, until it is refused. *)
Echo ==
    /\ ui.echoed < 2 /\ ui.events # <<>>
    /\ LET e == [kind |-> "viewer_comment", ts |-> Last(ui.events).ts, at |-> Last(ui.events).at + 1,
                 local |-> ui.echoed]
       IN Holds([ui EXCEPT !.echoed = @ + 1], Append(ui.events, e))
    /\ Only(<<server, calls>>)

Refused(e) ==
    /\ Holds(ui, SelectSeq(ui.events, LAMBDA x : x # e)) /\ Only(<<server, calls>>)

TranscriptNext ==
    /\ OnTranscript
    /\ \/ \E seqs \in SUBSET (1..MaxEvents) : Arrive(seqs)
       \/ Echo
       \/ \E k \in DOMAIN Echoes(ui.events) : Refused(Echoes(ui.events)[k])
-----------------------------------------------------------------------------
TranscriptTypeOK ==
    OnTranscript =>
      /\ ui.echoed \in 0..2 /\ ui.late \in BOOLEAN
      /\ \A k \in DOMAIN ui.painted : ui.painted[k].kind \in {"day", "single", "work"}

(* The rows hold every event but the markers, once, in the order of the     *)
(* log.                                                                     *)
FoldIsPartition ==
    OnTranscript =>
      LET rows == FoldEvents(ui.events) IN
        FlattenSeq([k \in DOMAIN rows |-> rows[k].events])
          = SelectSeq(ui.events, LAMBDA e : e.kind \notin MARKERS)

(* A run is the calls that follow each other on one day with no marker in   *)
(* between, all of them.                                                    *)
RunsAreMaximal ==
    OnTranscript =>
      LET rows == FoldEvents(ui.events) IN
      \A j \in 1..(Len(ui.events) - 1) :
        LET a == ui.events[j]
            b == ui.events[j + 1]
            together == \E k \in DOMAIN rows : Contains(rows[k].events, a) /\ Contains(rows[k].events, b)
        IN together <=> a.kind = "tool_call" /\ b.kind = "tool_call" /\ DayOf(a) = DayOf(b)

(* What is painted is what the events say, although most rows are not       *)
(* painted again; for events that come in order.                            *)
PaintedIsCurrent == (OnTranscript /\ ~ui.late /\ ui.echoed < 2) => ui.painted = FoldEvents(ui.events)

(* Each row has a name of its own, with one comment under way.              *)
RowsAreNamedOnce ==
    (OnTranscript /\ ui.echoed < 2) =>
      LET rows == FoldEvents(ui.events) IN \A j, k \in DOMAIN rows : rows[j].id = rows[k].id => j = k

(* The agent is not shown working while it waits for an answer.             *)
WaitingIsNotBusy ==
    (OnTranscript /\ PendingProbe(ui.events) # 0) => ~AgentBusy(ui.events)

(* The call that is reviewed is one the agent made since it was last spoken *)
(* to, and no later call stands between it and the request.                 *)
ReviewedIsTheLastCall ==
    (OnTranscript /\ PendingProbe(ui.events) # 0) =>
      LET call == ToolCallBefore(ui.events, PendingProbe(ui.events)) IN
        call # Nothing =>
          \A k \in DOMAIN ui.events :
            (call.at < ui.events[k].at /\ ui.events[k].at < ui.events[PendingProbe(ui.events)].at) =>
              ui.events[k].kind \in {"input_requested", "stream_end"}
=============================================================================
