---------------------------- MODULE SessionPage ----------------------------
(***************************************************************************)
(* The session view: its loads, its event stream, the comments it shows    *)
(* before the server has them, and the permission bar.                     *)
(* Events are numbered by their seqs, which the API hands out in order     *)
(* here: LiveStream is about streams that are not.                         *)
(***************************************************************************)
EXTENDS Browser, SequencesExt

CONSTANT MaxSends   \* comments the visitor sends

ASSUME SessAssumption == Nothing \notin {"live", "ended"}

OnSession == page = "session"

(* A place in the transcript, in half seqs; echoes have ids below 0.        *)
At(id) == [id |-> id, at |-> 2 * id]
IsShown(u, id) == \E k \in DOMAIN u.events : u.events[k].id = id
LastAt(u) == IF u.events = <<>> THEN 0 ELSE Last(u.events).at

(* pendingProbe: the newest event, if it asks; any other activity           *)
(* supersedes a request.                                                    *)
ProbeOf(u) ==
    IF u.meta = "live" /\ u.events # <<>> /\ Last(u.events).id > 0 /\ server.log[Last(u.events).id] = "ask"
      THEN Last(u.events).id ELSE 0

(* What a render does: a new request has a new bar, a session that is not   *)
(* live has no stream, one that turns live gets one that starts after what  *)
(* is loaded.  (The state is bound by a quantifier so that TLC works it out *)
(* once.)                                                                   *)
BarFor(u) ==
    IF ProbeOf(u) = u.bar.of THEN u.bar
    ELSE [of |-> ProbeOf(u), n |-> u.bar.n + 1, busy |-> FALSE, answered |-> FALSE]
Connect(u) == [u EXCEPT !.stream = "connecting", !.pos = u.last]
Shows(next) ==
    \E u \in {next} :
      LET v == CASE u.meta # "live" -> [u EXCEPT !.stream = "off"]
                 [] u.meta = "live" /\ ui.meta # "live" -> Connect(u)
                 [] OTHER -> u
      IN Page([v EXCEPT !.bar = BarFor(u)])

(* addEvents: what is not there yet, in its place; the server's copy of a   *)
(* comment takes the place of the first echo of its text.                   *)
(* Mutated form: the copy leaves the echo.                                  *)
Placed(events, e) == InsertAt(events, SelectLastInSeq(events, LAMBDA x : x.at <= e.at) + 1, e)
Without(events, id) == RemoveFirstMatch(events, LAMBDA x : x.id = id)
AddOne_KeepsEcho(u, seq) ==
    IF IsShown(u, seq) THEN u
    ELSE [u EXCEPT !.events = Placed(@, At(seq)), !.last = IF seq > @ THEN seq ELSE @]
AddOne(u, seq) ==
    IF IsShown(u, seq) THEN u
    ELSE LET copy == server.log[seq] = "hi" /\ u.echoes # {}
         IN [u EXCEPT !.echoes = IF copy THEN @ \ {Max(@)} ELSE @,
                      !.events = Placed(IF copy THEN Without(@, Max(u.echoes)) ELSE @, At(seq)),
                      !.last = IF seq > @ THEN seq ELSE @]
AddEvents(u, from, to) == FoldLeft(AddOne, u, [k \in 1..(to - from) |-> from + k])

(* The page may come with what anybody may see, rendered by the server; it  *)
(* is loaded again with the visitor's cookie.                               *)
SessInit ==
    \E rendered \in BOOLEAN, kind \in {"reply", "ask"} :
      Opens("session",
            [meta |-> IF rendered THEN "live" ELSE Nothing,
             events |-> IF rendered THEN <<At(1)>> ELSE <<>>,
             last |-> IF rendered THEN 1 ELSE 0, echoes |-> {}, sent |-> 0,
             gate |-> Nothing, err |-> FALSE, failed |-> FALSE, unsent |-> FALSE,
             stream |-> IF rendered THEN "connecting" ELSE "off", pos |-> IF rendered THEN 1 ELSE 0,
             bar |-> [of |-> IF rendered /\ kind = "ask" THEN 1 ELSE 0, n |-> 0,
                      busy |-> FALSE, answered |-> FALSE]],
            [log |-> <<kind>>, status |-> "live", answered |-> <<>>],
            Request("load", 0))

(* GET /sessions/{id}?since_seq=.                                           *)
ServeSessLoad(c) ==
    /\ Sent(c, "load")
    /\ Answer(c, [status |-> server.status, upto |-> Len(server.log)]) /\ Only(<<ui, server>>)

(* The gate of a first load that is refused; a catch-up that fails is       *)
(* silent.                                                                  *)
SessLoaded(c) ==
    /\ Back(c, "load")
    /\ IF Ok(c, "load") /\ calls[c].got.status # "gone"
         THEN Shows([AddEvents(ui, calls[c].arg, calls[c].got.upto)
                       EXCEPT !.meta = calls[c].got.status, !.gate = Nothing])
         ELSE Page(IF calls[c].arg # 0 THEN ui
                   ELSE [ui EXCEPT !.gate = IF Ok(c, "load") THEN "deleted" ELSE "error"])
    /\ Done(c) /\ Only(server)

RetrySess ==
    ui.gate = "error" /\ ui.meta = Nothing /\ Fetch("load", 0) /\ Only(<<ui, server>>)

(* The stream opens, and after a drop the tail is loaded again; the server  *)
(* refuses one of a session that is gone.                                   *)
StreamOpens ==
    /\ ui.stream \in {"connecting", "dropped"} /\ server.status # "gone"
    /\ Page([ui EXCEPT !.stream = "open", !.err = FALSE])
    /\ IF ui.stream = "dropped" THEN Fetch("load", ui.last) ELSE UNCHANGED calls
    /\ Only(server)

(* onerror: EventSource tries again by itself, or has given up.             *)
(* Mutated form: giving up is not told.                                     *)
GivesUp_Silently == [ui EXCEPT !.stream = "closed"]
GivesUp == [ui EXCEPT !.stream = "closed", !.err = TRUE]
StreamRefused ==
    /\ ui.stream \in {"connecting", "dropped"} /\ server.status = "gone"
    /\ Page(GivesUp) /\ Only(<<server, calls>>)
StreamFails ==
    /\ ui.stream \in {"connecting", "open", "dropped"} /\ faults < MaxFaults /\ faults' = faults + 1
    /\ \/ Page(GivesUp)
       \/ ui.stream # "dropped" /\ Page([ui EXCEPT !.stream = "dropped"])
    /\ UNCHANGED <<page, server, calls, outside>>

(* onmessage: an event, or the end of the stream.                           *)
StreamEvent ==
    /\ ui.stream = "open" /\ ui.pos < Len(server.log)
    /\ Shows([AddEvents(ui, ui.pos, ui.pos + 1) EXCEPT !.pos = @ + 1])
    /\ Only(<<server, calls>>)

StreamEnded ==
    /\ ui.stream = "open" /\ ui.pos = Len(server.log) /\ server.status = "ended"
    /\ Shows([ui EXCEPT !.meta = "ended"]) /\ Only(<<server, calls>>)

StreamDeleted ==
    /\ ui.stream = "open" /\ server.status = "gone"
    /\ Page([ui EXCEPT !.stream = "closed", !.gate = "deleted"]) /\ Only(<<server, calls>>)

(* The button of the error: a new stream after what is shown, and the tail. *)
Visible == ui.meta # Nothing /\ ui.gate # "deleted"
Reconnect ==
    /\ Visible /\ (ui.err \/ ui.gate = "error")
    /\ Page([IF ui.meta = "live" THEN Connect(ui) ELSE ui EXCEPT !.err = FALSE])
    /\ Fetch("load", ui.last) /\ Only(server)

(* The composer, or its Retry: the comment is shown at once.                *)
SendComment ==
    /\ Visible /\ ui.meta = "live" /\ ui.sent < MaxSends
    /\ LET id == 0 - ui.sent - 1 IN
         /\ Shows([ui EXCEPT !.sent = @ + 1, !.failed = FALSE, !.echoes = @ \cup {id},
                             !.events = Append(@, [id |-> id, at |-> LastAt(ui) + 1])])
         /\ Fetch("comment", id)
    /\ Only(server)

ServeComment(c) ==
    /\ Sent(c, "comment")
    /\ IF server.status = "live"
         THEN server' = [server EXCEPT !.log = Append(@, "hi")] /\ Answer(c, "created")
         ELSE calls' = [calls EXCEPT ![c].at = "failed"] /\ UNCHANGED server
    /\ Only(ui)

(* A comment that was refused is taken back, for the composer to offer      *)
(* again.  unsent remembers it.                                             *)
CommentAnswered(c) ==
    /\ Back(c, "comment")
    /\ IF Ok(c, "comment") THEN UNCHANGED ui
       ELSE Shows([ui EXCEPT !.echoes = @ \ {calls[c].arg},
                             !.events = Without(@, calls[c].arg), !.failed = TRUE, !.unsent = TRUE])
    /\ Done(c) /\ Only(server)

(* The owner's buttons.  Mutated form: they stay enabled.                   *)
Decide_Again ==
    /\ Visible /\ ui.bar.of # 0 /\ ~ui.bar.answered
    /\ Page([ui EXCEPT !.bar.busy = TRUE])
    /\ Fetch("decide", [n |-> ui.bar.n, of |-> ui.bar.of]) /\ Only(server)
Decide ==
    /\ Visible /\ ui.bar.of # 0 /\ ~ui.bar.answered /\ ~ui.bar.busy
    /\ Page([ui EXCEPT !.bar.busy = TRUE])
    /\ Fetch("decide", [n |-> ui.bar.n, of |-> ui.bar.of]) /\ Only(server)

(* POST /sessions/{id}/decision names no request.  answered remembers which *)
(* one the owner was shown.                                                 *)
ServeDecision(c) ==
    /\ Sent(c, "decide")
    /\ IF server.status = "live"
         THEN /\ server' = [server EXCEPT !.log = Append(@, "decision"),
                                          !.answered = Append(@, calls[c].arg.of)]
              /\ Answer(c, "created")
         ELSE calls' = [calls EXCEPT ![c].at = "failed"] /\ UNCHANGED server
    /\ Only(ui)

DecisionAnswered(c) ==
    /\ Back(c, "decide")
    /\ Page(IF calls[c].arg.n # ui.bar.n THEN ui
            ELSE [ui EXCEPT !.bar.busy = FALSE, !.bar.answered = Ok(c, "decide")])
    /\ Done(c) /\ Only(server)

(* The agent, other viewers, the end and the deletion of the session.       *)
SessElsewhere ==
    \/ /\ server.status = "live"
       /\ \E kind \in {"reply", "ask", "hi"} : Elsewhere([server EXCEPT !.log = Append(@, kind)])
    \/ server.status = "live" /\ Elsewhere([server EXCEPT !.status = "ended"])
    \/ Elsewhere([server EXCEPT !.status = "gone"])

SessNext ==
    /\ OnSession
    /\ \/ RetrySess \/ StreamOpens \/ StreamRefused \/ StreamFails
       \/ StreamEvent \/ StreamEnded \/ StreamDeleted \/ Reconnect
       \/ SendComment \/ Decide \/ SessElsewhere
       \/ \E c \in Slots : \/ ServeSessLoad(c) \/ SessLoaded(c) \/ ServeComment(c)
                           \/ CommentAnswered(c) \/ ServeDecision(c) \/ DecisionAnswered(c)
-----------------------------------------------------------------------------
SessTypeOK ==
    OnSession =>
      /\ ui.meta \in {Nothing, "live", "ended"} /\ ui.gate \in {Nothing, "deleted", "error"}
      /\ ui.stream \in {"off", "connecting", "open", "dropped", "closed"}
      /\ ui.last \in 0..Len(server.log) /\ ui.pos \in 0..Len(server.log)
      /\ {ui.err, ui.failed, ui.unsent, ui.bar.busy, ui.bar.answered} \subseteq BOOLEAN

CaughtUp == Quiet /\ (ui.stream = "off" \/ (ui.stream = "open" /\ ui.pos = Len(server.log)))

(* When nothing is under way the transcript is the log: every event once,   *)
(* in order, each comment of the visitor in its place and no echo left      *)
(* over, whatever came by a load, by the stream, by both, or twice after a  *)
(* drop.                                                                    *)
TranscriptIsTheLog ==
    (OnSession /\ Visible /\ ui.gate = Nothing /\ CaughtUp /\ ~ui.unsent /\ server.status # "gone") =>
      ui.events = [k \in DOMAIN server.log |-> At(k)]

(* A page that calls the session live follows it, or says that it does not. *)
LiveIsFollowed ==
    (OnSession /\ Visible /\ ui.meta = "live" /\ server.status # "gone") =>
      ui.stream \in {"connecting", "open", "dropped"} \/ ui.err

(* The owner answers a request once, unless a request has failed.           *)
OneAnswer == (OnSession /\ faults = 0 /\ ~ui.unsent) => IsInjective(server.answered)

(* A session that ended is shown as ended, or the page says that it lost    *)
(* it.                                                                      *)
EndIsShown ==
    <>[](OnSession /\ server.status = "ended" => ui.meta = "ended" \/ ui.err \/ ui.gate # Nothing)
=============================================================================
