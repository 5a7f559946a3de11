---------------------------- MODULE LandingReplay ----------------------------
(***************************************************************************)
(* The replay of the landing: the server asks for the sessions of the feed *)
(* one after another, as an anonymous visitor, and cuts the first one that *)
(* has enough to show down to a few lines.                                 *)
(***************************************************************************)
EXTENDS Browser, SequencesExt

OnLanding == page = "landing"

MAX_LINES == 3
MAX_TOOL_RUN == 1
ENOUGH == 2      \* lines worth showing
TRIES == 2       \* sessions asked for

(* An event as a line: who, and one of a few texts.  Two types of event     *)
(* tell of one command.                                                     *)
Line(kind, text) == [kind |-> kind, text |-> text]
Events == {Line("you", "a"), Line("tool", "a"), Line("tool", "b")}

(* replayLines: what repeats the last line kept is one step with it; of a   *)
(* run of commands the first are kept.                                      *)
(* Mutated form: a command that is hidden starts the count again.           *)
Full(acc) == Len(acc.out) >= MAX_LINES
Repeats(acc, e) == acc.out # <<>> /\ Last(acc.out).text = e.text
NextLine_Recounts(acc, e) ==
    IF Full(acc) \/ Repeats(acc, e) THEN acc
    ELSE LET run == IF e.kind = "tool" THEN acc.run + 1 ELSE 0
         IN IF run > MAX_TOOL_RUN THEN [acc EXCEPT !.run = 0] ELSE [out |-> Append(acc.out, e), run |-> run]
NextLine(acc, e) ==
    IF Full(acc) \/ Repeats(acc, e) THEN acc
    ELSE LET run == IF e.kind = "tool" THEN acc.run + 1 ELSE 0
         IN IF run > MAX_TOOL_RUN THEN [acc EXCEPT !.run = run] ELSE [out |-> Append(acc.out, e), run |-> run]
ReplayLines(events) == FoldLeft(NextLine, [out |-> <<>>, run |-> 0], events).out
WorthShowing(events) == Len(ReplayLines(events)) >= ENOUGH

(* The feed as it was read: open sessions that ended.  The one an admin     *)
(* chose comes first, whatever it is.                                       *)
Picked == "chosen"
Feed == <<"f1", "f2">>
Candidates(u) == SubSeq((IF u.chosen THEN <<Picked>> ELSE <<>>) \o Feed, 1, TRIES)
Replayable == {Picked, "f1", "f2"}
Logs == [1..4 -> Events] \cup {<<>>}

(* No replay is not a replay. *)
ASSUME ReplayAssumption ==
    Nothing \notin [id : Replayable, lines : {ReplayLines(log) : log \in Logs}]

LandingInit ==
    \E chosen \in BOOLEAN, long \in [1..4 -> Events], short, chosenOpen \in BOOLEAN :
      Opens("landing", [chosen |-> chosen, try |-> 1, shown |-> Nothing, served |-> {}, done |-> FALSE],
            [open |-> [x \in Replayable |-> x # Picked \/ chosenOpen],
             log |-> [x \in Replayable |-> IF x = "f1" /\ short THEN <<>> ELSE long]],
            Free)

TryNext ==
    /\ ~ui.done /\ calls = NoCalls /\ ui.try <= Len(Candidates(ui))
    /\ Fetch("replay", Candidates(ui)[ui.try]) /\ Only(<<ui, server>>)

(* GET /sessions/{id} without a cookie: refused unless it is open.          *)
(* served remembers what was readable.                                      *)
ServeReplay(c) ==
    /\ Sent(c, "replay")
    /\ LET x == calls[c].arg IN
         IF server.open[x]
           THEN /\ Answer(c, server.log[x]) /\ Page([ui EXCEPT !.served = @ \cup {x}])
           ELSE calls' = [calls EXCEPT ![c].at = "failed"] /\ UNCHANGED ui
    /\ Only(server)

(* Refused, failed or too short: the next one is tried, and none at all is  *)
(* a valid outcome.  Mutated form: a failure is the end of it.              *)
ReplayAnswered_GivesUp(c) ==
    /\ Back(c, "replay")
    /\ Page(IF Ok(c, "replay") /\ WorthShowing(calls[c].got)
              THEN [ui EXCEPT !.shown = [id |-> calls[c].arg, lines |-> ReplayLines(calls[c].got)], !.done = TRUE]
            ELSE [ui EXCEPT !.try = @ + 1, !.done = Failed(c, "replay")])
    /\ Done(c) /\ Only(server)
ReplayAnswered(c) ==
    /\ Back(c, "replay")
    /\ Page(IF Ok(c, "replay") /\ WorthShowing(calls[c].got)
              THEN [ui EXCEPT !.shown = [id |-> calls[c].arg, lines |-> ReplayLines(calls[c].got)], !.done = TRUE]
            ELSE [ui EXCEPT !.try = @ + 1, !.done = ui.try = Len(Candidates(ui))])
    /\ Done(c) /\ Only(server)

SessionIsHidden == \E x \in Replayable : Elsewhere([server EXCEPT !.open[x] = FALSE])

LandingNext ==
    /\ OnLanding
    /\ \/ TryNext \/ SessionIsHidden
       \/ \E c \in Slots : ServeReplay(c) \/ ReplayAnswered(c)
-----------------------------------------------------------------------------
LandingTypeOK ==
    OnLanding => /\ ui.try \in 1..(TRIES + 1) /\ {ui.chosen, ui.done} \subseteq BOOLEAN
                 /\ ui.shown # Nothing => ui.shown.id \in ui.served

(* Whatever the events, the replay is short, repeats nothing and is no run  *)
(* of commands, and its lines are of the session, in its order.             *)
ReplayIsShort ==
    (OnLanding /\ ui.shown # Nothing) =>
      LET out == ui.shown.lines
          log == server.log[ui.shown.id]
      IN /\ Len(out) \in ENOUGH..MAX_LINES
         /\ \A i \in 1..(Len(out) - 1) : out[i].text # out[i + 1].text
         /\ \A i \in 1..(Len(out) - MAX_TOOL_RUN) :
              \E j \in i..(i + MAX_TOOL_RUN) : out[j].kind # "tool"
         /\ \E at \in [DOMAIN out -> DOMAIN log] :
              /\ \A i, j \in DOMAIN out : i < j => at[i] < at[j]
              /\ \A i \in DOMAIN out : log[at[i]] = out[i]

(* One session that cannot be read does not take the replay off the page    *)
(* while another that was asked for has enough to show.                     *)
ReplayIsFound ==
    (OnLanding /\ ui.done /\ ui.shown = Nothing /\ faults = 0 /\ outside = 0) =>
      \A i \in DOMAIN Candidates(ui) :
        LET x == Candidates(ui)[i]
        IN server.open[x] => ~WorthShowing(server.log[x])
=============================================================================
