---------------------------- MODULE SessionStrip ----------------------------
(***************************************************************************)
(* The strip over a session: end and delete behind a dialog, the title     *)
(* edited in place, and the switch of the agent's model.  The caller owns  *)
(* the session, which may end on its machine meanwhile.                    *)
(***************************************************************************)
EXTENDS Browser

OnStrip == page = "strip"
StripMeta == [status : {"live", "ended", "gone"}, title : {"t0", "t1"}, model : {"m0", "m1"}]
(* The row, and the model that the owner's machines were last told: at      *)
(* first the one the row has, which no switch writes.                       *)
StripHeld == [status : {"live", "ended", "gone"}, title : {"t0", "t1"}, told : {"m0", "m1"}]

ASSUME StripAssumption == Nothing \notin {"done", "end", "delete"}

StripInit ==
    LET meta == [status |-> "live", title |-> "t0", model |-> "m0"] IN
      Opens("strip", [meta |-> meta, confirm |-> Nothing, busy |-> FALSE, err |-> Nothing,
                      field |-> FALSE, draft |-> "t0", switching |-> FALSE, crossed |-> FALSE],
            [status |-> "live", title |-> "t0", told |-> "m0"], Free)

(* Nothing is done on the strip of a session whose page was left. *)
Stays == ui.meta.status # "gone"
Sends(p, op, arg) == Page([p EXCEPT !.crossed = @ \/ OutAs(op) # {}]) /\ Fetch(op, arg) /\ Only(server)

(* The menu: End for a live session, Delete for any. *)
AskStrip(kind) ==
    /\ Stays /\ ui.confirm = Nothing /\ (kind = "end" => ui.meta.status = "live")
    /\ Page([ui EXCEPT !.confirm = kind]) /\ Only(<<server, calls>>)

(* Cancel, Escape and the backdrop, also while a request is out; Cancel     *)
(* leaves the error where it is.                                            *)
CloseStrip ==
    /\ ui.confirm # Nothing
    /\ \E e \in {ui.err, Nothing} : Page([ui EXCEPT !.confirm = Nothing, !.err = e])
    /\ Only(<<server, calls>>)

RunConfirmed ==
    /\ Stays /\ ui.confirm # Nothing /\ ~ui.busy
    /\ Sends([ui EXCEPT !.busy = TRUE, !.err = Nothing], "confirmed", ui.confirm)

(* An end that is asked for again is answered again, a session that is gone *)
(* counts as deleted.                                                       *)
ServeConfirmed(c) ==
    /\ Sent(c, "confirmed")
    /\ IF calls[c].arg = "end" /\ server.status = "gone" THEN Answer(c, Nothing) /\ UNCHANGED server
       ELSE /\ server' = [server EXCEPT !.status = IF calls[c].arg = "end" THEN "ended" ELSE "gone"]
            /\ Answer(c, "done")
    /\ Only(ui)

(* The rest of runConfirmed, with the question it was started from; it      *)
(* closes whatever is asked by now.  Mutated form: the meta says ended      *)
(* after a failure as well.                                                 *)
ConfirmedStrip_Always(c) ==
    /\ Back(c, "confirmed")
    /\ Page([ui EXCEPT !.busy = FALSE, !.confirm = Nothing,
                       !.meta.status = IF calls[c].arg = "end" THEN "ended" ELSE "gone"])
    /\ Done(c) /\ Only(server)
ConfirmedStrip(c) ==
    /\ Back(c, "confirmed")
    /\ LET kind == calls[c].arg IN
         Page(IF calls[c].got # Nothing
                THEN [ui EXCEPT !.busy = FALSE, !.confirm = Nothing,
                                !.meta.status = IF kind = "end" THEN "ended" ELSE "gone"]
                ELSE [ui EXCEPT !.busy = FALSE, !.err = kind])
    /\ Done(c) /\ Only(server)

(* The title: a field that Enter and blur save and Escape closes.  A save   *)
(* keeps it open until it is answered.                                      *)
EditTitle ==
    /\ Stays /\ ~ui.field
    /\ Page([ui EXCEPT !.field = TRUE, !.draft = ui.meta.title]) /\ Only(<<server, calls>>)
DraftTitle(t) ==
    /\ ui.field /\ t # ui.draft
    /\ Page([ui EXCEPT !.draft = t]) /\ Only(<<server, calls>>)
EscapeField == ui.field /\ Page([ui EXCEPT !.field = FALSE]) /\ Only(<<server, calls>>)
SaveField ==
    /\ Stays /\ ui.field /\ ~ui.crossed
    /\ IF ui.draft = ui.meta.title
         THEN Page([ui EXCEPT !.field = FALSE]) /\ Only(<<server, calls>>)
         ELSE Sends(ui, "retitle", ui.draft)

ServeRetitle(c) ==
    /\ Sent(c, "retitle")
    /\ IF server.status = "gone" THEN Answer(c, Nothing) /\ UNCHANGED server
       ELSE server' = [server EXCEPT !.title = calls[c].arg] /\ Answer(c, "done")
    /\ Only(ui)

(* Mutated form: the field closes and the title stays. *)
Retitled_Forgets(c) ==
    /\ Back(c, "retitle") /\ Page([ui EXCEPT !.field = FALSE]) /\ Done(c) /\ Only(server)
Retitled(c) ==
    /\ Back(c, "retitle")
    /\ Page(IF calls[c].got # Nothing
              THEN [ui EXCEPT !.field = FALSE, !.meta.title = calls[c].arg] ELSE ui)
    /\ Done(c) /\ Only(server)

(* The model of a live session: the select is disabled while a switch is    *)
(* out.  Mutated form: it is not.                                           *)
SwitchModel_Enabled(next) ==
    /\ Stays /\ ui.meta.status = "live" /\ next # ui.meta.model
    /\ Sends([ui EXCEPT !.switching = TRUE], "model", next)
SwitchModel(next) ==
    /\ Stays /\ ui.meta.status = "live" /\ next # ui.meta.model /\ ~ui.switching
    /\ Sends([ui EXCEPT !.switching = TRUE], "model", next)

(* The API passes the alias on to the owner's machines that are online and  *)
(* stores nothing.  It refuses for a session that ended, and when no        *)
(* machine is online or none can be reached.                                *)
ServeModel(c) ==
    /\ Sent(c, "model")
    /\ \/ Answer(c, Nothing) /\ UNCHANGED server
       \/ /\ server.status = "live"
          /\ server' = [server EXCEPT !.told = calls[c].arg] /\ Answer(c, "done")
    /\ Only(ui)
ModelAnswered(c) ==
    /\ Back(c, "model")
    /\ Page(IF calls[c].got # Nothing
              THEN [ui EXCEPT !.switching = FALSE, !.meta.model = calls[c].arg]
              ELSE [ui EXCEPT !.switching = FALSE])
    /\ Done(c) /\ Only(server)

(* The stream tells the page of an end on the machine. *)
StripEnds == server.status = "live" /\ Elsewhere([server EXCEPT !.status = "ended"])
StripTold ==
    /\ server.status = "ended" /\ ui.meta.status = "live"
    /\ Page([ui EXCEPT !.meta.status = "ended"]) /\ Only(<<server, calls>>)

StripNext ==
    /\ OnStrip
    /\ \/ CloseStrip \/ RunConfirmed \/ EditTitle \/ EscapeField \/ SaveField \/ StripEnds \/ StripTold
       \/ AskStrip("end") \/ AskStrip("delete")
       \/ \E t \in {"t0", "t1"} : DraftTitle(t)
       \/ \E next \in {"m0", "m1"} : SwitchModel(next)
       \/ \E c \in Slots : \/ ServeConfirmed(c) \/ ConfirmedStrip(c) \/ ServeRetitle(c) \/ Retitled(c)
                           \/ ServeModel(c) \/ ModelAnswered(c)
-----------------------------------------------------------------------------
StripTypeOK ==
    OnStrip =>
      /\ ui.meta \in StripMeta /\ server \in StripHeld
      /\ ui.confirm \in {Nothing, "end", "delete"} /\ ui.err \in {Nothing, "end", "delete"}
      /\ {ui.busy, ui.field, ui.switching, ui.crossed} \subseteq BOOLEAN

(* The strip never says that a session ended or is gone before it has and   *)
(* is, whichever dialog is up when the answer comes.                        *)
NeverAheadOfTheApi ==
    OnStrip => /\ ui.meta.status = "ended" => server.status # "live"
               /\ ui.meta.status = "gone" => server.status = "gone"

(* Once everything has come back the title is the API's, and the model is   *)
(* the one that the machines were last told, though switches are refused    *)
(* and the session may end while one is out; unless a request failed or two *)
(* saves of the title overlapped.                                           *)
StripAgrees ==
    OnStrip /\ Quiet /\ faults = 0 /\ ~ui.crossed =>
      ui.meta.title = server.title /\ ui.meta.model = server.told
(* The model is switched once at a time, however often the menu is opened. *)
OneSwitchOut == OnStrip => Cardinality(OutAs("model")) <= 1
=============================================================================
