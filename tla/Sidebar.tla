------------------------------ MODULE Sidebar ------------------------------
(***************************************************************************)
(* The shell's session poll and the sidebar that reads it: end and delete, *)
(* which ask first, rename in place, and the session being viewed.  A row  *)
(* has a status and a title; sessions end on their machines meanwhile.     *)
(***************************************************************************)
EXTENDS Browser

CONSTANT SideRows   \* the sessions the sidebar lists

(* Nothing viewed is not a session. *)
ASSUME SideAssumption == Nothing \notin SideRows

OnSide == page = "side"

SideRow == [status : {"live", "ended", "gone"}, title : {"old", "new"}]

(* The dialog is the browser's own: open is what the browser shows, confirm *)
(* what React asks.                                                         *)
SideInit ==
    \E v \in SideRows \cup {Nothing} :
      Opens("side",
            [list |-> Nothing, view |-> v, confirm |-> Nothing, open |-> FALSE,
             busy |-> FALSE, editing |-> Nothing, moved |-> FALSE],
            [x \in SideRows |-> [status |-> "live", title |-> "old"]],
            Request("list", Nothing))

PollSide == Fetch("list", Nothing) /\ Only(<<ui, server>>)

(* A poll that fails keeps the last good list.                              *)
(* Mutated form: so does every poll after the first.                        *)
SideLoaded_Once(c) ==
    /\ Back(c, "list")
    /\ Page(IF Ok(c, "list") /\ ui.list = Nothing THEN [ui EXCEPT !.list = calls[c].got] ELSE ui)
    /\ Done(c) /\ Only(server)
SideLoaded(c) ==
    /\ Back(c, "list")
    /\ Page(IF Ok(c, "list") THEN [ui EXCEPT !.list = calls[c].got] ELSE ui)
    /\ Done(c) /\ Only(server)

(* patch: the row, where the list still has it.  drop: without the row. *)
PatchRow(p, x, row) ==
    IF p.list[x].status = "gone" THEN p ELSE [p EXCEPT !.list[x] = row]
DropRow(p, x) == [p EXCEPT !.list[x].status = "gone"]

(* The rows of the sidebar, each a link with a menu: live ones can be ended *)
(* and all of them renamed and deleted.                                     *)
Sections == IF ui.list = Nothing THEN {} ELSE {x \in SideRows : ui.list[x].status # "gone"}

(* Links, the palette and the back button, whatever is open. *)
GoTo(v) ==
    /\ v # ui.view /\ v \in Sections \cup {Nothing}
    /\ Page([ui EXCEPT !.view = v, !.moved = @ \/ ui.busy]) /\ Only(<<server, calls>>)

(* A row's menu.  The page behind an open dialog is inert.  The dialog is   *)
(* shown when confirm was empty before.                                     *)
AskConfirm(kind, x) ==
    /\ ~ui.open /\ x \in Sections /\ (kind = "end" => ui.list[x].status = "live")
    /\ Page([ui EXCEPT !.confirm = [kind |-> kind, x |-> x],
                       !.open = ui.confirm = Nothing])
    /\ Only(<<server, calls>>)

(* Escape, the backdrop and Cancel: the browser closes its dialog on Escape *)
(* even when the page, being busy, does not want it closed.                 *)
(* Mutated form: the page does not hear of it.                              *)
CloseDialog_Deaf == ui.open /\ Page([ui EXCEPT !.open = FALSE]) /\ Only(<<server, calls>>)
CloseDialog ==
    /\ ui.open
    /\ Page([ui EXCEPT !.open = FALSE, !.confirm = IF ui.busy THEN @ ELSE Nothing])
    /\ Only(<<server, calls>>)

(* doConfirm, up to its request.  Whether the target is being viewed is     *)
(* what it was when the button was clicked.                                 *)
DoConfirm ==
    /\ ui.open /\ ~ui.busy
    /\ Page([ui EXCEPT !.busy = TRUE, !.moved = FALSE])
    /\ Fetch("confirm", [kind |-> ui.confirm.kind, x |-> ui.confirm.x, viewed |-> ui.view = ui.confirm.x])
    /\ Only(server)

(* POST /sessions/{id}/stop and DELETE /sessions/{id}: an end that is asked  *)
(* for again is answered again, a session that is gone counts as deleted.   *)
ServeConfirm(c) ==
    /\ Sent(c, "confirm")
    /\ LET a == calls[c].arg
           new == [server EXCEPT ![a.x].status = IF a.kind = "end" THEN "ended" ELSE "gone"]
       IN IF a.kind = "end" /\ server[a.x].status = "gone" THEN Answer(c, Nothing) /\ UNCHANGED server
          ELSE server' = new /\ Answer(c, new[a.x])
    /\ Only(ui)

(* The rest of doConfirm.  It closes whatever is being asked by then.       *)
(* Mutated form: a session deleted while it is viewed is not left.          *)
Confirmed_Stays(c) ==
    /\ Back(c, "confirm")
    /\ LET a == calls[c].arg
           done == IF calls[c].got = Nothing THEN ui
                   ELSE IF a.kind = "end" THEN PatchRow(ui, a.x, calls[c].got)
                   ELSE DropRow(ui, a.x)
       IN Page([done EXCEPT !.busy = FALSE, !.confirm = Nothing, !.open = FALSE])
    /\ Done(c) /\ Only(server)
Confirmed(c) ==
    /\ Back(c, "confirm")
    /\ LET a == calls[c].arg
           done == IF calls[c].got = Nothing THEN ui
                   ELSE IF a.kind = "end" THEN PatchRow(ui, a.x, calls[c].got)
                   ELSE [DropRow(ui, a.x) EXCEPT !.view = IF a.viewed THEN Nothing ELSE @]
       IN Page([done EXCEPT !.busy = FALSE, !.confirm = Nothing, !.open = FALSE])
    /\ Done(c) /\ Only(server)

(* Rename: a field in the row, closed by Enter or blur before anything is   *)
(* saved, and by Escape.                                                    *)
StartRename(x) ==
    /\ ~ui.open /\ ui.editing = Nothing /\ x \in Sections
    /\ Page([ui EXCEPT !.editing = x]) /\ Only(<<server, calls>>)

SaveRename ==
    /\ ui.editing # Nothing
    /\ Page([ui EXCEPT !.editing = Nothing])
    /\ IF ui.editing \in Sections /\ ui.list[ui.editing].title # "new"
         THEN Fetch("rename", [x |-> ui.editing, row |-> ui.list[ui.editing]])
         ELSE UNCHANGED calls
    /\ Only(server)

CancelRename ==
    /\ ui.editing # Nothing
    /\ Page([ui EXCEPT !.editing = Nothing]) /\ Only(<<server, calls>>)

ServeRename(c) ==
    /\ Sent(c, "rename")
    /\ IF server[calls[c].arg.x].status # "gone"
         THEN server' = [server EXCEPT ![calls[c].arg.x].title = "new"] /\ Answer(c, "renamed")
         ELSE Answer(c, Nothing) /\ UNCHANGED server
    /\ Only(ui)

(* The row is patched as it was when the name was saved. *)
Renamed(c) ==
    /\ Back(c, "rename")
    /\ Page(IF calls[c].got = Nothing THEN ui
            ELSE PatchRow(ui, calls[c].arg.x, [calls[c].arg.row EXCEPT !.title = "new"]))
    /\ Done(c) /\ Only(server)

ServeList(c) == Sent(c, "list") /\ Answer(c, server) /\ Only(<<ui, server>>)

EndsElsewhere ==
    \E x \in SideRows : server[x].status = "live" /\ Elsewhere([server EXCEPT ![x].status = "ended"])

SideNext ==
    /\ OnSide
    /\ \/ PollSide \/ CloseDialog \/ DoConfirm \/ SaveRename \/ CancelRename \/ EndsElsewhere
       \/ \E v \in SideRows \cup {Nothing} : GoTo(v)
       \/ \E x \in SideRows : AskConfirm("end", x) \/ AskConfirm("delete", x) \/ StartRename(x)
       \/ \E c \in Slots : \/ ServeList(c) \/ SideLoaded(c) \/ ServeConfirm(c) \/ Confirmed(c)
                           \/ ServeRename(c) \/ Renamed(c)
-----------------------------------------------------------------------------
SideTypeOK ==
    OnSide =>
      /\ server \in [SideRows -> SideRow] /\ (ui.list = Nothing \/ ui.list \in [SideRows -> SideRow])
      /\ ui.view \in SideRows \cup {Nothing} /\ ui.editing \in SideRows \cup {Nothing}
      /\ {ui.open, ui.busy, ui.moved} \subseteq BOOLEAN

(* Whoever deletes the session they are looking at is taken off its page,   *)
(* and nobody else is, as long as nobody moves while the request is out:    *)
(* where they were is remembered from before it.                            *)
LeavesTheDeleted ==
    [][OnSide /\ ~ui.moved =>
         \A c \in Slots : Confirmed(c) =>
           (ui'.view # ui.view <=> /\ calls[c].got # Nothing /\ calls[c].arg.kind = "delete"
                                   /\ ui.view = calls[c].arg.x)]_vars

(* Once a request is answered, nothing is asked behind a dialog the browser *)
(* has closed on its own: the next question is shown.                       *)
AskedIsShown == OnSide /\ ui.confirm # Nothing /\ ~ui.busy => ui.open

SideCurrent == OnSide => ui.list = server
=============================================================================
