----------------------------- MODULE ShareSheet -----------------------------
(***************************************************************************)
(* The share sheet of a session's owner: who can open it, the link's role  *)
(* and the public feed.  The people invited by name are InvitedPeople.     *)
(***************************************************************************)
EXTENDS Browser

Levels == {"private", "link", "public", "open"}
RANK == [private |-> 0, link |-> 1, public |-> 2, open |-> 3]
LinkRoles == {"viewer", "commenter"}

OnShare == page = "share"

(* The row that PATCH, publish and unpublish answer with. *)
ShareRows == [vis : Levels, role : LinkRoles, pub : BOOLEAN]
Patch(vis, role) == [vis |-> vis, role |-> role, next |-> Nothing]
Then(level) == [vis |-> Nothing, role |-> Nothing, next |-> level]

(* The sheet mounts with the parent's copy of the session.  Everything      *)
(* published is Public or Open.                                             *)
ShareInit ==
    \E v \in Levels, p \in BOOLEAN :
      /\ p => RANK[v] >= RANK.public
      /\ LET row == [vis |-> v, role |-> "viewer", pub |-> p] IN
           Opens("share",
                 [cur |-> row, draft |-> v, confirm |-> FALSE, busy |-> FALSE,
                  err |-> FALSE, stale |-> FALSE, unaware |-> FALSE],
                 row, Free)

PickLevel(v) ==
    /\ ~ui.busy /\ v # ui.draft
    /\ Page([ui EXCEPT !.draft = v])
    /\ Only(<<server, calls>>)

CancelLevel ==
    /\ ui.draft # ui.cur.vis
    /\ Page([ui EXCEPT !.draft = ui.cur.vis])
    /\ Only(<<server, calls>>)

(* act: one change at a time; the error of the last one is cleared. *)
Act(op, arg) ==
    /\ ~ui.busy
    /\ Page([ui EXCEPT !.busy = TRUE, !.err = FALSE])
    /\ Fetch(op, arg)
    /\ Only(server)

(* Narrowing a published session below Public takes it off the feed first.  *)
(* Mutated form: only the visibility is patched.                            *)
ApplyVisibility_Plain ==
    ui.draft # ui.cur.vis /\ Act("patch", Patch(ui.draft, Nothing))
ApplyVisibility ==
    /\ ui.draft # ui.cur.vis
    /\ IF ui.cur.pub /\ RANK[ui.draft] < RANK.public
         THEN Act("unpublish", Then(IF ui.draft = "private" THEN Nothing ELSE ui.draft))
         ELSE Act("patch", Patch(ui.draft, Nothing))

SetLinkRole(r) ==
    ui.cur.vis # "private" /\ r # ui.cur.role /\ Act("patch", Patch(Nothing, r))

AskPublish ==
    /\ ~ui.cur.pub /\ ~ui.busy /\ ~ui.confirm
    /\ Page([ui EXCEPT !.confirm = TRUE])
    /\ Only(<<server, calls>>)

CancelPublish ==
    /\ ui.confirm /\ ~ui.cur.pub
    /\ Page([ui EXCEPT !.confirm = FALSE])
    /\ Only(<<server, calls>>)

(* An Open session is opened again after it is published. *)
Publish ==
    /\ ui.confirm /\ ~ui.cur.pub
    /\ Act("publish", Then(IF ui.cur.vis = "open" THEN "open" ELSE Nothing))

RemoveFromFeed == ui.cur.pub /\ Act("unpublish", Then(Nothing))

ShareOps == {"patch", "publish", "unpublish"}

(* PATCH /sessions/{id}, POST .../publish and POST .../unpublish. *)
ServeShare(c) ==
    /\ calls[c].op \in ShareOps /\ calls[c].at = "sent"
    /\ LET a == calls[c].arg
           new == CASE calls[c].op = "publish" -> [server EXCEPT !.pub = TRUE, !.vis = "public"]
                    [] calls[c].op = "unpublish" -> [server EXCEPT !.pub = FALSE, !.vis = "private"]
                    [] OTHER -> [server EXCEPT !.vis = IF a.vis = Nothing THEN @ ELSE a.vis,
                                               !.role = IF a.role = Nothing THEN @ ELSE a.role]
       IN server' = new /\ Answer(c, new)
    /\ Only(ui)

(* act after its await: the next request of the change, the row the last    *)
(* one answered with, or the error.  stale remembers that a change failed,  *)
(* so that the sheet may not know what it changed, and unaware that one     *)
(* failed that had published the session.  A change that published closes   *)
(* the confirmation.                                                        *)
(* Mutated form: the first answer is taken for the last.                    *)
ActAnswered_First(c) ==
    /\ calls[c].op \in ShareOps /\ calls[c].at \in {"ok", "failed"}
    /\ Page([ui EXCEPT !.busy = FALSE, !.err = calls[c].at = "failed",
                       !.stale = @ \/ calls[c].at = "failed",
                       !.cur = IF calls[c].at = "ok" THEN calls[c].got ELSE @])
    /\ IF calls[c].at = "ok" /\ calls[c].arg.next # Nothing
         THEN ThenFetch(c, "patch", Patch(calls[c].arg.next, Nothing))
         ELSE Done(c)
    /\ Only(server)
ActAnswered(c) ==
    /\ calls[c].op \in ShareOps /\ calls[c].at \in {"ok", "failed"}
    /\ CASE calls[c].at = "failed" ->
              /\ Page([ui EXCEPT !.busy = FALSE, !.err = TRUE, !.stale = TRUE,
                                 !.unaware = @ \/ (server.pub /\ ~ui.cur.pub)])
              /\ Done(c)
         [] calls[c].at = "ok" /\ calls[c].arg.next # Nothing ->
              ThenFetch(c, "patch", Patch(calls[c].arg.next, Nothing)) /\ UNCHANGED ui
         [] OTHER ->
              /\ Page([ui EXCEPT !.busy = FALSE, !.cur = calls[c].got,
                                 !.draft = calls[c].got.vis,
                                 !.confirm = @ /\ ~calls[c].got.pub])
              /\ Done(c)
    /\ Only(server)
ShareNext ==
    /\ OnShare
    /\ \/ \E v \in Levels : PickLevel(v)
       \/ CancelLevel
       \/ ApplyVisibility
       \/ \E r \in LinkRoles : SetLinkRole(r)
       \/ AskPublish
       \/ CancelPublish
       \/ Publish
       \/ RemoveFromFeed
       \/ \E c \in Slots : ServeShare(c) \/ ActAnswered(c)
-----------------------------------------------------------------------------
ShareTypeOK ==
    OnShare =>
      /\ server \in ShareRows /\ ui.cur \in ShareRows /\ ui.draft \in Levels
      /\ {ui.confirm, ui.busy, ui.err, ui.stale, ui.unaware} \subseteq BOOLEAN

(* A session narrowed below Public is not left on the feed: the feed lists  *)
(* whatever is published, so the sheet unpublishes first, also where either *)
(* half of a narrowing failed, before its effect or after it, and another   *)
(* change follows.  Only a publication whose answer was lost is left out:   *)
(* the sheet then narrows a session it does not know to be on the feed.     *)
NarrowedIsOffTheFeed ==
    (OnShare /\ ~ui.unaware) => (server.pub => RANK[server.vis] >= RANK.public)

(* With no change under way and none failed, the sheet shows the access,    *)
(* link role and feed state the server holds: after a change of two         *)
(* requests too, where the first answer is not the last word.               *)
SheetShowsTheRow ==
    (OnShare /\ ~ui.busy /\ ~ui.stale) => ui.cur = server
=============================================================================
