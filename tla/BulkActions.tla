----------------------------- MODULE BulkActions -----------------------------
(***************************************************************************)
(* The session list's actions on several rows: select, publish, share,     *)
(* delete, the report of what failed and its Retry.  Rows are the caller's *)
(* own: a shared row has neither a checkbox nor a menu.  Sharing goes the  *)
(* way of publishing, with an invitation for its effect, and is left out.  *)
(***************************************************************************)
EXTENDS Browser

CONSTANT Rows   \* the caller's sessions

OnBulk == page = "bulk"
RowStates == {"plain", "published", "gone"}

Present == {r \in Rows : ui.rows[r] # "gone"}
OwnedSelected == ui.selected \cap Present

BulkInit ==
    LET rows == [r \in Rows |-> "plain"] IN
      Opens("bulk",
            [rows |-> rows, selecting |-> FALSE, selected |-> {}, busy |-> FALSE,
             report |-> Nothing, confirm |-> {}, crossed |-> FALSE],
            rows, Free)

(* Select starts bulk mode; Done leaves it. *)
ToggleSelecting ==
    /\ ui.confirm = {}
    /\ Page([ui EXCEPT !.selecting = ~@, !.selected = {}])
    /\ Only(<<server, calls>>)

Toggle(r) ==
    /\ ui.selecting /\ r \in Present /\ ui.confirm = {}
    /\ Page([ui EXCEPT !.selected = IF r \in @ THEN @ \ {r} ELSE @ \cup {r}])
    /\ Only(<<server, calls>>)

SelectAll ==
    /\ ui.selecting /\ ui.confirm = {} /\ ui.selected # Present
    /\ Page([ui EXCEPT !.selected = Present])
    /\ Only(<<server, calls>>)

(* run: one request per target, at once; it keeps the bulk mode it began    *)
(* in.  crossed remembers that two runs, or a run and a load, overlapped,   *)
(* or that a load failed; no run is started after that (a bound).           *)
Run(kind, targets, selecting) ==
    /\ targets # {} /\ ~ui.crossed
    /\ Page([ui EXCEPT !.busy = TRUE, !.confirm = {}, !.crossed = @ \/ ~Quiet])
    /\ Start(Requests("run", [kind |-> kind, targets |-> targets, selecting |-> selecting]))
    /\ Only(server)

PublishSelected ==
    /\ ui.selecting /\ ~ui.busy /\ ui.confirm = {}
    /\ Run("publish", {r \in OwnedSelected : ui.rows[r] # "published"}, TRUE)

(* Delete asks first: the selected rows from the bar, unless a run is on,   *)
(* or one row from its menu, at any time.                                   *)
AskDelete(targets) ==
    /\ ui.confirm = {} /\ targets # {}
    /\ \/ ui.selecting /\ ~ui.busy /\ targets = OwnedSelected
       \/ \E r \in Present : targets = {r}
    /\ Page([ui EXCEPT !.confirm = targets])
    /\ Only(<<server, calls>>)

CancelDelete ==
    /\ ui.confirm # {}
    /\ Page([ui EXCEPT !.confirm = {}])
    /\ Only(<<server, calls>>)

DeleteForever == Run("delete", ui.confirm, ui.selecting)

Retry ==
    /\ ui.report # Nothing /\ ~ui.busy /\ ui.confirm = {}
    /\ Run(ui.report.kind, ui.report.failed, ui.report.selecting)

Dismiss ==
    /\ ui.report # Nothing /\ ui.confirm = {}
    /\ Page([ui EXCEPT !.report = Nothing])
    /\ Only(<<server, calls>>)

(* runBulk: Promise.allSettled over the targets.  Publishing a session that *)
(* is gone is refused; deleting it is not.                                  *)
Settled(c) == IF calls[c].got = Nothing THEN [done |-> {}, failed |-> {}] ELSE calls[c].got
Settle(c, r, how) ==
    LET s == [Settled(c) EXCEPT ![how] = @ \cup {r}] IN
      calls' = [calls EXCEPT ![c].got = s,
                             ![c].at = IF s.done \cup s.failed = calls[c].arg.targets THEN "ok" ELSE @]

Awaited(c, r) ==
    Each(c, "run") /\ r \in calls[c].arg.targets \ (Settled(c).done \cup Settled(c).failed)
Turned(kind, r) ==
    [server EXCEPT ![r] = IF kind = "delete" \/ @ = "gone" THEN "gone" ELSE "published"]

ServeOne(c, r) ==
    /\ Awaited(c, r)
    /\ LET kind == calls[c].arg.kind IN
         /\ server' = Turned(kind, r)
         /\ Settle(c, r, IF kind = "publish" /\ server[r] = "gone" THEN "failed" ELSE "done")
    /\ Only(ui)

(* A request that never arrives, or whose answer does not. *)
FailOne(c, r) ==
    /\ Awaited(c, r)
    /\ faults < MaxFaults /\ faults' = faults + 1
    /\ server' \in {server, Turned(calls[c].arg.kind, r)}
    /\ Settle(c, r, "failed")
    /\ UNCHANGED <<page, ui, outside>>

(* After the last target: the report, the selection left by the run's bulk  *)
(* mode, and a reload.  Mutated form: the list is not reloaded.             *)
RunAnswered_NoLoad(c) ==
    /\ Ok(c, "run")
    /\ Page([ui EXCEPT !.busy = FALSE]) /\ Done(c) /\ Only(server)
RunAnswered(c) ==
    /\ Ok(c, "run")
    /\ LET a == calls[c].arg
           bad == Settled(c).failed
       IN Page([ui EXCEPT
             !.busy = FALSE,
             !.report = IF bad = {} THEN Nothing
                        ELSE [kind |-> a.kind, failed |-> bad, selecting |-> a.selecting],
             !.selecting = @ /\ ~(a.selecting /\ bad = {}),
             !.selected = IF a.selecting THEN bad ELSE @])
    /\ ThenFetch(c, "load", Nothing)
    /\ Only(server)

ServeLoad(c) == Sent(c, "load") /\ Answer(c, server) /\ Only(<<ui, server>>)

LoadAnswered(c) ==
    /\ Back(c, "load")
    /\ Page(IF Ok(c, "load") THEN [ui EXCEPT !.rows = calls[c].got]
            ELSE [ui EXCEPT !.crossed = TRUE])
    /\ Done(c) /\ Only(server)

BulkNext ==
    /\ OnBulk
    /\ \/ ToggleSelecting
       \/ \E r \in Rows : Toggle(r)
       \/ SelectAll
       \/ PublishSelected
       \/ \E targets \in SUBSET Rows : AskDelete(targets)
       \/ CancelDelete
       \/ DeleteForever
       \/ Retry
       \/ Dismiss
       \/ \E c \in Slots, r \in Rows : ServeOne(c, r) \/ FailOne(c, r)
       \/ \E c \in Slots : RunAnswered(c) \/ ServeLoad(c) \/ LoadAnswered(c)
-----------------------------------------------------------------------------
BulkTypeOK ==
    OnBulk =>
      /\ server \in [Rows -> RowStates] /\ ui.rows \in [Rows -> RowStates]
      /\ ui.selected \subseteq Rows /\ ui.confirm \subseteq Rows
      /\ ui.report = Nothing \/ ui.report.failed \subseteq Rows
      /\ {ui.selecting, ui.busy, ui.crossed} \subseteq BOOLEAN

(* When everything has come back and nothing overlapped, the rows are the   *)
(* API's: partial failures, retries and deleted rows included.              *)
BulkRowsAreCurrent ==
    (OnBulk /\ Quiet /\ ~ui.crossed) => ui.rows = server
=============================================================================
