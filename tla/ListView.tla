------------------------------ MODULE ListView ------------------------------
(***************************************************************************)
(* What the session list shows of its rows: filters, date groups, and the  *)
(* rename field in a row.  The rows themselves come from SessionRows.      *)
(***************************************************************************)
EXTENDS Browser, SequencesExt

OnList == page = "list"

ListRows == 1..3
Titles == {"old", "new"}

(* When a row was last active, in days, a live one today.  Row 3 is shared  *)
(* with the caller.                                                         *)
Age == <<0, 7, 31>>
LiveRows == {1}
SharedRows == {3}
Filters_ == [live : BOOLEAN, owner : {"any", "shared"}] \ {[live |-> TRUE, owner |-> "shared"]}
NoFilters == [live |-> FALSE, owner |-> "any"]

(* The search box and the agent, machine and project menus select as these  *)
(* two do, and Mine as Shared does.  Both at once select no row here, as    *)
(* one of them does for the caller's own.                                   *)
Matches(r, f) ==
    /\ f.live => r \in LiveRows
    /\ f.owner = "shared" => r \in SharedRows
Filtered(f) == SetToSortSeq({r \in ListRows : Matches(r, f)}, LAMBDA a, b : Age[a] < Age[b])

Groups == <<"today", "yesterday", "week", "month", "older">>
(* Mutated form: nothing is older than a month. *)
DateGroup_Month(age) ==
    CASE age = 0 -> "today" [] age = 1 -> "yesterday" [] age \in 2..7 -> "week"
      [] age \in 8..30 -> "month" [] OTHER -> "none"
DateGroup(age) ==
    CASE age = 0 -> "today" [] age = 1 -> "yesterday" [] age \in 2..7 -> "week"
      [] age \in 8..30 -> "month" [] OTHER -> "older"
(* The groups that have rows, each with its rows in their order. *)
Grouped(rows) ==
    SelectSeq([i \in DOMAIN Groups |-> [label |-> Groups[i],
                  rows |-> SelectSeq(rows, LAMBDA r : DateGroup(Age[r]) = Groups[i])]],
              LAMBDA g : g.rows # <<>>)

ListInit ==
    LET titles == [r \in ListRows |-> "old"] IN
      Opens("list",
            [titles |-> titles, filter |-> NoFilters, field |-> Nothing, text |-> "old",
             saving |-> {}, cancelled |-> {}, lost |-> {}, left |-> Nothing, crossed |-> FALSE],
            titles, Free)

(* The row that is renamed, when it is on the list.                         *)
InField == ui.field # Nothing /\ Matches(ui.field, ui.filter)

(* A row that a filter hides is unmounted and its refs are gone: a rename   *)
(* it has out is lost to it.  The list still says that it is renamed, so    *)
(* the field is open again, on the title, when the row comes back.          *)
(* Mutated form: the ref of a rename that is out is gone from every row.    *)
PickFilters_AllRows(f) ==
    /\ f # ui.filter
    /\ Page([ui EXCEPT !.filter = f, !.saving = {}]) /\ Only(<<server, calls>>)
PickFilters(f) ==
    LET rows == {r \in ListRows : Matches(r, f)} IN
    /\ f # ui.filter
    /\ Page([ui EXCEPT !.filter = f, !.saving = @ \cap rows, !.cancelled = @ \cap rows,
                       !.lost = @ \cup {c \in OutAs("title") : calls[c].arg.r \notin rows},
                       !.left = IF @ \in rows THEN @ ELSE Nothing,
                       !.text = IF ui.field = Nothing \/ (InField /\ ui.field \in rows)
                                  THEN @ ELSE ui.titles[ui.field]])
    /\ Only(<<server, calls>>)

(* Rename is on the caller's own rows; another row's field is left by a     *)
(* blur first, which closes it or finds or starts a save.                   *)
OpenField(r) ==
    /\ r \notin SharedRows /\ Matches(r, ui.filter) /\ r # ui.field
    /\ InField => ui.field \in ui.saving
    /\ Page([ui EXCEPT !.field = r, !.text = ui.titles[r], !.cancelled = @ \ {r}, !.left = Nothing])
    /\ Only(<<server, calls>>)

TypeTitle(t) ==
    /\ InField /\ t # ui.text
    /\ Page([ui EXCEPT !.text = t]) /\ Only(<<server, calls>>)

(* save: an unchanged title closes the field; otherwise one request at a    *)
(* time, and none after Escape.  saving and cancelled are refs of the row.  *)
(* Mutated forms: without the ref of the request, and of Escape.            *)
SaveTitle_Twice(r) ==
    IF ui.text = ui.titles[r]
      THEN Page([ui EXCEPT !.field = Nothing]) /\ Only(<<server, calls>>)
      ELSE /\ r \notin ui.cancelled
           /\ Page([ui EXCEPT !.saving = @ \cup {r}])
           /\ Fetch("title", [r |-> r, to |-> ui.text]) /\ Only(server)
SaveTitle_Escaped(r) ==
    IF ui.text = ui.titles[r]
      THEN Page([ui EXCEPT !.field = Nothing]) /\ Only(<<server, calls>>)
      ELSE /\ r \notin ui.saving
           /\ Page([ui EXCEPT !.saving = @ \cup {r}])
           /\ Fetch("title", [r |-> r, to |-> ui.text]) /\ Only(server)
SaveTitle(r) ==
    IF ui.text = ui.titles[r]
      THEN Page([ui EXCEPT !.field = Nothing]) /\ Only(<<server, calls>>)
      ELSE /\ r \notin ui.saving \cup ui.cancelled
           /\ Page([ui EXCEPT !.saving = @ \cup {r}])
           /\ Fetch("title", [r |-> r, to |-> ui.text]) /\ Only(server)

(* Enter and blur, with the field open; the blur of a field Escape closed. *)
EnterOrBlur == InField /\ SaveTitle(ui.field)
EscapeTitle ==
    /\ InField
    /\ Page([ui EXCEPT !.field = Nothing, !.cancelled = @ \cup {ui.field}, !.left = ui.field])
    /\ Only(<<server, calls>>)
LateBlur == ui.field = Nothing /\ ui.left # Nothing /\ SaveTitle(ui.left)

ServeTitle(c) ==
    /\ Sent(c, "title")
    /\ server' = [server EXCEPT ![calls[c].arg.r] = calls[c].arg.to]
    /\ Answer(c, "renamed") /\ Only(ui)

(* A title that is saved closes whatever field is open and loads the list;  *)
(* a failure stays in the row, for Enter to try again.  A row that has come *)
(* back since knows nothing of either.  crossed remembers that something    *)
(* was out together with a title or a load.                                 *)
(* Mutated form: the list is not loaded again.                              *)
Frees(c) ==
    [ui EXCEPT !.saving = IF c \in ui.lost THEN @ ELSE @ \ {calls[c].arg.r}, !.lost = @ \ {c}]
TitleAnswered_NoLoad(c) ==
    /\ Back(c, "title")
    /\ Page([Frees(c) EXCEPT !.field = Nothing])
    /\ Done(c) /\ Only(server)
TitleAnswered(c) ==
    /\ Back(c, "title")
    /\ IF Ok(c, "title")
         THEN /\ Page([Frees(c) EXCEPT !.field = Nothing,
                                       !.crossed = @ \/ \E d \in Slots \ {c} : calls[d] # Free])
              /\ ThenFetch(c, "titles", Nothing)
         ELSE /\ Page([Frees(c) EXCEPT !.crossed = TRUE])
              /\ Done(c)
    /\ Only(server)

ServeTitles(c) == Sent(c, "titles") /\ Answer(c, server) /\ Only(<<ui, server>>)
TitlesAnswered(c) ==
    /\ Back(c, "titles")
    /\ Page(IF Ok(c, "titles") THEN [ui EXCEPT !.titles = calls[c].got] ELSE [ui EXCEPT !.crossed = TRUE])
    /\ Done(c) /\ Only(server)

ListNext ==
    /\ OnList
    /\ \/ \E f \in Filters_ : PickFilters(f)
       \/ \E r \in ListRows : OpenField(r)
       \/ \E t \in Titles : TypeTitle(t)
       \/ EnterOrBlur \/ EscapeTitle \/ LateBlur
       \/ \E c \in Slots : ServeTitle(c) \/ TitleAnswered(c) \/ ServeTitles(c) \/ TitlesAnswered(c)
-----------------------------------------------------------------------------
ListTypeOK ==
    OnList =>
      /\ ui.titles \in [ListRows -> Titles] /\ server \in [ListRows -> Titles]
      /\ ui.filter \in Filters_ /\ ui.field \in ListRows \cup {Nothing} /\ ui.text \in Titles
      /\ ui.saving \cup ui.cancelled \subseteq ListRows /\ ui.lost \subseteq Slots
      /\ ui.crossed \in BOOLEAN

(* Every row that passes the filters is in one group, and the groups one    *)
(* after the other are the rows by activity.                                *)
GroupsShowEveryRow ==
    OnList =>
      LET rows == Filtered(ui.filter)
          groups == Grouped(rows)
      IN FlattenSeq([i \in DOMAIN groups |-> groups[i].rows]) = rows

(* Enter and the blur that comes with it save a title once, though another  *)
(* row is renamed meanwhile and filters change: a row has two renames out,  *)
(* whose order would decide the title, only if it was hidden while the      *)
(* first one was.                                                           *)
OneRenamePerRow ==
    OnList => \A c, d \in OutAs("title") \ ui.lost : calls[c].arg.r = calls[d].arg.r => c = d

(* What Escape left is not saved by the blur of the field going away, not   *)
(* even over a request that Enter had started and that failed.              *)
EscapedIsNotSaved ==
    [][OnList /\ ui.field = Nothing => OutAs("title")' \subseteq OutAs("title")]_vars

(* Renames that did not overlap and did not fail leave the titles the API's. *)
TitlesAgree == (OnList /\ Quiet /\ ~ui.crossed) => ui.titles = server
=============================================================================
