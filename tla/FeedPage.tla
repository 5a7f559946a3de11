------------------------------ MODULE FeedPage ------------------------------
(***************************************************************************)
(* The public feed: a query that is debounced, a first page per query,     *)
(* more pages by cursor as the reader scrolls, the tabs by agent and the   *)
(* sections made of what is loaded.  Sessions are numbered as they are     *)
(* published, a page of the API holds one of them.                         *)
(***************************************************************************)
EXTENDS Browser, SequencesExt

OnFeed == page = "feed"

PAGE_SIZE == 1
Queries == {"", "q"}
AgentOf(s) == IF s = 2 THEN "codex" ELSE "claude"
IsLive(s) == s = 3
Viewed(s) == s = 1

(* The sessions a query finds, newest first. *)
Finds(q) == {s \in Range(server.feed) : q = "" \/ s # 2}
Found(q) == Sifted(server.feed, Finds(q))
PageOf(s) == SubSeq(s, 1, IF Len(s) > PAGE_SIZE THEN PAGE_SIZE ELSE Len(s))

(* GET /feed.  Browsing goes on below the last session of a page, a search  *)
(* after a number of results; a full page says where to go on.              *)
(* Mutated form: browsing counts results too.                               *)
FeedAnswer_Offset(q, cursor) ==
    LET rows == PageOf(SubSeq(Found(q), cursor + 1, Len(Found(q))))
    IN [rows |-> rows, next |-> IF Len(rows) = PAGE_SIZE THEN cursor + PAGE_SIZE ELSE 0]
FeedAnswer(q, cursor) ==
    LET rows == IF q = "" THEN PageOf(Sifted(server.feed, {s \in Finds(q) : cursor = 0 \/ s < cursor}))
                ELSE PageOf(SubSeq(Found(q), cursor + 1, Len(Found(q))))
        after == IF q = "" THEN Last(rows) ELSE cursor + PAGE_SIZE
    IN [rows |-> rows, next |-> IF Len(rows) = PAGE_SIZE THEN after ELSE 0]

FeedReq(op, q, cursor) == Request(op, [q |-> q, cursor |-> cursor])

(* The page comes with a first page rendered by the server, or without.     *)
FeedInit ==
    \E rendered \in BOOLEAN :
      Opens("feed",
            [query |-> "", debounced |-> "", items |-> IF rendered THEN <<2>> ELSE <<>>,
             cursor |-> IF rendered THEN 2 ELSE 0, loading |-> ~rendered, done |-> FALSE,
             err |-> FALSE, first |-> rendered, agent |-> Nothing, since |-> {1, 2}],
            [feed |-> <<2, 1>>, next |-> 3],
            IF rendered THEN Free ELSE FeedReq("first", "", 0))

TypeQuery(q) ==
    q # ui.query /\ Page([ui EXCEPT !.query = q]) /\ Only(<<server, calls>>)

(* The debounce timer, and the effect of a new query: the first page of the *)
(* query before is aborted, a further one is left to come back late.  since *)
(* remembers what was published when the query began.                       *)
Late(c) == IF calls[c].op = "more" THEN [calls[c] EXCEPT !.op = "late"]
           ELSE IF calls[c].op = "first" THEN Free ELSE calls[c]
Debounce ==
    /\ ui.query # ui.debounced
    /\ Page([ui EXCEPT !.debounced = ui.query, !.items = <<>>, !.cursor = 0, !.done = FALSE,
                       !.err = FALSE, !.first = FALSE, !.loading = TRUE])
    /\ \E d \in Slots :
         /\ Late(d) = Free
         /\ calls' = [c \in Slots |-> IF c = d THEN FeedReq("first", ui.query, 0) ELSE Late(c)]
    /\ Only(server)

FirstAnswered(c) ==
    /\ Back(c, "first")
    /\ Page(IF Ok(c, "first")
              THEN [ui EXCEPT !.items = calls[c].got.rows, !.cursor = calls[c].got.next,
                              !.done = calls[c].got.next = 0, !.loading = FALSE, !.first = TRUE,
                              !.since = Range(calls[c].got.rows) \cup {s \in Range(server.feed) : s <= calls[c].got.next}]
              ELSE [ui EXCEPT !.err = TRUE, !.loading = FALSE, !.first = TRUE])
    /\ Done(c) /\ Only(server)

(* The sentinel is in view. *)
LoadMoreFeed ==
    /\ ~ui.loading /\ ~ui.done /\ ui.cursor # 0
    /\ Page([ui EXCEPT !.loading = TRUE])
    /\ Start(FeedReq("more", ui.debounced, ui.cursor)) /\ Only(server)

(* A page is added without what is there already; one of an earlier query   *)
(* is dropped.  A failure leaves the sentinel, to try again.                *)
(* Mutated form: a page is added whatever query it is of.                   *)
Added(got) ==
    [ui EXCEPT !.items = @ \o Sifted(got.rows, Range(got.rows) \ Range(ui.items)),
               !.cursor = got.next, !.done = got.next = 0, !.loading = FALSE]
MoreAnswered_Late(c) ==
    /\ Back(c, "more") \/ Back(c, "late")
    /\ Page(IF calls[c].got = Nothing THEN [ui EXCEPT !.loading = FALSE] ELSE Added(calls[c].got))
    /\ Done(c) /\ Only(server)
MoreAnswered(c) ==
    /\ Back(c, "more") \/ Back(c, "late")
    /\ Page(IF calls[c].op = "late" THEN ui
            ELSE IF calls[c].got = Nothing THEN [ui EXCEPT !.loading = FALSE]
            ELSE Added(calls[c].got))
    /\ Done(c) /\ Only(server)

ServeFeed(c) ==
    /\ calls[c].op \in {"first", "more", "late"} /\ calls[c].at = "sent"
    /\ Answer(c, FeedAnswer(calls[c].arg.q, calls[c].arg.cursor)) /\ Only(<<ui, server>>)

(* The tabs, for more than one agent and never during a search. *)
Agents_(items) == {AgentOf(s) : s \in Range(items)}
PickAgentTab(a) ==
    /\ ui.debounced = "" /\ Cardinality(Agents_(ui.items)) > 1 /\ a # ui.agent
    /\ a \in Agents_(ui.items) \cup {Nothing}
    /\ Page([ui EXCEPT !.agent = a]) /\ Only(<<server, calls>>)

(* The sections, in the order of the page.  Searching has none.             *)
(* Mutated form: what is trending is also new.                              *)
Displayed == SelectSeq(ui.items, LAMBDA s : ui.agent = Nothing \/ AgentOf(s) = ui.agent)
LiveNow == SelectSeq(Displayed, IsLive)
Trending == SelectSeq(Displayed, LAMBDA s : ~IsLive(s) /\ Viewed(s))
Fresh_All == SelectSeq(Displayed, LAMBDA s : ~IsLive(s))
Fresh == SelectSeq(Displayed, LAMBDA s : ~IsLive(s) /\ ~Contains(Trending, s))

FeedElsewhere ==
    \/ server.next <= 3 /\ Elsewhere([feed |-> <<server.next>> \o server.feed, next |-> server.next + 1])
    \/ \E k \in DOMAIN server.feed : Elsewhere([server EXCEPT !.feed = RemoveAt(@, k)])

FeedNext ==
    /\ OnFeed
    /\ \/ Debounce \/ LoadMoreFeed \/ FeedElsewhere
       \/ \E q \in Queries : TypeQuery(q)
       \/ \E a \in {"claude", "codex", Nothing} : PickAgentTab(a)
       \/ \E c \in Slots : ServeFeed(c) \/ FirstAnswered(c) \/ MoreAnswered(c)
-----------------------------------------------------------------------------
FeedTypeOK ==
    OnFeed =>
      /\ ui.query \in Queries /\ ui.debounced \in Queries
      /\ ui.items \in Seq(1..3) /\ ui.cursor \in 0..3
      /\ {ui.loading, ui.done, ui.err, ui.first} \subseteq BOOLEAN

(* What is listed was found by the query that is shown, once each, whatever *)
(* pages of earlier queries come back late.                                 *)
ItemsAreOfTheQuery ==
    OnFeed => /\ ui.debounced = "q" => ~Contains(ui.items, 2)
              /\ IsInjective(ui.items)

(* Browsing to the end skips no session that was published when it began    *)
(* and still is, and repeats none, however many are published or withdrawn  *)
(* between the pages.                                                       *)
BrowsingSkipsNothing ==
    (OnFeed /\ ui.debounced = "" /\ ui.done) =>
      \A s \in ui.since : Contains(server.feed, s) => Contains(ui.items, s)

(* The page is loading exactly while a page of its query is out, so the     *)
(* sentinel is never dead and never asks twice.                             *)
LoadingIsOut ==
    OnFeed => (ui.loading <=> OutAs("first") \cup OutAs("more") # {})

(* A session is in one section. *)
SectionsPartition ==
    OnFeed => LET all == LiveNow \o Trending \o Fresh IN
      IsInjective(all) /\ Range(all) = Range(Displayed)
=============================================================================
