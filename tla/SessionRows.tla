----------------------------- MODULE SessionRows -----------------------------
(***************************************************************************)
(* How the session list gets its rows: a poll that fetches every page      *)
(* loaded so far, at once and by offset, from a list that others add to    *)
(* and delete from.  One scope stands for the two (mine, shared), which    *)
(* are fetched alike and joined.                                           *)
(***************************************************************************)
EXTENDS Browser, SequencesExt

CONSTANTS
    PAGE,       \* rows of one page of the API
    MaxPages    \* how often "Load more" is pressed

OnRows == page = "rows"

(* GET /sessions?limit=PAGE&offset=(i-1)*PAGE, newest first. *)
Cut(s, from, to) == SubSeq(s, from, IF to > Len(s) THEN Len(s) ELSE to)
Chunk(s, i) == Cut(s, (i - 1) * PAGE + 1, i * PAGE)
Loaded(s, n) == Cut(s, 1, n * PAGE)

RowsLoad(n) == Request("load", n)

(* Mounting loads the first page. *)
RowsInit ==
    Opens("rows", [rows |-> Nothing, err |-> FALSE, pages |-> 1, more |-> FALSE],
          [list |-> <<3, 2, 1>>, next |-> 4], RowsLoad(1))

(* The interval, the focus and visibility events, and Retry. *)
PollRows == Fetch("load", ui.pages) /\ Only(<<ui, server>>)

(* "Load more" makes a new load, whose effect runs at once. *)
LoadMore ==
    /\ ui.rows # Nothing /\ ui.more /\ ui.pages <= MaxPages
    /\ Page([ui EXCEPT !.pages = @ + 1])
    /\ Fetch("load", ui.pages + 1)
    /\ Only(server)

(* The pages of a load are requests of their own, answered in any order. *)
Parts(c) == IF calls[c].got = Nothing THEN [i \in 1..calls[c].arg |-> Nothing] ELSE calls[c].got

ServeChunk(c, i) ==
    /\ Sent(c, "load") /\ i \in 1..calls[c].arg /\ Parts(c)[i] = Nothing
    /\ LET parts == [Parts(c) EXCEPT ![i] = [rows |-> Chunk(server.list, i), total |-> Len(server.list)]]
       IN calls' = [calls EXCEPT ![c].got = parts,
                                 ![c].at = IF \E j \in DOMAIN parts : parts[j] = Nothing THEN @ ELSE "ok"]
    /\ Only(<<ui, server>>)

(* A session created while the pages are fetched shifts the offsets: each   *)
(* id is kept once.  Mutated form: the pages are only joined.               *)
Joined_All(parts) == FlattenSeq([i \in DOMAIN parts |-> parts[i].rows])
Joined(parts) ==
    LET all == FlattenSeq([i \in DOMAIN parts |-> parts[i].rows])
    IN SelectSeq([k \in DOMAIN all |->
                    IF \E j \in 1..(k - 1) : all[j] = all[k] THEN 0 ELSE all[k]],
                 LAMBDA id : id # 0)

(* A load that fails keeps the last list.                                   *)
(* Mutated form: it is the first list that is kept.                         *)
RowsAnswered_Once(c) ==
    /\ Back(c, "load")
    /\ Page(IF Failed(c, "load") THEN [ui EXCEPT !.err = TRUE]
            ELSE [ui EXCEPT !.rows = IF @ = Nothing THEN Joined(calls[c].got) ELSE @,
                            !.more = calls[c].got[1].total > calls[c].arg * PAGE, !.err = FALSE])
    /\ Done(c) /\ Only(server)
RowsAnswered(c) ==
    /\ Back(c, "load")
    /\ Page(IF Failed(c, "load") THEN [ui EXCEPT !.err = TRUE]
            ELSE [ui EXCEPT !.rows = Joined(calls[c].got), !.err = FALSE,
                            !.more = calls[c].got[1].total > calls[c].arg * PAGE])
    /\ Done(c) /\ Only(server)

(* Sessions come and go on the machines and in other tabs. *)
RowsElsewhere ==
    \/ Elsewhere([list |-> <<server.next>> \o server.list, next |-> server.next + 1])
    \/ \E k \in DOMAIN server.list : Elsewhere([server EXCEPT !.list = RemoveAt(@, k)])

RowsNext ==
    /\ OnRows
    /\ \/ PollRows
       \/ LoadMore
       \/ RowsElsewhere
       \/ \E c \in Slots : \E i \in 1..(MaxPages + 1) : ServeChunk(c, i)
       \/ \E c \in Slots : RowsAnswered(c)
-----------------------------------------------------------------------------
RowsTypeOK ==
    OnRows =>
      /\ ui.pages \in 1..(MaxPages + 1) /\ {ui.err, ui.more} \subseteq BOOLEAN
      /\ ui.rows = Nothing \/ ui.rows \in Seq(1..(server.next - 1))

(* No session is listed twice, wherever a new one lands between the pages.  *)
RowsAreListedOnce ==
    (OnRows /\ ui.rows # Nothing) =>
      \A j, k \in DOMAIN ui.rows : ui.rows[j] = ui.rows[k] => j = k

(* The list is what the API holds, as far as it was loaded, with "Load      *)
(* more" if there is more.                                                  *)
RowsCurrent ==
    OnRows => /\ ui.rows = Loaded(server.list, ui.pages) /\ ~ui.err
              /\ ui.more <=> Len(server.list) > ui.pages * PAGE
=============================================================================
