--------------------------- MODULE CommandPalette ---------------------------
(***************************************************************************)
(* The command palette: what a query finds among actions, sessions and     *)
(* shared sessions, the highlight, and what Enter and a click run, while   *)
(* the session poll changes the rows under it.  Titles and queries are     *)
(* sequences of letters; docs are found as shared sessions are.            *)
(***************************************************************************)
EXTENDS Browser, SequencesExt

OnPalette == page = "palette"

PaletteQueries == {<<>>, <<"s">>, <<"n", "e">>, <<"x">>}
Own == {"s1", "s2"}
PaletteRows == Own \cup {"sh"}   \* the caller's sessions, and one shared with them
TitleOf == [s1 |-> <<"n", "s", "e">>, s2 |-> <<"e">>, sh |-> <<"s", "n", "e">>]
Created == [s1 |-> 1, s2 |-> 2, sh |-> 3]
Actions == <<"new", "theme">>
ActionTitle == [new |-> <<"n", "s", "e">>, theme |-> <<"e">>]
Unasked == 1    \* rows of a section before a query is typed
Asked == 2      \* and after

(* A subsequence match: letters of the title, in order, use up the query.   *)
(* Mutated form: the query as a substring.                                  *)
Fuzzy_Substring(q, text) == \E i \in 0..(Len(text) - Len(q)) : SubSeq(text, i + 1, i + Len(q)) = q
Fuzzy(q, text) ==
    FoldLeft(LAMBDA i, c : IF i < Len(q) /\ c = q[i + 1] THEN i + 1 ELSE i, 0, text) = Len(q)

(* Live sessions first, then the most recent. *)
ByRecent(S, rows) ==
    LET there == {x \in S : rows[x] # "gone"}
        Before(a, b) == IF rows[a] = rows[b] THEN Created[a] > Created[b] ELSE rows[a] = "live"
    IN [k \in 1..Cardinality(there) |->
          CHOOSE x \in there : Cardinality({y \in there : Before(y, x)}) = k - 1]
Take(seq, q) == SubSeq(seq, 1, LET n == IF q = <<>> THEN Unasked ELSE Asked
                               IN IF Len(seq) < n THEN Len(seq) ELSE n)

Results(p) ==
    LET found(S) == Take(Sifted(ByRecent(S, p.rows), {x \in S : Fuzzy(p.query, TitleOf[x])}), p.query)
    IN [acts |-> Sifted(Actions, {a \in Range(Actions) : Fuzzy(p.query, ActionTitle[a])}),
        sess |-> found(Own) \o found({"sh"})]
Size(p) == Len(Results(p).acts) + Len(Results(p).sess)

(* The highlight: hi, or the last row when there are fewer by now.          *)
(* Mutated form: hi itself.                                                 *)
Sel_Unclamped(p) == p.hi
Sel(p) == IF Size(p) = 0 THEN 0 ELSE IF p.hi < Size(p) THEN p.hi ELSE Size(p) - 1

PaletteInit ==
    LET rows == [x \in PaletteRows |-> "live"] IN
      Opens("palette", [open |-> FALSE, query |-> <<>>, hi |-> 0, rows |-> rows, went |-> Nothing],
            rows, Free)

(* Each open starts fresh. *)
OpenPalette ==
    /\ ~ui.open
    /\ Page([ui EXCEPT !.open = TRUE, !.query = <<>>, !.hi = 0, !.went = Nothing])
    /\ Only(<<server, calls>>)
ClosePalette == ui.open /\ Page([ui EXCEPT !.open = FALSE]) /\ Only(<<server, calls>>)

TypeToFind(q) ==
    /\ ui.open /\ q # ui.query
    /\ Page([ui EXCEPT !.query = q, !.hi = 0]) /\ Only(<<server, calls>>)

Highlight(i) == Page([ui EXCEPT !.hi = i]) /\ Only(<<server, calls>>)
ArrowDown == ui.open /\ Size(ui) # 0 /\ Highlight((Sel(ui) + 1) % Size(ui))
(* Mutated form: it does not go round to the last row.                      *)
ArrowUp_Below == ui.open /\ Size(ui) # 0 /\ Highlight(Sel(ui) - 1)
ArrowUp == ui.open /\ Size(ui) # 0 /\ Highlight((Sel(ui) - 1 + Size(ui)) % Size(ui))
HoverRow(i) == ui.open /\ i < Size(ui) /\ i # Sel(ui) /\ Highlight(i)

(* run: nothing at an index past the rows; otherwise the palette closes and *)
(* the row does what it says: an action, or a session's page.               *)
Item(p, i) ==
    LET r == Results(p) IN IF i < Len(r.acts) THEN r.acts[i + 1] ELSE r.sess[i + 1 - Len(r.acts)]
RunItem(i) ==
    /\ ui.open /\ Size(ui) # 0
    /\ Page(IF i < Size(ui) THEN [ui EXCEPT !.open = FALSE, !.went = Item(ui, i)] ELSE ui)
    /\ Only(<<server, calls>>)
Enter == RunItem(Sel(ui))
ClickRow(i) == i < Size(ui) /\ RunItem(i)

(* The poll of the shell, under the open palette. *)
PollPalette == calls = NoCalls /\ Fetch("found", Nothing) /\ Only(<<ui, server>>)
ServeFound(c) == Sent(c, "found") /\ Answer(c, server) /\ Only(<<ui, server>>)
FoundAnswered(c) ==
    /\ Back(c, "found")
    /\ Page(IF Ok(c, "found") THEN [ui EXCEPT !.rows = calls[c].got] ELSE ui)
    /\ Done(c) /\ Only(server)
FoundChanges == \E x \in PaletteRows, s \in {"ended", "gone"} : Elsewhere([server EXCEPT ![x] = s])

PaletteNext ==
    /\ OnPalette
    /\ \/ OpenPalette \/ ClosePalette \/ ArrowDown \/ ArrowUp \/ Enter \/ PollPalette \/ FoundChanges
       \/ \E q \in PaletteQueries : TypeToFind(q)
       \/ \E i \in 0..4 : HoverRow(i) \/ ClickRow(i)
       \/ \E c \in Slots : ServeFound(c) \/ FoundAnswered(c)
-----------------------------------------------------------------------------
PaletteTypeOK ==
    OnPalette =>
      /\ ui.query \in PaletteQueries /\ ui.hi \in Nat /\ ui.open \in BOOLEAN
      /\ ui.rows \in [PaletteRows -> {"live", "ended", "gone"}]

(* An action is found if and only if the letters of the query occur in its  *)
(* title, in their order.                                                   *)
FindsSubsequences ==
    OnPalette => LET q == ui.query
                     found == Range(Results(ui).acts) IN
      \A a \in Range(Actions) :
        a \in found <=>
          \E at \in [DOMAIN q -> DOMAIN ActionTitle[a]] :
            /\ \A i, j \in DOMAIN q : i < j => at[i] < at[j]
            /\ \A i \in DOMAIN q : ActionTitle[a][at[i]] = q[i]

(* However the rows shrink under the highlight, it is on a row while there  *)
(* is one, so that Enter runs something.                                    *)
EnterRunsAListedRow ==
    (OnPalette /\ ui.open /\ Size(ui) # 0) => Sel(ui) \in 0..(Size(ui) - 1)
=============================================================================
