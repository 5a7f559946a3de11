----------------------------- MODULE TailFollow -----------------------------
(***************************************************************************)
(* Where the transcript is scrolled to: it follows the tail while the      *)
(* reader is there.  Commits, effects and scroll events are steps of their *)
(* own; heights count in 24 px.                                            *)
(***************************************************************************)
EXTENDS Browser

CONSTANT MaxHeight   \* of the transcript

OnTail == page = "tail"

VIEW == 2
Highest(h) == IF h > VIEW THEN h - VIEW ELSE 0

(* Within 48 px of the end, or nothing scrolls.                             *)
AtBottom(u) == u.height - u.top - VIEW < 2

(* Moving the content queues a scroll event.                                *)
Scrolled(u, top) == [u EXCEPT !.event = @ \/ top # u.top, !.top = top]
ToBottom(u) == Scrolled(u, Highest(u.height))

(* The first layout: a linked row and an ended session are not followed.    *)
TailInit ==
    \E h \in {1, 4}, live, linked \in BOOLEAN :
      LET u == [height |-> h, top |-> 0, pinned |-> TRUE, ref |-> TRUE, effect |-> TRUE,
                event |-> FALSE, target |-> Nothing]
          v == IF linked THEN [Scrolled(u, Highest(h) \div 2) EXCEPT !.ref = FALSE]
               ELSE IF live THEN ToBottom(u)
               ELSE [u EXCEPT !.ref = FALSE]
      IN Opens("tail", [v EXCEPT !.pinned = v.ref \/ AtBottom(v)], live, Free)

(* An event, the working row or an error is committed.                      *)
Grows(d) ==
    /\ server /\ ui.height + d <= MaxHeight
    /\ Page([ui EXCEPT !.height = @ + d, !.effect = TRUE]) /\ Only(<<server, calls>>)

(* The effect of the commit.                                                *)
(* Mutated forms: a reader who is elsewhere is not told of the news, one at *)
(* the end is not taken along.                                              *)
FollowEffect_Stays ==
    /\ ui.effect
    /\ Page([ui EXCEPT !.pinned = ui.ref \/ AtBottom(ui), !.effect = FALSE]) /\ Only(<<server, calls>>)
FollowEffect_NoPill ==
    /\ ui.effect
    /\ Page([IF ui.ref THEN ToBottom(ui) ELSE ui EXCEPT !.effect = FALSE])
    /\ Only(<<server, calls>>)
FollowEffect ==
    /\ ui.effect
    /\ Page([IF ui.ref THEN ToBottom(ui) ELSE [ui EXCEPT !.pinned = AtBottom(ui)]
               EXCEPT !.effect = FALSE])
    /\ Only(<<server, calls>>)

OnScroll ==
    /\ ui.event
    /\ Page([ui EXCEPT !.event = FALSE, !.ref = AtBottom(ui), !.pinned = AtBottom(ui)])
    /\ Only(<<server, calls>>)

(* The reader scrolls.                                                      *)
ReaderScrolls(top) ==
    /\ top \in 0..Highest(ui.height) /\ top # ui.top
    /\ Page([Scrolled(ui, top) EXCEPT !.target = Nothing])
    /\ Only(<<server, calls>>)

(* "Jump to latest" scrolls smoothly, to what was the end at the click.     *)
Jump ==
    /\ ~ui.pinned
    /\ Page([ui EXCEPT !.ref = TRUE, !.pinned = TRUE, !.target = Highest(ui.height)])
    /\ Only(<<server, calls>>)
Glide ==
    /\ ui.target # Nothing
    /\ Page(IF ui.top >= ui.target THEN [ui EXCEPT !.target = Nothing] ELSE Scrolled(ui, ui.top + 1))
    /\ Only(<<server, calls>>)

TailNext ==
    /\ OnTail
    /\ \/ \E d \in {1, 2} : Grows(d)
       \/ FollowEffect \/ OnScroll \/ Jump \/ Glide
       \/ \E top \in 0..MaxHeight : ReaderScrolls(top)
-----------------------------------------------------------------------------
TailTypeOK ==
    OnTail => /\ ui.height \in 0..MaxHeight /\ ui.top \in 0..Highest(ui.height)
              /\ {ui.pinned, ui.ref, ui.effect, ui.event} \subseteq BOOLEAN

Still == ~ui.effect /\ ~ui.event /\ ui.target = Nothing

(* When the page is still, the button to the latest is there exactly when   *)
(* there is more below, whatever grew, scrolled and glided in what order.   *)
PillMeansMore == (OnTail /\ Still) => (ui.pinned <=> AtBottom(ui))

(* A live transcript is followed until the reader scrolls.                  *)
FollowIsKept == (OnTail /\ Still /\ server /\ ui.ref) => AtBottom(ui)
=============================================================================
