------------------------------ MODULE SeenMarks ------------------------------
(***************************************************************************)
(* What a visitor has seen of a session: the mark the session page sends   *)
(* when nothing new has come for a second, or when its tab comes to the    *)
(* front, the mark the API keeps, and the unread badge of the sidebar,     *)
(* which the page clears and the shell's poll sets.                        *)
(***************************************************************************)
EXTENDS Browser

OnSeen == page = "seen"

(* UnreadCounts: no badge for a session that was never opened. *)
Unread(s) == IF s.seen = 0 THEN 0 ELSE s.log - s.seen

(* onScreen remembers the newest event that was shown in a visible tab. *)
SeenInit ==
    \E visible \in BOOLEAN, seen \in 0..1 :
      Opens("seen", [top |-> 0, visible |-> visible, timer |-> FALSE, badge |-> 0, onScreen |-> seen],
            [log |-> 2, seen |-> seen], Request("rows", Nothing))

Showing(u) == IF u.visible /\ u.top > u.onScreen THEN [u EXCEPT !.onScreen = u.top] ELSE u

(* Another event is shown: the effect runs again, its timer starts anew. *)
EventShown ==
    /\ ui.top < server.log
    /\ Page(Showing([ui EXCEPT !.top = @ + 1, !.timer = TRUE])) /\ Only(<<server, calls>>)

(* mark, unless the tab is hidden.  Mutated form: hidden or not.            *)
Mark_Hidden(u) == Page(u) /\ Fetch("mark", u.top) /\ Only(server)
Mark(u) ==
    /\ Page(u)
    /\ IF u.visible THEN Fetch("mark", u.top) ELSE UNCHANGED calls
    /\ Only(server)

MarkTimer == ui.timer /\ Mark([ui EXCEPT !.timer = FALSE])

(* visibilitychange: the listener is there once an event is shown. *)
ShowTab ==
    /\ ~ui.visible
    /\ LET u == Showing([ui EXCEPT !.visible = TRUE])
       IN IF ui.top = 0 THEN Page(u) /\ Only(<<server, calls>>) ELSE Mark(u)
HideTab == ui.visible /\ Page([ui EXCEPT !.visible = FALSE]) /\ Only(<<server, calls>>)

(* POST /sessions/{id}/seen: no further than the newest event, and never    *)
(* back.  Mutated form: the mark that comes last is kept.                   *)
Latest(s, seq) == IF seq < s.log THEN seq ELSE s.log
MarkSeen_Last(s, seq) == [s EXCEPT !.seen = Latest(s, seq)]
MarkSeen(s, seq) == [s EXCEPT !.seen = IF Latest(s, seq) > @ THEN Latest(s, seq) ELSE @]
ServeMark(c) ==
    /\ Sent(c, "mark") /\ server' = MarkSeen(server, calls[c].arg)
    /\ Answer(c, "seen") /\ Only(ui)

(* The badge is cleared without waiting for the poll; a mark that fails is  *)
(* not sent again.                                                          *)
MarkAnswered(c) ==
    /\ Back(c, "mark")
    /\ Page(IF Ok(c, "mark") THEN [ui EXCEPT !.badge = 0] ELSE ui) /\ Done(c) /\ Only(server)

PollBadge == OutAs("rows") = {} /\ Fetch("rows", Nothing) /\ Only(<<ui, server>>)
ServeBadge(c) == Sent(c, "rows") /\ Answer(c, Unread(server)) /\ Only(<<ui, server>>)
(* Mutated form: a badge only falls.                                        *)
BadgeAnswered_Falls(c) ==
    /\ Back(c, "rows")
    /\ Page(IF Ok(c, "rows") /\ calls[c].got < ui.badge THEN [ui EXCEPT !.badge = calls[c].got] ELSE ui)
    /\ Done(c) /\ Only(server)
BadgeAnswered(c) ==
    /\ Back(c, "rows")
    /\ Page(IF Ok(c, "rows") THEN [ui EXCEPT !.badge = calls[c].got] ELSE ui) /\ Done(c) /\ Only(server)

SessionGrows == Elsewhere([server EXCEPT !.log = @ + 1])

SeenNext ==
    /\ OnSeen
    /\ \/ EventShown \/ MarkTimer \/ ShowTab \/ HideTab \/ PollBadge \/ SessionGrows
       \/ \E c \in Slots : ServeMark(c) \/ MarkAnswered(c) \/ ServeBadge(c) \/ BadgeAnswered(c)
-----------------------------------------------------------------------------
SeenTypeOK ==
    OnSeen =>
      /\ ui.top \in 0..server.log /\ ui.onScreen \in 0..server.log /\ ui.badge \in 0..server.log
      /\ {ui.visible, ui.timer} \subseteq BOOLEAN /\ server.seen \in 0..server.log

(* Nothing counts as read that was not on a visible screen: not what came   *)
(* to a hidden tab, not what came after the mark was sent.                  *)
SeenWasOnScreen == OnSeen => server.seen <= ui.onScreen

(* A mark that arrives late does not make read events unread.               *)
SeenNeverFalls == [][OnSeen => server'.seen >= server.seen]_vars

(* The badge and the API's count agree.                                     *)
BadgeCurrent == OnSeen => ui.badge = Unread(server)
=============================================================================
