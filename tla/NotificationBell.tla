-------------------------- MODULE NotificationBell --------------------------
(***************************************************************************)
(* The bell in the header: the approvals waiting in the caller's live      *)
(* sessions, polled on a timer, on navigation and when the tab comes back, *)
(* a count in the title of the tab, and the popover that lists them.       *)
(***************************************************************************)
EXTENDS Browser

OnBell == page = "bell"
Asking == 1..2    \* sessions whose agent may ask
BellPaths == {"home", "session"}

(* What the API holds has a version, so that answers can be ordered. *)
BellInit ==
    LET waits == [at |-> 0, of |-> {}] IN
      Opens("bell", [items |-> waits, open |-> FALSE, path |-> "home", badge |-> 0],
            waits, Request("approvals", Nothing))

(* load: the request before it is aborted and will never be received.       *)
(* Mutated form: it is not aborted.                                         *)
LoadBell_KeepsLast ==
    /\ HasSlot /\ calls' = [calls EXCEPT ![Slot] = Request("approvals", Nothing)]
LoadBell == calls' = [NoCalls EXCEPT ![1] = Request("approvals", Nothing)]

PollBell == LoadBell /\ Only(<<ui, server>>)

(* The page of another path has a title of its own; the badge is put on it. *)
WalkTo(p) ==
    /\ p # ui.path
    /\ Page([ui EXCEPT !.path = p, !.badge = Cardinality(ui.items.of)])
    /\ LoadBell /\ Only(server)

ToggleBell == Page([ui EXCEPT !.open = ~@]) /\ Only(<<server, calls>>)

(* An approval in the list leads to its session and closes the list. *)
PickApproval ==
    /\ ui.open /\ ui.items.of # {}
    /\ Page([ui EXCEPT !.open = FALSE, !.path = "session"])
    /\ IF ui.path = "session" THEN UNCHANGED calls ELSE LoadBell
    /\ Only(server)

(* PendingApprovals. *)
ServeApprovals(c) == Sent(c, "approvals") /\ Answer(c, server) /\ Only(<<ui, server>>)

(* A failure keeps the last list. *)
BellAnswered(c) ==
    /\ Back(c, "approvals")
    /\ Page(IF Ok(c, "approvals")
              THEN [ui EXCEPT !.items = calls[c].got, !.badge = Cardinality(calls[c].got.of)] ELSE ui)
    /\ Done(c) /\ Only(server)

(* An agent asks, or is answered. *)
AgentAsks ==
    \E x \in Asking :
      Elsewhere([at |-> server.at + 1,
                 of |-> IF x \in server.of THEN server.of \ {x} ELSE server.of \cup {x}])

BellNext ==
    /\ OnBell
    /\ \/ PollBell \/ ToggleBell \/ PickApproval \/ AgentAsks
       \/ \E p \in BellPaths : WalkTo(p)
       \/ \E c \in Slots : ServeApprovals(c) \/ BellAnswered(c)
-----------------------------------------------------------------------------
BellTypeOK ==
    OnBell => /\ ui.items.of \subseteq Asking /\ ui.open \in BOOLEAN /\ ui.path \in BellPaths
              /\ ui.badge \in 0..2 /\ server.of \subseteq Asking

(* However slow an answer is, the list never goes back to an older one: an  *)
(* approval that was given does not come back.                              *)
BellNeverGoesBack == [][OnBell => ui'.items.at >= ui.items.at]_vars

BellCurrent == OnBell => ui.items = server
=============================================================================
