---------------------------- MODULE InvitedPeople ----------------------------
(***************************************************************************)
(* The share sheet's card of people invited by name: the grants the API    *)
(* holds, and the list the sheet keeps of them from its answers.           *)
(***************************************************************************)
EXTENDS Browser

CONSTANTS
    Invitees,   \* the addresses the owner types
    MaxGrants   \* grants made on the session, over a behaviour

ASSUME InvitedAssumption == MaxGrants \in Nat \ {0} /\ Nothing \notin Invitees

OnInvited == page = "invited"

GrantRoles == {"viewer", "commenter"}
GrantOps == {"shares", "invite", "revoke"}
Grants == [who : Invitees, id : 1..MaxGrants, role : GrantRoles]

(* The card mounts empty and asks for the grants. *)
InvitedInit ==
    \E g \in SUBSET {[who |-> e, id |-> 1, role |-> "viewer"] : e \in Invitees} :
      /\ Cardinality(g) <= 1
      /\ Opens("invited",
               [grants |-> {}, email |-> Nothing, inviting |-> FALSE, crossed |-> FALSE],
               [grants |-> g, next |-> 2], Request("shares", Nothing))

TypeEmail(e) ==
    /\ ui.email # e
    /\ Page([ui EXCEPT !.email = e])
    /\ Only(<<server, calls>>)

(* crossed remembers that two requests about grants were out together. *)
Grant(op, arg) ==
    /\ Page([ui EXCEPT !.inviting = @ \/ op = "invite",
                       !.crossed = @ \/ \E d \in Slots : calls[d].op \in GrantOps])
    /\ Fetch(op, arg)
    /\ Only(server)

Invite(r) ==
    /\ ui.email # Nothing /\ ~ui.inviting /\ server.next <= MaxGrants
    /\ Grant("invite", [who |-> ui.email, id |-> 0, role |-> r])

Revoke(g) == Grant("revoke", g)

(* An address has one grant at a time: inviting it again changes the role   *)
(* of the grant it has.                                                     *)
GrantOf(e) ==
    LET held == {g \in server.grants : g.who = e} IN
      IF held = {} THEN server.next ELSE (CHOOSE g \in held : TRUE).id

(* GET, POST and DELETE of /sessions/{id}/shares. *)
ServeGrants(c) ==
    /\ calls[c].op \in GrantOps /\ calls[c].at = "sent"
    /\ LET a == calls[c].arg
           g == [a EXCEPT !.id = GrantOf(a.who)]
       IN CASE calls[c].op = "invite" ->
                 /\ server' = [server EXCEPT !.grants = {x \in @ : x.who # a.who} \cup {g},
                                             !.next = IF g.id = @ THEN @ + 1 ELSE @]
                 /\ Answer(c, {g})
            [] calls[c].op = "revoke" ->
                 server' = [server EXCEPT !.grants = {x \in @ : x.id # a.id}] /\ Answer(c, {})
            [] OTHER -> Answer(c, server.grants) /\ UNCHANGED server
    /\ Only(ui)

(* An invitation that failed leaves its address in the field.               *)
(* Mutated form: the new grant is added beside the one it replaces.         *)
Listed_Appended(op, a, got) ==
    CASE op = "shares" -> got
      [] op = "invite" -> ui.grants \cup got
      [] OTHER -> {x \in ui.grants : x.id # a.id}
Listed(op, a, got) ==
    CASE op = "shares" -> got
      [] op = "invite" -> {x \in ui.grants : x.who # a.who} \cup got
      [] OTHER -> {x \in ui.grants : x.id # a.id}

GrantsAnswered(c) ==
    /\ calls[c].op \in GrantOps /\ calls[c].at \in {"ok", "failed"}
    /\ LET ok == calls[c].at = "ok"
           invite == calls[c].op = "invite"
       IN Page([ui EXCEPT
                  !.inviting = @ /\ ~invite,
                  !.email = IF ok /\ invite THEN Nothing ELSE @,
                  !.grants = IF ok THEN Listed(calls[c].op, calls[c].arg, calls[c].got) ELSE @])
    /\ Done(c)
    /\ Only(server)

InvitedNext ==
    /\ OnInvited
    /\ \/ \E e \in Invitees : TypeEmail(e)
       \/ \E r \in GrantRoles : Invite(r)
       \/ \E g \in ui.grants : Revoke(g)
       \/ \E c \in Slots : ServeGrants(c) \/ GrantsAnswered(c)
-----------------------------------------------------------------------------
InvitedTypeOK ==
    OnInvited =>
      /\ server.grants \subseteq Grants /\ server.next \in 1..(MaxGrants + 1)
      /\ ui.grants \subseteq Grants /\ ui.email \in Invitees \cup {Nothing}
      /\ {ui.inviting, ui.crossed} \subseteq BOOLEAN

(* Once their answers are in, requests that did not overlap and did not     *)
(* fail leave the card listing exactly who the API lets in, one role each:  *)
(* people invited twice, and removed and invited again, included.           *)
CardListsTheGrants ==
    (OnInvited /\ ~ui.crossed /\ faults = 0 /\ Quiet) => ui.grants = server.grants
=============================================================================
