---------------------------- MODULE SettingsPages ----------------------------
(***************************************************************************)
(* The settings: the signed-in apps, the licences and the notifications,   *)
(* each a page of its own here.  Apps and licences are rows, removed       *)
(* through a ConfirmPopover, whose state lives as long as its row.         *)
(***************************************************************************)
EXTENDS Browser

OnApps == page = "apps"
OnLicences == page = "licences"
OnPush == page = "push"

Items == 1..2

ASSUME SettingsAssumption == Nothing \notin {"pro", "free", "removed"}

(* One popover is open at a time: a click elsewhere closes it.  busy and    *)
(* err are the state of each row's own.  An error of the load takes the     *)
(* place of the list.                                                       *)
Popovers == [open |-> Nothing, busy |-> {}, err |-> {}]
OfList(p) == IF p.list = Nothing \/ p.loadErr THEN {} ELSE p.list

TogglePopover(k) ==
    /\ k \in OfList(ui)
    /\ Page([ui EXCEPT !.pop.open = IF @ = k THEN Nothing ELSE k, !.pop.err = @ \ {k}])
    /\ Only(<<server, calls>>)

(* Escape and a click outside, also while the row is busy. *)
LeavePopover ==
    /\ ui.pop.open # Nothing
    /\ Page([ui EXCEPT !.pop.open = Nothing]) /\ Only(<<server, calls>>)

(* crossed remembers that two changes overlapped; on the licences page      *)
(* nothing more is started after that (a bound).                            *)
(* Mutated form: a popover opened again forgets that it is busy.            *)
Confirm_Again ==
    /\ ui.pop.open # Nothing /\ (OnLicences => ~ui.crossed)
    /\ Page([ui EXCEPT !.pop.busy = @ \cup {ui.pop.open}, !.pop.err = @ \ {ui.pop.open},
                       !.crossed = @ \/ ~Quiet])
    /\ Fetch("remove", ui.pop.open) /\ Only(server)
Confirm ==
    /\ ui.pop.open # Nothing /\ ui.pop.open \notin ui.pop.busy /\ (OnLicences => ~ui.crossed)
    /\ Page([ui EXCEPT !.pop.busy = @ \cup {ui.pop.open}, !.pop.err = @ \ {ui.pop.open},
                       !.crossed = @ \/ ~Quiet])
    /\ Fetch("remove", ui.pop.open) /\ Only(server)

(* run's catch and finally: the trigger offers a retry. *)
TurnedDown(p, k) ==
    IF k \notin OfList(p) THEN p ELSE
    [p EXCEPT !.pop = [open |-> IF @.open = k THEN Nothing ELSE @.open,
                       busy |-> @.busy \ {k}, err |-> @.err \cup {k}]]

(* A row that is gone takes its popover with it. *)
Relist(p, list) ==
    [p EXCEPT !.list = list,
              !.pop = [open |-> IF @.open \in list THEN @.open ELSE Nothing,
                       busy |-> @.busy \cap list, err |-> @.err \cap list]]

ListFetched(c) ==
    /\ Sent(c, "items") /\ Answer(c, {k \in Items : server[k] = "in"}) /\ Only(<<ui, server>>)

(* Connected apps: an app's refresh token is removed, then its access token *)
(* is put on the revoked list; each step may fail.                          *)
AppsInit ==
    Opens("apps", [list |-> Nothing, loadErr |-> FALSE, pop |-> Popovers,
                   revoked |-> {}, crossed |-> FALSE],
          [k \in Items |-> "in"], Request("items", Nothing))

AppsLoaded(c) ==
    /\ Back(c, "items")
    /\ Page(IF Ok(c, "items") THEN Relist(ui, calls[c].got) ELSE [ui EXCEPT !.loadErr = TRUE])
    /\ Done(c) /\ Only(server)

(* A token that is gone is a 404, which the page takes for a success. *)
RevokeToken(c) ==
    /\ OnApps /\ Sent(c, "remove")
    /\ LET k == calls[c].arg IN
         \/ /\ server' = [server EXCEPT ![k] = IF @ = "in" THEN "out" ELSE @]
            /\ Answer(c, "removed") /\ Only(ui)
         \/ /\ server[k] = "in" /\ faults < MaxFaults /\ faults' = faults + 1
            /\ server' = [server EXCEPT ![k] = "accessible"]
            /\ calls' = [calls EXCEPT ![c].at = "failed"]
            /\ UNCHANGED <<page, ui, outside>>

(* Mutated form: the row is taken from the list as it was when it was asked *)
(* for, not from the list of now.                                           *)
Revoked_Captured(c) ==
    /\ OnApps /\ Back(c, "remove")
    /\ LET k == calls[c].arg IN
         Page(IF Ok(c, "remove") THEN [Relist(ui, Items \ {k}) EXCEPT !.revoked = @ \cup {k}]
              ELSE TurnedDown(ui, k))
    /\ Done(c) /\ Only(server)
Revoked(c) ==
    /\ OnApps /\ Back(c, "remove")
    /\ LET k == calls[c].arg IN
         Page(IF Ok(c, "remove") THEN [Relist(ui, ui.list \ {k}) EXCEPT !.revoked = @ \cup {k}]
              ELSE TurnedDown(ui, k))
    /\ Done(c) /\ Only(server)

AppsNext ==
    /\ OnApps
    /\ \/ LeavePopover \/ Confirm
       \/ \E k \in Items : TogglePopover(k)
       \/ \E c \in Slots : ListFetched(c) \/ AppsLoaded(c) \/ RevokeToken(c) \/ Revoked(c)
-----------------------------------------------------------------------------
(* Licences: added by their key, removed, and revoked by the poller.        *)
Plan(held) == IF \E k \in Items : held[k] = "active" THEN "pro" ELSE "free"
Kept(held) == {k \in Items : held[k] # "none"}

(* load: the account and the list, two requests the API may serve apart;    *)
(* both answers together are set, or neither.                               *)
LicencesInit ==
    Opens("licences", [list |-> Nothing, plan |-> Nothing, loadErr |-> FALSE, busy |-> FALSE,
                       pop |-> Popovers, crossed |-> FALSE],
          [k \in Items |-> IF k = 1 THEN "active" ELSE "none"],
          Requests("load", [of |-> "open", k |-> 1]))

(* One half of a load; the other half may be served after a change. *)
ServeHalf(c, half) ==
    /\ Each(c, "load")
    /\ LET had == IF calls[c].got = Nothing THEN [plan |-> Nothing, list |-> Nothing] ELSE calls[c].got
           now == [had EXCEPT ![half] = IF half = "plan" THEN Plan(server) ELSE Kept(server)]
       IN /\ had[half] = Nothing
          /\ calls' = [calls EXCEPT ![c].got = now,
                         ![c].at = IF Nothing \in {now.plan, now.list} THEN @ ELSE "ok"]
    /\ Only(<<ui, server>>)

LoadFails == [ui EXCEPT !.loadErr = TRUE, !.pop = Popovers]

(* The end of the load is the end of the add or the removal it is part of.  *)
(* Mutated form: only the list is set.                                      *)
LicencesLoaded_List(c) ==
    /\ Back(c, "load")
    /\ LET a == calls[c].arg
           set == IF Ok(c, "load") THEN Relist(ui, calls[c].got.list) ELSE LoadFails
       IN Page([set EXCEPT !.busy = @ /\ a.of # "add",
                           !.pop.busy = IF a.of = "remove" THEN @ \ {a.k} ELSE @])
    /\ Done(c) /\ Only(server)
LicencesLoaded(c) ==
    /\ Back(c, "load")
    /\ LET a == calls[c].arg
           set == IF Ok(c, "load") THEN [Relist(ui, calls[c].got.list) EXCEPT !.plan = calls[c].got.plan]
                  ELSE LoadFails
       IN Page([set EXCEPT !.busy = @ /\ a.of # "add",
                           !.pop.busy = IF a.of = "remove" THEN @ \ {a.k} ELSE @])
    /\ Done(c) /\ Only(server)

AddKey(k) ==
    /\ ~ui.busy /\ ~ui.crossed
    /\ Page([ui EXCEPT !.busy = TRUE, !.crossed = @ \/ ~Quiet])
    /\ Fetch("add", k) /\ Only(server)

(* A revoked key is refused; one that is held already is taken again. *)
ServeAdd(c) ==
    /\ Sent(c, "add")
    /\ LET k == calls[c].arg
           new == [server EXCEPT ![k] = "active"]
       IN IF server[k] = "revoked" THEN Answer(c, Nothing) /\ UNCHANGED server
          ELSE server' = new /\ Answer(c, Plan(new))
    /\ Only(ui)

KeyAdded(c) ==
    /\ Back(c, "add")
    /\ IF calls[c].got # Nothing
         THEN calls' = [calls EXCEPT ![c] = Requests("load", [of |-> "add", k |-> calls[c].arg])] /\ UNCHANGED ui
         ELSE Page([ui EXCEPT !.busy = FALSE]) /\ Done(c)
    /\ Only(server)

(* DELETE of a licence that is gone is an error. *)
DeleteLicence(c) ==
    /\ OnLicences /\ Sent(c, "remove")
    /\ IF server[calls[c].arg] = "none" THEN Answer(c, Nothing) /\ UNCHANGED server
       ELSE server' = [server EXCEPT ![calls[c].arg] = "none"] /\ Answer(c, "removed")
    /\ Only(ui)

Removed(c) ==
    /\ OnLicences /\ Back(c, "remove")
    /\ LET k == calls[c].arg IN
         IF calls[c].got # Nothing
           THEN calls' = [calls EXCEPT ![c] = Requests("load", [of |-> "remove", k |-> k])] /\ UNCHANGED ui
           ELSE Page(TurnedDown(ui, k)) /\ Done(c)
    /\ Only(server)

PollerRevokes == \E k \in Items : server[k] = "active" /\ Elsewhere([server EXCEPT ![k] = "revoked"])

LicencesNext ==
    /\ OnLicences
    /\ \/ LeavePopover \/ Confirm \/ PollerRevokes
       \/ \E k \in Items : TogglePopover(k) \/ AddKey(k)
       \/ \E c \in Slots : \/ \E half \in {"plan", "list"} : ServeHalf(c, half)
                           \/ LicencesLoaded(c) \/ ServeAdd(c) \/ KeyAdded(c)
                           \/ DeleteLicence(c) \/ Removed(c)
-----------------------------------------------------------------------------
(* Notifications: the permission, the browser's push subscription, and the  *)
(* endpoint the API keeps.  needsPush is FALSE until the page has looked.   *)
(* A subscription of an earlier visit may never have reached the API; had   *)
(* says that there is one.                                                  *)
PushInit ==
    \E granted, sub, stored \in BOOLEAN :
      /\ stored => sub
      /\ sub => granted
      /\ Opens("push", [notif |-> IF granted THEN "granted" ELSE "default", sub |-> sub,
                        needsPush |-> FALSE, had |-> sub],
               stored, IF granted THEN Request("key", "look") ELSE Free)

(* A click on Turn on, and the reader's answer to the browser's prompt. *)
TurnOn(answer) ==
    /\ ui.notif = "default" \/ (ui.notif = "granted" /\ ui.needsPush)
    /\ ui.notif = "granted" => answer = "granted"
    /\ Fetch("key", IF answer = "granted" THEN "enable" ELSE "look")
    /\ Page(IF answer = "granted" THEN ui ELSE [ui EXCEPT !.notif = answer]) /\ Only(server)

ServeKey(c) == Sent(c, "key") /\ Answer(c, "key") /\ Only(<<ui, server>>)

(* enableNotifications with the key in hand: subscribe, then tell the API.  *)
(* What fails is passed over, and the page looks again.                     *)
(* Mutated form: the API is not told.                                       *)
SubscribeDone_Untold(c) ==
    /\ Back(c, "key") /\ calls[c].arg = "enable"
    /\ Page([ui EXCEPT !.notif = "granted", !.sub = @ \/ Ok(c, "key")])
    /\ ThenFetch(c, "key", "look") /\ Only(server)
SubscribeDone(c) ==
    /\ Back(c, "key") /\ calls[c].arg = "enable"
    /\ IF Ok(c, "key")
         THEN Page([ui EXCEPT !.sub = TRUE]) /\ ThenFetch(c, "endpoint", Nothing)
         ELSE Page([ui EXCEPT !.notif = "granted"]) /\ ThenFetch(c, "key", "look")
    /\ Only(server)

ServeEndpoint(c) == Sent(c, "endpoint") /\ server' = TRUE /\ Answer(c, "saved") /\ Only(ui)
EndpointSaved(c) ==
    /\ Back(c, "endpoint")
    /\ Page([ui EXCEPT !.notif = "granted"]) /\ ThenFetch(c, "key", "look") /\ Only(server)

(* pushMissing: the server has a key and this browser no subscription. *)
PushLooked(c) ==
    /\ Back(c, "key") /\ calls[c].arg = "look"
    /\ Page([ui EXCEPT !.needsPush = Ok(c, "key") /\ ~ui.sub]) /\ Done(c) /\ Only(server)

PushNext ==
    /\ OnPush
    /\ \/ TurnOn("granted") \/ TurnOn("denied")
       \/ \E c \in Slots : \/ ServeKey(c) \/ SubscribeDone(c) \/ ServeEndpoint(c)
                           \/ EndpointSaved(c) \/ PushLooked(c)
-----------------------------------------------------------------------------
SettingsTypeOK ==
    /\ OnApps \/ OnLicences =>
         /\ ui.list = Nothing \/ ui.list \subseteq Items
         /\ ui.pop.open \in Items \cup {Nothing} /\ ui.pop.busy \cup ui.pop.err \subseteq Items
         /\ {ui.loadErr, ui.crossed} \subseteq BOOLEAN
    /\ OnApps => server \in [Items -> {"in", "accessible", "out"}] /\ ui.revoked \subseteq Items
    /\ OnLicences => server \in [Items -> {"none", "active", "revoked"}] /\ ui.busy \in BOOLEAN
    /\ OnPush => ui.notif \in {"default", "granted", "denied"} /\ server \in BOOLEAN

(* Two apps revoked at the same time are both gone, whichever answer comes  *)
(* first.                                                                   *)
RevokedStayOut == OnApps => ui.list = Nothing \/ ui.revoked \cap ui.list = {}

(* A popover that is closed and opened while its request is out does not    *)
(* send it again.                                                           *)
OneRemovalPerItem ==
    OnApps => \A c, d \in OutAs("remove") : calls[c].arg = calls[d].arg => c = d

(* Adds and removals that did not overlap leave the plan and the list that  *)
(* the API has, unless a request failed or the poller revoked a key.        *)
PlanIsCurrent ==
    OnLicences /\ Quiet /\ ~ui.crossed /\ faults = 0 /\ outside = 0 =>
      ui.plan = Plan(server) /\ ui.list = Kept(server)

(* Where nothing failed, notifications that are said to be on with the page *)
(* closed have their endpoint at the API, unless the subscription is of an  *)
(* earlier visit: the page looks for one in the browser only.               *)
PushIsStored ==
    OnPush /\ Quiet /\ faults = 0 /\ ui.notif = "granted" /\ ~ui.needsPush => server \/ ui.had
=============================================================================
