-------------------------------- MODULE Shell --------------------------------
(***************************************************************************)
(* Around every page: the middleware that routes by the cookie, the gate   *)
(* that asks the API who the visitor is, and for a signed-in visitor the   *)
(* shell with its drawer, its account menu, and the dialogs its keys open. *)
(***************************************************************************)
EXTENDS Browser, SequencesExt

OnShell == page = "shell"

Private == {"sessions", "shared", "new"}
Places == Private \cup {"landing", "feed", "session"}
(* The list and the list of what is shared are one path with two queries. *)
PathOf(place) == IF place = "shared" THEN "sessions" ELSE place

(* The middleware knows whether there is a cookie, not whether it is good. *)
Routed(place, cookie) ==
    CASE place = "landing" /\ cookie # "none" -> "sessions"
      [] place \in Private /\ cookie = "none" -> "landing"
      [] OTHER -> place

Loading(at, narrow) ==
    [phase |-> "loading", at |-> at, narrow |-> narrow, drawer |-> FALSE,
     menu |-> FALSE, leaving |-> FALSE, dialogs |-> <<>>]

ShellInit ==
    \E place \in Places, cookie \in {"none", "stale", "valid"}, narrow \in BOOLEAN :
      Opens("shell", Loading(Routed(place, cookie), narrow), [cookie |-> cookie], Request("me", Nothing))

(* GET /api/me. *)
ServeMe(c) == Sent(c, "me") /\ Answer(c, server.cookie = "valid") /\ Only(<<ui, server>>)

(* Whatever goes wrong, the visitor is nobody.                              *)
(* Mutated form: a request that fails is not an answer.                     *)
MeAnswered_Waits(c) ==
    /\ Back(c, "me")
    /\ Page(IF Failed(c, "me") THEN ui
            ELSE [ui EXCEPT !.phase = IF calls[c].got THEN "authed" ELSE "anon"])
    /\ Done(c) /\ Only(server)
MeAnswered(c) ==
    /\ Back(c, "me")
    /\ Page([ui EXCEPT !.phase = IF Ok(c, "me") /\ calls[c].got THEN "authed" ELSE "anon"])
    /\ Done(c) /\ Only(server)

(* What the gate renders. *)
Rendered(u) ==
    IF u.phase = "authed" THEN "shell"
    ELSE IF u.at \notin Private THEN "page"
    ELSE IF u.phase = "anon" THEN "landing" ELSE "placeholder"

(* A link, the router: the middleware routes, a new path closes the drawer. *)
(* Mutated form: only the drawer's own links would.                         *)
Goes_Open(u, place) == [u EXCEPT !.at = Routed(place, server.cookie)]
Goes(u, place) ==
    LET at == Routed(place, server.cookie)
    IN [u EXCEPT !.at = at, !.drawer = IF PathOf(at) = PathOf(u.at) THEN @ ELSE FALSE]
Inert(u) == u.narrow /\ u.drawer      \* all but the drawer, dialogs included
Bare(u) == u.dialogs = <<>> /\ ~Inert(u)

Walk(place) ==
    /\ place # ui.at
    /\ Rendered(ui) # "placeholder" /\ ui.dialogs = <<>>
    /\ Page([Goes(ui, place) EXCEPT !.menu = FALSE]) /\ Only(<<server, calls>>)

-----------------------------------------------------------------------------
InShell == ui.phase = "authed"

(* The button of the header, which is inert once the drawer is open; the    *)
(* backdrop and the drawer's own button close it.                           *)
ToggleDrawer ==
    /\ InShell /\ ui.narrow /\ ui.dialogs = <<>>
    /\ Page([ui EXCEPT !.drawer = ~@, !.menu = FALSE]) /\ Only(<<server, calls>>)

(* ProfileMenu: its trigger, and a press anywhere else. *)
ToggleMenu == InShell /\ Bare(ui) /\ Page([ui EXCEPT !.menu = ~@]) /\ Only(<<server, calls>>)

IsOpen(u, d) == Contains(u.dialogs, d)
Opened(u, d) == IF IsOpen(u, d) THEN u ELSE [u EXCEPT !.dialogs = Append(@, d)]
ClosedOne(u, d) == [u EXCEPT !.dialogs = SelectSeq(@, LAMBDA x : x # d)]

(* useShortcuts: Cmd-K toggles the palette, Cmd-N goes to a new session,    *)
(* and "?" asks for help unless the palette's field has the focus.          *)
Key(k) ==
    /\ InShell
    /\ CASE k = "K" -> Page(IF IsOpen(ui, "palette") THEN ClosedOne(ui, "palette") ELSE Opened(ui, "palette"))
         [] k = "N" -> Page(Goes(ui, "new"))
         [] k = "?" -> ~IsOpen(ui, "palette") /\ Page(Opened(ui, "help"))
    /\ Only(<<server, calls>>)

(* The search of the header. *)
Search == InShell /\ Bare(ui) /\ Page(Opened([ui EXCEPT !.menu = FALSE], "palette")) /\ Only(<<server, calls>>)

(* Escape is heard by the dialog on top, the drawer and the menu alike. *)
Escape ==
    /\ InShell
    /\ Page([ui EXCEPT !.drawer = FALSE, !.menu = FALSE,
                       !.dialogs = IF @ = <<>> THEN @ ELSE Front(@)])
    /\ Only(<<server, calls>>)

(* The backdrop or the cross of the dialog on top, unless it is inert. *)
CloseTop ==
    /\ ui.dialogs # <<>> /\ ~Inert(ui)
    /\ Page([ui EXCEPT !.dialogs = Front(@), !.menu = FALSE]) /\ Only(<<server, calls>>)

OnTop(d) == ui.dialogs # <<>> /\ Last(ui.dialogs) = d /\ ~Inert(ui)

(* The palette closes before it runs anything; a click in it, not Enter,    *)
(* closes the menu as well.                                                 *)
RunPalette ==
    /\ OnTop("palette")
    /\ \E menu \in {ui.menu, FALSE} :
         LET u == [ClosedOne(ui, "palette") EXCEPT !.menu = menu]
         IN Page(Opened(u, "help")) \/ \E place \in Places : Page(Goes(u, place))
    /\ Only(<<server, calls>>)

-----------------------------------------------------------------------------
(* Log out, in the menu or the palette. *)
SignOut ==
    \/ /\ ui.menu /\ ~ui.leaving /\ Bare(ui)
       /\ Page([ui EXCEPT !.leaving = TRUE]) /\ Fetch("logout", Nothing) /\ Only(server)
    \/ /\ OnTop("palette")
       /\ Page(ClosedOne(ui, "palette")) /\ Fetch("logout", Nothing) /\ Only(server)

(* POST /auth/logout: the cookies are cleared. *)
ServeLogout(c) ==
    /\ Sent(c, "logout") /\ server' = [server EXCEPT !.cookie = "none"] /\ Answer(c, "out") /\ Only(ui)

(* location.assign("/"), whether it worked or not: everything is loaded     *)
(* again.  Mutated form: the router goes there.                             *)
LogoutAnswered_Goes(c) ==
    /\ Back(c, "logout") /\ Page([Goes(ui, "landing") EXCEPT !.leaving = FALSE]) /\ Done(c) /\ Only(server)
LogoutAnswered(c) ==
    /\ Back(c, "logout")
    /\ Page(Loading(Routed("landing", server.cookie), ui.narrow))
    /\ calls' = [NoCalls EXCEPT ![1] = Request("me", Nothing)]
    /\ Only(server)

(* The cookie expires, or another tab signs in or out. *)
CookieChanges == \E k \in {"none", "stale", "valid"} : Elsewhere([server EXCEPT !.cookie = k])

ShellNext ==
    /\ OnShell
    /\ \/ ToggleDrawer \/ ToggleMenu \/ Search \/ Escape \/ CloseTop \/ RunPalette \/ SignOut \/ CookieChanges
       \/ \E place \in Places : Walk(place)
       \/ \E k \in {"K", "N", "?"} : Key(k)
       \/ \E c \in Slots : ServeMe(c) \/ MeAnswered(c) \/ ServeLogout(c) \/ LogoutAnswered(c)
-----------------------------------------------------------------------------
ShellTypeOK ==
    OnShell =>
      /\ ui.phase \in {"loading", "authed", "anon"} /\ ui.at \in Places
      /\ {ui.narrow, ui.drawer, ui.menu, ui.leaving} \subseteq BOOLEAN
      /\ ui.dialogs \in {<<>>, <<"palette">>, <<"help">>, <<"palette", "help">>, <<"help", "palette">>}

(* The shell is for whom the API knows: when nothing has failed or changed  *)
(* elsewhere, signing out ends it, from any page and from under any dialog. *)
GateAgrees ==
    (OnShell /\ Quiet /\ faults = 0 /\ outside = 0) => (ui.phase = "authed" <=> server.cookie = "valid")

(* The visitor is not kept waiting by an answer that does not come.         *)
GateOpens == (OnShell /\ OutAs("me") = {}) => Rendered(ui) # "placeholder"

(* No key or link leaves the drawer over a page it was not opened on.       *)
DrawerStaysBehind == [][OnShell /\ OnShell' /\ PathOf(ui'.at) # PathOf(ui.at) => ~ui'.drawer]_vars
=============================================================================
