---------------------------- MODULE Pages_proofs ----------------------------
(***************************************************************************)
(* Theorems about the pages of the web client, for any number of requests, *)
(* faults and changes made elsewhere.  A behaviour stays on the page it    *)
(* starts on, so that an invariant of a page is kept if the steps of that  *)
(* page keep it, and a request that fails.  The share sheet and the session*)
(* view are here.                                                          *)
(***************************************************************************)
EXTENDS MCPages, WellFoundedInduction, FiniteSetTheorems, SequenceTheorems, TLAPS

-----------------------------------------------------------------------------
(* The composition. *)

(* Every step of a page leaves the visitor on it. *)
LEMMA PagesStay == [Next]_vars => UNCHANGED page
<1>1. ShareNext => UNCHANGED page
  BY DEF ShareNext, PickLevel, CancelLevel, ApplyVisibility, Act, SetLinkRole,
         AskPublish, CancelPublish, Publish, RemoveFromFeed, ServeShare,
         ActAnswered, Only
<1>2. InvitedNext => UNCHANGED page
  BY DEF InvitedNext, TypeEmail, Invite, Grant, Revoke, ServeGrants,
         GrantsAnswered, Only
<1>3. RowsNext => UNCHANGED page
  BY DEF RowsNext, PollRows, LoadMore, RowsElsewhere, ServeChunk,
         RowsAnswered, Only, Elsewhere
<1>4. BulkNext => UNCHANGED page
  BY DEF BulkNext, ToggleSelecting, Toggle, SelectAll, PublishSelected, Run,
         AskDelete, CancelDelete, DeleteForever, Retry, Dismiss, ServeOne,
         FailOne, RunAnswered, ServeLoad, LoadAnswered, Only
<1>5. NewNext => UNCHANGED page
  BY DEF NewNext, PollHosts, CheckAgain, StartSession, HostsElsewhere,
         PickMachine, PickDirectory, PickAgent, PickModel, ServeHosts,
         HostsAnswered, ServeSpawn, SpawnAnswered, Only, Elsewhere
<1>6. AdminNext => UNCHANGED page
  BY DEF AdminNext, RivalCounts, RivalWrites, EditQuota, QuotaButtons,
         SaveQuota, PickFilter, SetAdmin, ServeAdminRead, Guarded,
         TotalsAnswered, SessionsAnswered, UsersAnswered, CountAdmins,
         WriteAdmin, AdminAnswered, ServeQuota, QuotaAnswered, Only, Elsewhere
<1>7. SideNext => UNCHANGED page
  BY DEF SideNext, PollSide, CloseDialog, DoConfirm, SaveRename, CancelRename,
         EndsElsewhere, GoTo, AskConfirm, StartRename, ServeList, SideLoaded,
         ServeConfirm, Confirmed, ServeRename, Renamed, Only, Elsewhere
<1>8. ListNext => UNCHANGED page
  BY DEF ListNext, PickFilters, OpenField, TypeTitle, EnterOrBlur, SaveTitle,
         EscapeTitle, LateBlur, ServeTitle, TitleAnswered, ServeTitles,
         TitlesAnswered, Only
<1>9. FeedNext => UNCHANGED page
  BY DEF FeedNext, Debounce, LoadMoreFeed, FeedElsewhere, TypeQuery,
         PickAgentTab, ServeFeed, FirstAnswered, MoreAnswered, Only, Elsewhere
<1>10. SessNext => UNCHANGED page
  BY DEF SessNext, RetrySess, StreamOpens, StreamRefused, StreamFails,
         StreamEvent, StreamEnded, StreamDeleted, Reconnect, SendComment,
         Decide, SessElsewhere, ServeSessLoad, SessLoaded, ServeComment,
         CommentAnswered, ServeDecision, DecisionAnswered, Only, Elsewhere
<1>11. TranscriptNext => UNCHANGED page
  BY DEF TranscriptNext, Arrive, Echo, Refused, Only
<1>12. TailNext => UNCHANGED page
  BY DEF TailNext, Grows, FollowEffect, OnScroll, Jump, Glide, ReaderScrolls,
         Only
<1>13. AppsNext => UNCHANGED page
  BY DEF AppsNext, LeavePopover, Confirm, TogglePopover, ListFetched,
         AppsLoaded, RevokeToken, Revoked, Only
<1>14. LicencesNext => UNCHANGED page
  BY DEF LicencesNext, LeavePopover, Confirm, PollerRevokes, TogglePopover,
         AddKey, ServeHalf, LicencesLoaded, ServeAdd, KeyAdded, DeleteLicence,
         Removed, Only, Elsewhere
<1>15. PushNext => UNCHANGED page
  BY DEF PushNext, TurnOn, ServeKey, SubscribeDone, ServeEndpoint,
         EndpointSaved, PushLooked, Only
<1>16. PaletteNext => UNCHANGED page
  BY DEF PaletteNext, OpenPalette, ClosePalette, ArrowDown, Highlight,
         ArrowUp, Enter, RunItem, PollPalette, FoundChanges, TypeToFind,
         HoverRow, ClickRow, ServeFound, FoundAnswered, Only, Elsewhere
<1>17. StripNext => UNCHANGED page
  BY DEF StripNext, CloseStrip, RunConfirmed, Sends, EditTitle, EscapeField,
         SaveField, StripEnds, StripTold, AskStrip, DraftTitle, SwitchModel,
         ServeConfirmed, ConfirmedStrip, ServeRetitle, Retitled, ServeModel,
         ModelAnswered, Only, Elsewhere
<1>18. BellNext => UNCHANGED page
  BY DEF BellNext, PollBell, ToggleBell, PickApproval, AgentAsks, WalkTo,
         ServeApprovals, BellAnswered, Only, Elsewhere
<1>19. SeenNext => UNCHANGED page
  BY DEF SeenNext, EventShown, MarkTimer, Mark, ShowTab, HideTab, PollBadge,
         SessionGrows, ServeMark, MarkAnswered, ServeBadge, BadgeAnswered,
         Only, Elsewhere
<1>20. ThemeNext => UNCHANGED page
  BY DEF ThemeNext, Mounts, TakesSaved, SetMode, ReloadTheme, SystemTurns,
         Only
<1>21. ComposerNext => UNCHANGED page
  BY DEF ComposerNext, TypeDraft, SendDraft, Send, RetrySend, EndsWhileTyping,
         ReadOnlyFooter, ServeSend, SendAnswered, Only, Elsewhere
<1>22. TypersNext => UNCHANGED page
  BY DEF TypersNext, Tick, KeyPressed, ThreeSeconds, UntilPasses, Only
<1>23. ShellNext => UNCHANGED page
  BY DEF ShellNext, ToggleDrawer, ToggleMenu, Search, Escape, CloseTop,
         RunPalette, SignOut, CookieChanges, Walk, Key, ServeMe, MeAnswered,
         ServeLogout, LogoutAnswered, Only, Elsewhere
<1>24. PopoverNext => UNCHANGED page
  BY DEF PopoverNext, OpenPopover, Refills, Scrolls, EscapePopover,
         PressOutside, TabOut, PressAnchor, Only
<1>25. MenuNext => UNCHANGED page
  BY DEF MenuNext, OpenMenu, PressOutsideMenu, ItemGoes, ArrowDown, Highlight,
         ArrowUp, Escape, MenuKey, SelectItem, Only
<1>26. LandingNext => UNCHANGED page
  BY DEF LandingNext, TryNext, SessionIsHidden, ServeReplay, ReplayAnswered,
         Only, Elsewhere
<1>27. (\E c \in Slots : Fail(c)) => UNCHANGED page
  BY DEF Fail
<1> QED
  BY <1>1, <1>2, <1>3, <1>4, <1>5, <1>6, <1>7, <1>8, <1>9, <1>10, <1>11,
     <1>12, <1>13, <1>14, <1>15, <1>16, <1>17, <1>18, <1>19, <1>20, <1>21,
     <1>22, <1>23, <1>24, <1>25, <1>26, <1>27 DEF Next, vars

(* What a step can be, on a page: a step of that page, or the failure of a  *)
(* request.                                                                 *)
LEMMA NextOn ==
    ASSUME [Next]_vars
    PROVE  /\ OnShare => (ShareNext \/ (\E c \in Slots : Fail(c)) \/ UNCHANGED vars)
           /\ OnAdmin => (AdminNext \/ (\E c \in Slots : Fail(c)) \/ UNCHANGED vars)
           /\ OnFeed => (FeedNext \/ (\E c \in Slots : Fail(c)) \/ UNCHANGED vars)
           /\ OnSession => (SessNext \/ (\E c \in Slots : Fail(c)) \/ UNCHANGED vars)
BY DEF Next, ShareNext, InvitedNext, RowsNext, BulkNext, NewNext, AdminNext,
       SideNext, ListNext, FeedNext, SessNext, TranscriptNext, TailNext,
       AppsNext, LicencesNext, PushNext, PaletteNext, StripNext, BellNext,
       SeenNext, ThemeNext, ComposerNext, TypersNext, ShellNext, PopoverNext,
       MenuNext, LandingNext, OnShare, OnInvited, OnRows, OnBulk, OnNew,
       OnAdmin, OnSide, OnList, OnFeed, OnSession, OnTranscript, OnTail,
       OnApps, OnLicences, OnPush, OnPalette, OnStrip, OnBell, OnSeen,
       OnTheme, OnComposer, OnTypers, OnShell, OnPopover, OnMenu, OnLanding

LEMMA InitOn ==
    ASSUME Init
    PROVE  /\ OnShare => ShareInit
           /\ OnAdmin => AdminInit
           /\ OnFeed => FeedInit
           /\ OnSession => SessInit
BY DEF Init, Opens, ShareInit, InvitedInit, RowsInit, BulkInit, NewInit,
       AdminInit, SideInit, ListInit, FeedInit, SessInit, TranscriptInit,
       TailInit, AppsInit, LicencesInit, PushInit, PaletteInit, StripInit,
       BellInit, SeenInit, ThemeInit, ComposerInit, TypersInit, ShellInit,
       PopoverInit, MenuInit, LandingInit, OnShare, OnAdmin, OnFeed, OnSession
-----------------------------------------------------------------------------
(* Induction on the naturals, as the absence of a smallest counterexample.  *)

LEMMA Least ==
    ASSUME NEW S \in SUBSET Nat, S # {}
    PROVE  \E s \in S : \A d \in S : s <= d
<1> DEFINE R == OpToRel(<, Nat)
<1>1. IsWellFoundedOn(R, Nat)
  BY NatLessThanWellFounded
<1>2. \E s \in S : \A d \in S : ~(<<d, s>> \in R)
  <2> HIDE DEF R
  <2> QED BY <1>1, WFMin
<1>3. PICK s \in S : \A d \in S : ~(<<d, s>> \in R)
  BY <1>2
<1>4. ASSUME NEW d \in S PROVE s <= d
  <2>1. d \in Nat /\ s \in Nat /\ ~(d < s)
    BY <1>3 DEF OpToRel
  <2> QED BY <2>1
<1> QED BY <1>4

LEMMA Induction ==
    ASSUME NEW G, 0 \in G, \A n \in Nat : n \in G => n + 1 \in G
    PROVE  Nat \subseteq G
<1>1. ASSUME Nat \ G # {} PROVE FALSE
  <2>1. PICK s \in Nat \ G : \A d \in Nat \ G : s <= d
    BY <1>1, Least
  <2>2. s # 0 /\ s - 1 \in Nat /\ ~(s <= s - 1)
    BY <2>1
  <2>3. s - 1 \in G
    BY <2>1, <2>2
  <2> QED BY <2>1, <2>2, <2>3
<1> QED BY <1>1

-----------------------------------------------------------------------------
(* Requests: the slot that one starts in, and what its answer changes.      *)

(* A slot is free, or has a request with its operation, argument, state and *)
(* answer.                                                                  *)
IsCall(r) == r = Free \/ r = [op |-> r.op, arg |-> r.arg, at |-> r.at, got |-> r.got]
CallsShape == calls = [c \in Slots |-> calls[c]] /\ \A c \in Slots : IsCall(calls[c])

(* There is a first free slot, when one is free. *)
LEMMA SlotIsFree == HasSlot => Slot \in Slots /\ calls[Slot] = Free
<1> SUFFICES ASSUME HasSlot PROVE Slot \in Slots /\ calls[Slot] = Free
  OBVIOUS
<1> DEFINE F == {c \in Slots : calls[c] = Free}
<1>1. F \in SUBSET Nat /\ F # {}
  BY DEF HasSlot, Slots
<1>2. PICK s \in F : \A d \in F : s <= d
  BY <1>1, Least
<1>3. ASSUME NEW d \in 1..(s - 1), calls[d] = Free PROVE FALSE
  <2>1. d \in F /\ ~(s <= d)
    BY <1>1, <1>3, BrowserAssumption DEF Slots
  <2> QED BY <1>2, <2>1
<1> QED BY <1>2, <1>3 DEF Slot

LEMMA StartEffect ==
    ASSUME CallsShape, NEW r, Start(r), IsCall(r)
    PROVE  /\ CallsShape'
           /\ \E s \in Slots : calls[s] = Free /\ calls'[s] = r /\ \A c \in Slots \ {s} : calls'[c] = calls[c]
BY SlotIsFree DEF Start, CallsShape

LEMMA CallSettles ==
    ASSUME NEW r, NEW op, NEW arg, NEW at, NEW got,
           r = [op |-> op, arg |-> arg, at |-> at, got |-> got], NEW a, NEW g
    PROVE  [[r EXCEPT !.at = a] EXCEPT !.got = g] = [op |-> op, arg |-> arg, at |-> a, got |-> g]
<1>1. PICK one : one = [r EXCEPT !.at = a]
  OBVIOUS
<1>2. one = [op |-> op, arg |-> arg, at |-> a, got |-> got]
  BY <1>1
<1>3. [one EXCEPT !.got = g] = [op |-> op, arg |-> arg, at |-> a, got |-> g]
  BY <1>2
<1> QED BY <1>1, <1>3

LEMMA AnswerEffect ==
    ASSUME CallsShape, NEW c \in Slots, calls[c].op # "none", NEW got, Answer(c, got)
    PROVE  /\ CallsShape'
           /\ calls'[c] = [op |-> calls[c].op, arg |-> calls[c].arg, at |-> "ok", got |-> got]
           /\ \A d \in Slots \ {c} : calls'[d] = calls[d]
<1>1. calls[c] = [op |-> calls[c].op, arg |-> calls[c].arg, at |-> calls[c].at, got |-> calls[c].got]
  BY DEF CallsShape, IsCall, Free
<1>2. PICK r : r = [[calls[c] EXCEPT !.at = "ok"] EXCEPT !.got = got]
  OBVIOUS
<1>3. r = [op |-> calls[c].op, arg |-> calls[c].arg, at |-> "ok", got |-> got]
  BY <1>1, <1>2, CallSettles
<1>4. calls' = [calls EXCEPT ![c] = r]
  BY <1>2 DEF Answer, CallsShape
<1> QED BY <1>1, <1>3, <1>4 DEF CallsShape, IsCall

LEMMA DoneEffect ==
    ASSUME CallsShape, NEW c \in Slots, Done(c)
    PROVE  CallsShape' /\ calls'[c] = Free /\ \A d \in Slots \ {c} : calls'[d] = calls[d]
BY DEF CallsShape, Done, IsCall

LEMMA ThenFetchEffect ==
    ASSUME CallsShape, NEW c \in Slots, NEW op, NEW arg, ThenFetch(c, op, arg)
    PROVE  /\ CallsShape'
           /\ calls'[c] = Request(op, arg)
           /\ \A d \in Slots \ {c} : calls'[d] = calls[d]
BY DEF CallsShape, ThenFetch, IsCall, Request

LEMMA FailEffect ==
    ASSUME CallsShape, NEW c \in Slots, Fail(c)
    PROVE  /\ CallsShape'
           /\ calls[c] # Free /\ calls[c].at \in {"sent", "ok"}
           /\ calls'[c] = [op |-> calls[c].op, arg |-> calls[c].arg, at |-> "failed", got |-> Nothing]
           /\ \A d \in Slots \ {c} : calls'[d] = calls[d]
           /\ UNCHANGED <<page, ui, server, outside>> /\ faults < MaxFaults /\ faults' = faults + 1
<1>1. calls[c] = [op |-> calls[c].op, arg |-> calls[c].arg, at |-> calls[c].at, got |-> calls[c].got]
  BY DEF CallsShape, IsCall, Fail, Free
<1>2. PICK r : r = [[calls[c] EXCEPT !.at = "failed"] EXCEPT !.got = Nothing]
  OBVIOUS
<1>3. r = [op |-> calls[c].op, arg |-> calls[c].arg, at |-> "failed", got |-> Nothing]
  BY <1>1, <1>2, CallSettles
<1>4. calls' = [calls EXCEPT ![c] = r]
  BY <1>2 DEF Fail, CallsShape
<1> QED BY <1>1, <1>3, <1>4 DEF CallsShape, IsCall, Fail

LEMMA FetchEffect ==
    ASSUME CallsShape, NEW op, NEW arg, Fetch(op, arg)
    PROVE  /\ CallsShape'
           /\ \E s \in Slots : /\ calls[s] = Free /\ calls'[s] = Request(op, arg)
                               /\ \A c \in Slots \ {s} : calls'[c] = calls[c]
<1>1. IsCall(Request(op, arg))
  BY DEF IsCall, Request
<1> QED BY <1>1, StartEffect DEF Fetch

LEMMA FreeOrCall ==
    ASSUME CallsShape, NEW c \in Slots
    PROVE  \/ calls[c] = Free /\ calls[c].op = "none"
           \/ calls[c] # Free /\ calls[c] = [op |-> calls[c].op, arg |-> calls[c].arg, at |-> calls[c].at, got |-> calls[c].got]
BY DEF CallsShape, IsCall, Free
-----------------------------------------------------------------------------
(* The share sheet.  One change is out at a time, and an answer that is in  *)
(* is the row: the second request of a narrowing is sent only after the     *)
(* answer that the session is off the feed.  As long as no change has       *)
(* failed the sheet holds the row between two changes; as long as none has  *)
(* failed that published, it knows of a session that is on the feed, and a  *)
(* request that is out leaves such a session Public or Open.                *)

ShareUi == [cur : ShareRows, draft : Levels, confirm : BOOLEAN, busy : BOOLEAN,
            err : BOOLEAN, stale : BOOLEAN, unaware : BOOLEAN]
Patches == [vis : Levels \cup {Nothing}, role : LinkRoles \cup {Nothing}, next : {Nothing}]
Changes(op) ==
    CASE op = "patch" -> Patches
      [] op = "publish" -> {Then("open"), Then(Nothing)}
      [] OTHER -> {Then(v) : v \in Levels \cup {Nothing}}
ShareCall(r) ==
    /\ r.op \in ShareOps /\ r.at \in {"sent", "ok", "failed"}
    /\ r.arg \in Changes(r.op)
    /\ r.at = "ok" => r.got \in ShareRows
Out(c) == calls[c] # Free

StaysOnFeed(row) == row.pub => RANK[row.vis] >= RANK.public
KeepsTheFeed(r) ==
    r.at = "sent" /\ r.op = "patch" /\ r.arg.vis # Nothing /\ server.pub => RANK[r.arg.vis] >= RANK.public
IsTheRow(r) == r.at = "ok" => r.got = server /\ (r.op = "unpublish" => ~server.pub)

ShareBody ==
    /\ server \in ShareRows /\ ui \in ShareUi /\ CallsShape
    /\ \A c, d \in Slots : Out(c) /\ Out(d) => c = d
    /\ ui.busy <=> \E c \in Slots : Out(c)
    /\ \A c \in Slots : Out(c) => ShareCall(calls[c]) /\ IsTheRow(calls[c])
    /\ ~ui.stale /\ ~ui.busy => ui.cur = server
    /\ ~ui.unaware =>
         /\ StaysOnFeed(server)
         /\ ~ui.busy /\ server.pub => ui.cur.pub
         /\ \A c \in Slots : Out(c) => KeepsTheFeed(calls[c])
ShareInv == OnShare => ShareBody

LEMMA ShareStarts == ShareInit => ShareBody
<1> SUFFICES ASSUME NEW v \in Levels, NEW p \in BOOLEAN, p => RANK[v] >= RANK.public,
                    NEW row, row = [vis |-> v, role |-> "viewer", pub |-> p],
                    ui = [cur |-> row, draft |-> v, confirm |-> FALSE, busy |-> FALSE,
                          err |-> FALSE, stale |-> FALSE, unaware |-> FALSE],
                    server = row, calls = [NoCalls EXCEPT ![1] = Free]
             PROVE  ShareBody
  BY DEF ShareInit, Opens
<1>1. row \in ShareRows /\ StaysOnFeed(row)
  BY DEF ShareRows, LinkRoles, StaysOnFeed
<1>2. ui \in ShareUi /\ ui.cur = row /\ ~ui.busy
  BY <1>1 DEF ShareUi
<1>3. calls = [c \in Slots |-> Free]
  BY DEF NoCalls
<1> QED BY <1>1, <1>2, <1>3 DEF ShareBody, CallsShape, IsCall, Out

(* The edits of the sheet itself. *)
LEMMA ShareEdits ==
    ASSUME ShareBody, UNCHANGED <<server, calls>>, ui' \in ShareUi,
           ui'.cur = ui.cur, ui'.busy = ui.busy, ui'.stale = ui.stale, ui'.unaware = ui.unaware
    PROVE  ShareBody'
BY DEF ShareBody, CallsShape, Out, StaysOnFeed, KeepsTheFeed, IsTheRow, ShareCall, Changes

LEMMA ActSends ==
    ASSUME ShareBody, NEW op \in ShareOps, NEW arg \in Changes(op), Act(op, arg),
           op = "patch" /\ arg.vis # Nothing /\ ui.cur.pub => RANK[arg.vis] >= RANK.public
    PROVE  ShareBody'
<1>1. /\ ~ui.busy /\ UNCHANGED server
      /\ ui' = [ui EXCEPT !.busy = TRUE, !.err = FALSE]
      /\ Fetch(op, arg)
  BY DEF Act, Page, Only
<1>2. ui' \in ShareUi /\ ui'.busy /\ ui'.unaware = ui.unaware /\ ui'.cur = ui.cur
  BY <1>1 DEF ShareBody, ShareUi
<1>3. PICK s \in Slots : calls'[s] = Request(op, arg) /\ \A c \in Slots \ {s} : calls'[c] = calls[c]
  BY <1>1, FetchEffect DEF ShareBody
<1>4. CallsShape'
  BY <1>1, FetchEffect DEF ShareBody
<1>5. \A c \in Slots : calls[c] = Free
  BY <1>1 DEF ShareBody, Out
<1>6. ShareCall(Request(op, arg)) /\ IsTheRow(Request(op, arg))' /\ Request(op, arg) # Free
  BY DEF ShareCall, IsTheRow, Request, Free
<1>7. \A c \in Slots : calls'[c] # Free <=> c = s
  BY <1>3, <1>5, <1>6
<1>8. ~ui.unaware => (server.pub => ui.cur.pub) /\ StaysOnFeed(server)
  BY <1>1 DEF ShareBody
<1>9. ~ui.unaware => KeepsTheFeed(calls[s])'
  BY <1>1, <1>3, <1>8 DEF KeepsTheFeed, Request
<1> QED BY <1>1, <1>2, <1>3, <1>4, <1>6, <1>7, <1>8, <1>9 DEF ShareBody, Out, StaysOnFeed, ShareCall

(* The row a served request leaves, and the answer it is. *)
LEMMA ShareServes ==
    ASSUME ShareBody, NEW c \in Slots, ServeShare(c)
    PROVE  ShareBody'
<1> DEFINE a == calls[c].arg
           new == CASE calls[c].op = "publish" -> [server EXCEPT !.pub = TRUE, !.vis = "public"]
                    [] calls[c].op = "unpublish" -> [server EXCEPT !.pub = FALSE, !.vis = "private"]
                    [] OTHER -> [server EXCEPT !.vis = IF a.vis = Nothing THEN @ ELSE a.vis,
                                               !.role = IF a.role = Nothing THEN @ ELSE a.role]
<1>1. /\ calls[c].op \in ShareOps /\ calls[c].at = "sent"
      /\ server' = new /\ Answer(c, new) /\ UNCHANGED ui
  BY DEF ServeShare, Only
<1>2. calls[c].op # "none" /\ Out(c) /\ ShareCall(calls[c])
  BY <1>1 DEF ShareOps, Out, Free, ShareBody
<1>3. server \in ShareRows
  BY DEF ShareBody
<1>4. ~ui.unaware => StaysOnFeed(server) /\ KeepsTheFeed(calls[c])
  BY <1>2 DEF ShareBody
<1>5. /\ new \in ShareRows /\ (calls[c].op = "unpublish" => ~new.pub)
      /\ ~ui.unaware => StaysOnFeed(new)
  <2>1. CASE calls[c].op = "publish"
    <3>1. new = [vis |-> "public", role |-> server.role, pub |-> TRUE]
      BY <1>3, <2>1 DEF ShareRows
    <3> HIDE DEF new
    <3> QED BY <1>3, <2>1, <3>1 DEF ShareRows, StaysOnFeed, Levels, RANK
  <2>2. CASE calls[c].op = "unpublish"
    <3>1. new = [vis |-> "private", role |-> server.role, pub |-> FALSE]
      BY <1>3, <2>2 DEF ShareRows
    <3> HIDE DEF new
    <3> QED BY <1>3, <2>2, <3>1 DEF ShareRows, StaysOnFeed, Levels, RANK
  <2>3. CASE calls[c].op = "patch"
    <3>1. a \in Patches
      BY <1>2, <2>3 DEF ShareCall, Changes
    <3>2. new = [vis |-> IF a.vis = Nothing THEN server.vis ELSE a.vis,
                 role |-> IF a.role = Nothing THEN server.role ELSE a.role, pub |-> server.pub]
      BY <1>3, <2>3 DEF ShareRows
    <3> QED BY <1>1, <1>3, <1>4, <2>3, <3>1, <3>2 DEF ShareRows, StaysOnFeed, Patches, KeepsTheFeed
  <2> QED BY <1>1, <2>1, <2>2, <2>3 DEF ShareOps
<1> HIDE DEF new
<1>6. /\ CallsShape'
      /\ calls'[c] = [op |-> calls[c].op, arg |-> calls[c].arg, at |-> "ok", got |-> new]
      /\ \A d \in Slots \ {c} : calls'[d] = calls[d]
  BY <1>1, <1>2, AnswerEffect DEF ShareBody
<1>7. calls'[c] # Free /\ ShareCall(calls'[c])
  BY <1>2, <1>5, <1>6 DEF ShareCall, Free
<1>8. \A d \in Slots : calls'[d] # Free <=> d = c
  BY <1>2, <1>6, <1>7 DEF ShareBody, Out
<1>9. KeepsTheFeed(calls[c])' /\ IsTheRow(calls[c])'
  BY <1>1, <1>5, <1>6 DEF KeepsTheFeed, IsTheRow
<1>10. ui.busy
  BY <1>2 DEF ShareBody
<1>11. /\ (server \in ShareRows /\ ui \in ShareUi)'
       /\ (ui.busy /\ (~ui.unaware => StaysOnFeed(server)))'
  BY <1>1, <1>5, <1>10 DEF ShareBody, StaysOnFeed
<1> QED BY <1>1, <1>6, <1>7, <1>8, <1>9, <1>11 DEF ShareBody, Out, ShareCall

LEMMA ShareAnswered ==
    ASSUME ShareBody, NEW c \in Slots, ActAnswered(c)
    PROVE  ShareBody'
<1>1. calls[c].op \in ShareOps /\ calls[c].at \in {"ok", "failed"} /\ UNCHANGED server
  BY DEF ActAnswered, Only
<1>2. Out(c) /\ ShareCall(calls[c]) /\ ui.busy
  BY <1>1 DEF ShareOps, Out, Free, ShareBody
<1>3. IsTheRow(calls[c]) /\ (~ui.unaware => StaysOnFeed(server))
  BY <1>2 DEF ShareBody
<1>4. CASE calls[c].at = "failed"
  <2>4. PICK unaware \in BOOLEAN : unaware = (ui.unaware \/ (server.pub /\ ~ui.cur.pub))
    OBVIOUS
  <2>1. ui' = [ui EXCEPT !.busy = FALSE, !.err = TRUE, !.stale = TRUE, !.unaware = unaware] /\ Done(c)
    BY <1>4, <2>4 DEF ActAnswered, Page, ShareBody, ShareUi
  <2>2. ui' \in ShareUi /\ ~ui'.busy /\ ui'.stale /\ ui'.cur = ui.cur /\ ui'.unaware = unaware
    BY <2>1 DEF ShareBody, ShareUi
  <2>3. CallsShape' /\ \A d \in Slots : calls'[d] = Free
    BY <1>2, <2>1, DoneEffect DEF ShareBody, Out
  <2> QED BY <1>1, <1>3, <2>2, <2>3, <2>4 DEF ShareBody, Out, StaysOnFeed
<1>5. CASE calls[c].at = "ok" /\ calls[c].arg.next # Nothing
  <2> DEFINE next == Request("patch", Patch(calls[c].arg.next, Nothing))
  <2>1. ThenFetch(c, "patch", Patch(calls[c].arg.next, Nothing)) /\ UNCHANGED ui
    BY <1>5 DEF ActAnswered
  <2>2. CallsShape' /\ calls'[c] = next /\ \A d \in Slots \ {c} : calls'[d] = calls[d]
    BY <2>1, ThenFetchEffect DEF ShareBody
  <2>3. calls[c].op \in {"publish", "unpublish"}
    BY <1>2, <1>5 DEF ShareCall, ShareOps, Changes, Patches
  <2>4. calls[c].arg.next \in Levels
    BY <1>2, <1>5, <2>3 DEF ShareCall, Changes, Then, Levels
  <2>5. next # Free /\ ShareCall(next) /\ next.at = "sent"
    BY <2>4 DEF ShareCall, ShareOps, Changes, Patches, Patch, Request, Free
  <2>6. KeepsTheFeed(calls[c])'
    <3>1. CASE calls[c].op = "publish"
      <4>1. calls[c].arg.next = "open"
        BY <1>2, <1>5, <3>1 DEF ShareCall, Changes, Then
      <4> QED BY <1>1, <2>2, <4>1 DEF KeepsTheFeed, Request, Patch, RANK
    <3>2. CASE calls[c].op = "unpublish"
      <4>1. ~server.pub
        BY <1>3, <1>5, <3>2 DEF IsTheRow
      <4> QED BY <1>1, <2>2, <4>1 DEF KeepsTheFeed, Request
    <3> QED BY <2>3, <3>1, <3>2
  <2>7. \A d \in Slots : calls'[d] # Free <=> d = c
    BY <1>2, <2>2, <2>5 DEF ShareBody, Out
  <2> HIDE DEF next
  <2> QED BY <1>1, <1>2, <1>3, <2>1, <2>2, <2>5, <2>6, <2>7 DEF ShareBody, Out, StaysOnFeed, IsTheRow
<1>6. CASE calls[c].at = "ok" /\ calls[c].arg.next = Nothing
  <2> DEFINE got == calls[c].got
  <2>1. /\ ui' = [ui EXCEPT !.busy = FALSE, !.cur = got, !.draft = got.vis,
                            !.confirm = @ /\ ~got.pub]
        /\ Done(c)
    BY <1>6 DEF ActAnswered, Page
  <2>2. CallsShape' /\ \A d \in Slots : calls'[d] = Free
    BY <1>2, <2>1, DoneEffect DEF ShareBody, Out
  <2>3. got = server
    BY <1>3, <1>6 DEF IsTheRow
  <2>4. got \in ShareRows
    BY <1>2, <1>6 DEF ShareCall
  <2>5. ui' \in ShareUi /\ ~ui'.busy /\ ui'.cur = got /\ ui'.unaware = ui.unaware
    BY <2>1, <2>4 DEF ShareBody, ShareUi, ShareRows
  <2> HIDE DEF got
  <2> QED BY <1>1, <1>3, <2>2, <2>3, <2>5 DEF ShareBody, Out, StaysOnFeed
<1> QED BY <1>1, <1>4, <1>5, <1>6

LEMMA ShareFails ==
    ASSUME ShareBody, NEW c \in Slots, Fail(c)
    PROVE  ShareBody'
<1>1. /\ CallsShape'
      /\ calls[c] # Free /\ calls[c].at \in {"sent", "ok"}
      /\ calls'[c] = [op |-> calls[c].op, arg |-> calls[c].arg, at |-> "failed", got |-> Nothing]
      /\ \A d \in Slots \ {c} : calls'[d] = calls[d]
      /\ UNCHANGED <<ui, server>>
  BY FailEffect DEF ShareBody
<1>2. ShareCall(calls[c]) /\ ui.busy
  BY <1>1 DEF ShareBody, Out
<1>3. calls'[c] # Free /\ ShareCall(calls'[c]) /\ KeepsTheFeed(calls[c])' /\ IsTheRow(calls[c])'
  BY <1>1, <1>2 DEF ShareCall, KeepsTheFeed, IsTheRow, Free
<1>4. \A d \in Slots : calls'[d] # Free <=> d = c
  BY <1>1, <1>3 DEF ShareBody, Out
<1> QED BY <1>1, <1>2, <1>3, <1>4 DEF ShareBody, Out, StaysOnFeed

LEMMA ShareKeeps ==
    ASSUME ShareBody, ShareNext
    PROVE  ShareBody'
<1>1. CASE (\E v \in Levels : PickLevel(v)) \/ CancelLevel
  <2>1. PICK v \in Levels : ui' = [ui EXCEPT !.draft = v] /\ UNCHANGED <<server, calls>>
    BY <1>1 DEF PickLevel, CancelLevel, Page, Only, ShareBody, ShareUi, ShareRows
  <2> QED BY <2>1, ShareEdits DEF ShareBody, ShareUi
<1>2. CASE AskPublish \/ CancelPublish
  <2>1. PICK b \in BOOLEAN : ui' = [ui EXCEPT !.confirm = b] /\ UNCHANGED <<server, calls>>
    BY <1>2 DEF AskPublish, CancelPublish, Page, Only
  <2> QED BY <2>1, ShareEdits DEF ShareBody, ShareUi
<1>3. CASE ApplyVisibility
  <2>1. ui.draft \in Levels
    BY DEF ShareBody, ShareUi
  <2>2. CASE ui.cur.pub /\ RANK[ui.draft] < RANK.public
    <3> DEFINE arg == Then(IF ui.draft = "private" THEN Nothing ELSE ui.draft)
    <3>1. Act("unpublish", arg) /\ arg \in Changes("unpublish")
      BY <1>3, <2>1, <2>2 DEF ApplyVisibility, Changes
    <3> HIDE DEF arg
    <3> QED BY <3>1, ActSends DEF ShareOps
  <2>3. CASE ~(ui.cur.pub /\ RANK[ui.draft] < RANK.public)
    <3> DEFINE arg == Patch(ui.draft, Nothing)
    <3>1. Act("patch", arg) /\ arg \in Changes("patch")
      BY <1>3, <2>1, <2>3 DEF ApplyVisibility, Changes, Patches, Patch
    <3>2. ui.cur.pub => RANK[arg.vis] >= RANK.public
      BY <2>1, <2>3 DEF Patch, Levels, RANK
    <3> HIDE DEF arg
    <3> QED BY <3>1, <3>2, ActSends DEF ShareOps
  <2> QED BY <2>2, <2>3
<1>4. CASE \E r \in LinkRoles : SetLinkRole(r)
  <2>1. PICK r \in LinkRoles : Act("patch", Patch(Nothing, r))
    BY <1>4 DEF SetLinkRole
  <2> DEFINE arg == Patch(Nothing, r)
  <2>2. arg \in Changes("patch") /\ arg.vis = Nothing
    BY DEF Changes, Patches, Patch
  <2>3. Act("patch", arg)
    BY <2>1
  <2> HIDE DEF arg
  <2> QED BY <2>2, <2>3, ActSends DEF ShareOps
<1>5. CASE Publish
  <2> DEFINE arg == Then(IF ui.cur.vis = "open" THEN "open" ELSE Nothing)
  <2>1. Act("publish", arg) /\ arg \in Changes("publish")
    BY <1>5 DEF Publish, Changes
  <2> HIDE DEF arg
  <2> QED BY <2>1, ActSends DEF ShareOps
<1>6. CASE RemoveFromFeed
  <2>1. Act("unpublish", Then(Nothing)) /\ Then(Nothing) \in Changes("unpublish")
    BY <1>6 DEF RemoveFromFeed, Changes
  <2> QED BY <2>1, ActSends DEF ShareOps
<1>7. CASE \E c \in Slots : ServeShare(c) \/ ActAnswered(c)
  BY <1>7, ShareServes, ShareAnswered
<1> QED BY <1>1, <1>2, <1>3, <1>4, <1>5, <1>6, <1>7 DEF ShareNext

(* A session narrowed below Public is off the feed, whatever failed but a   *)
(* publication.                                                             *)
THEOREM NarrowedOffTheFeed == Spec => []NarrowedIsOffTheFeed
<1>1. Init => ShareInv
  BY InitOn, ShareStarts DEF ShareInv
<1>2. ShareInv /\ [Next]_vars => ShareInv'
  <2> SUFFICES ASSUME ShareInv, [Next]_vars, OnShare' PROVE ShareBody'
    BY DEF ShareInv
  <2>1. OnShare /\ ShareBody
    BY PagesStay DEF OnShare, ShareInv
  <2>2. CASE UNCHANGED vars
    BY <2>1, <2>2 DEF vars, ShareBody, CallsShape, Out, StaysOnFeed, KeepsTheFeed, IsTheRow, ShareCall
  <2> QED BY <2>1, <2>2, NextOn, ShareKeeps, ShareFails
<1>3. ShareInv => NarrowedIsOffTheFeed
  BY DEF ShareInv, ShareBody, NarrowedIsOffTheFeed, StaysOnFeed
<1> QED BY <1>1, <1>2, <1>3, PTL DEF Spec
-----------------------------------------------------------------------------
(* The session view, for any number of events, comments, requests and       *)
(* faults: what the page shows when nothing is under way is the log, a page *)
(* that calls its session live follows it, and a request of the agent is    *)
(* answered once.                                                           *)
-----------------------------------------------------------------------------
(* The largest and the smallest of a finite set of integers. *)

LEMMA MaxOf ==
    ASSUME NEW a \in Int, NEW b \in Int, NEW S \in SUBSET (a..b), S # {}
    PROVE  Max(S) \in S /\ \A y \in S : y <= Max(S)
<1> DEFINE D == {b - x : x \in S}
<1>1. D \in SUBSET Nat
  <2>1. \A x \in S : b - x \in Nat
    OBVIOUS
  <2> QED BY <2>1
<1>2. D # {}
  OBVIOUS
<1>3. PICK s \in D : \A d \in D : s <= d
  BY <1>1, <1>2, Least
<1>4. PICK x \in S : s = b - x
  BY <1>3
<1>5. \A y \in S : x >= y
  <2> TAKE y \in S
  <2>1. s <= b - y /\ x \in Int /\ y \in Int
    BY <1>3
  <2> QED BY <1>4, <2>1
<1>6. Max(S) \in S /\ \A y \in S : Max(S) >= y
  BY <1>5 DEF Max
<1>7. \A y \in S : y \in Int
  OBVIOUS
<1> QED BY <1>6, <1>7

LEMMA TopOf ==
    ASSUME NEW n \in Nat, NEW s, s \subseteq 1..n, s # {}
    PROVE  Max(s) \in s /\ Max(s) \in 1..n /\ \A y \in s : y <= Max(s)
<1>1. s \in SUBSET (1..n) /\ 1 \in Int /\ n \in Int
  OBVIOUS
<1>2. Max(s) \in s /\ \A y \in s : y <= Max(s)
  BY <1>1, MaxOf
<1> QED BY <1>1, <1>2

LEMMA MinOf ==
    ASSUME NEW S \in SUBSET Nat, S # {}
    PROVE  Min(S) \in S /\ \A y \in S : Min(S) <= y
<1>1. \E s \in S : \A y \in S : s <= y
  BY Least
<1> QED BY <1>1 DEF Min
-----------------------------------------------------------------------------
(* addEvents, one event at a time. *)

(* it is the function that FoldLeft defines by recursion: u with the events *)
(* at the indices s of seq added. *)
IsAdding(u, seq, S, it) ==
    it = [s \in SUBSET S |-> IF s = {} THEN u ELSE AddOne(it[s \ {Max(s)}], seq[Max(s)])]
Adding(u, seq, S) == (CHOOSE it : IsAdding(u, seq, S, it))[S]

LEMMA AddingIsFold == \A u, from, to :
    AddEvents(u, from, to) = Adding(u, [k \in 1..(to - from) |-> from + k], 1..(to - from))
BY DEF AddEvents, FoldLeft, MapThenFoldSet, Adding, IsAdding

LEMMA AddingRestricted ==
    ASSUME NEW u, NEW seq, NEW S, NEW T \in SUBSET S, NEW it, IsAdding(u, seq, S, it),
           NEW r, r = [s \in SUBSET T |-> it[s]]
    PROVE  IsAdding(u, seq, T, r)
<1>1. ASSUME NEW s \in SUBSET T
      PROVE  r[s] = IF s = {} THEN u ELSE AddOne(r[s \ {Max(s)}], seq[Max(s)])
  <2>1. s \in SUBSET S /\ s \ {Max(s)} \in SUBSET T
    OBVIOUS
  <2>2. it[s] = IF s = {} THEN u ELSE AddOne(it[s \ {Max(s)}], seq[Max(s)])
    BY <2>1 DEF IsAdding
  <2> QED BY <2>1, <2>2
<1>2. r = [s \in SUBSET T |-> IF s = {} THEN u ELSE AddOne(r[s \ {Max(s)}], seq[Max(s)])]
  <2>1. r = [s \in SUBSET T |-> r[s]]
    OBVIOUS
  <2> QED BY <1>1, <2>1
<1> QED BY <1>2 DEF IsAdding

LEMMA AddingUnique ==
    ASSUME NEW u, NEW seq, NEW n \in Nat, NEW S, S = 1..n, NEW a, NEW b,
           IsAdding(u, seq, S, a), IsAdding(u, seq, S, b)
    PROVE  a = b
<1> DEFINE Good == {m \in Nat : \A s \in SUBSET S : s \subseteq 1..m => a[s] = b[s]}
<1>1. 0 \in Good
  BY DEF IsAdding
<1>2. ASSUME NEW m \in Nat, m \in Good PROVE m + 1 \in Good
  <2>0. m + 1 \in Nat
    OBVIOUS
  <2> SUFFICES ASSUME NEW s \in SUBSET S, s \subseteq 1..(m + 1) PROVE a[s] = b[s]
    BY <2>0, Zenon
  <2>1. CASE s = {}
    BY <2>1 DEF IsAdding
  <2>2. CASE s # {}
    <3>1. Max(s) \in s /\ Max(s) \in 1..(m + 1) /\ \A y \in s : y <= Max(s)
      BY <2>2, TopOf
    <3>2. s \ {Max(s)} \in SUBSET S /\ s \ {Max(s)} \subseteq 1..m
      <4>1. ASSUME NEW y \in s, y # Max(s) PROVE y \in 1..m
        <5>1. y \in 1..(m + 1) /\ y <= Max(s)
          BY <3>1
        <5> QED BY <3>1, <4>1, <5>1
      <4> QED BY <4>1
    <3>3. a[s \ {Max(s)}] = b[s \ {Max(s)}]
      BY <1>2, <3>2
    <3>4. /\ a[s] = AddOne(a[s \ {Max(s)}], seq[Max(s)])
          /\ b[s] = AddOne(b[s \ {Max(s)}], seq[Max(s)])
      BY <2>2 DEF IsAdding
    <3> QED BY <3>3, <3>4
  <2> QED BY <2>1, <2>2
<1>3. Nat \subseteq Good
  <2> HIDE DEF Good
  <2> QED BY <1>1, <1>2, Induction
<1>4. a = [s \in SUBSET S |-> a[s]] /\ b = [s \in SUBSET S |-> b[s]]
  BY DEF IsAdding
<1>5. \A s \in SUBSET S : a[s] = b[s]
  BY <1>3
<1> QED BY <1>4, <1>5

(* Where there is such a function for 1..n, it is the sum of each 1..m. *)
LEMMA AddingStep ==
    ASSUME NEW u, NEW seq, NEW n \in Nat, NEW it, IsAdding(u, seq, 1..n, it), NEW m \in 0..n
    PROVE  it[1..m] = Adding(u, seq, 1..m)
<1> DEFINE r == [s \in SUBSET (1..m) |-> it[s]]
<1>1. IsAdding(u, seq, 1..m, r)
  <2> HIDE DEF r
  <2>1. PICK S, T : S = 1..n /\ T = 1..m
    OBVIOUS
  <2>2. r = [s \in SUBSET T |-> it[s]] /\ T \in SUBSET S /\ IsAdding(u, seq, S, it)
    BY <2>1 DEF r
  <2>3. IsAdding(u, seq, T, r)
    BY <2>2, AddingRestricted
  <2> QED BY <2>1, <2>3
<1> DEFINE c == CHOOSE g : IsAdding(u, seq, 1..m, g)
<1>2. IsAdding(u, seq, 1..m, c)
  BY <1>1
<1>3. c = r
  <2> HIDE DEF c, r
  <2>1. PICK T : T = 1..m
    OBVIOUS
  <2>2. IsAdding(u, seq, T, c) /\ IsAdding(u, seq, T, r) /\ m \in Nat
    BY <1>1, <1>2, <2>1
  <2> QED BY <2>1, <2>2, AddingUnique
<1> QED BY <1>3 DEF Adding

(* One more: the function for 1..n extends to the subsets of 1..(n + 1). *)
LEMMA AddingExtends ==
    ASSUME NEW u, NEW seq, NEW n \in Nat, NEW it, IsAdding(u, seq, 1..n, it)
    PROVE  \E g : IsAdding(u, seq, 1..(n + 1), g)
<1> DEFINE S == 1..(n + 1)
           g == [s \in SUBSET S |-> IF n + 1 \notin s THEN it[s] ELSE AddOne(it[s \ {n + 1}], seq[n + 1])]
<1>1. ASSUME NEW s \in SUBSET S
      PROVE  g[s] = IF s = {} THEN u ELSE AddOne(g[s \ {Max(s)}], seq[Max(s)])
  <2>1. CASE n + 1 \notin s
    <3>1. s \in SUBSET (1..n)
      BY <2>1
    <3>2. it[s] = IF s = {} THEN u ELSE AddOne(it[s \ {Max(s)}], seq[Max(s)])
      BY <3>1 DEF IsAdding
    <3>3. g[s] = it[s] /\ g[s \ {Max(s)}] = it[s \ {Max(s)}]
      BY <2>1
    <3> QED BY <3>2, <3>3
  <2>2. CASE n + 1 \in s
    <3>1. s \subseteq 1..(n + 1) /\ s # {} /\ n + 1 \in Nat
      BY <2>2
    <3>4. Max(s) \in 1..(n + 1) /\ n + 1 <= Max(s)
      BY <2>2, <3>1, TopOf
    <3>2. Max(s) = n + 1
      BY <3>4
    <3>3. g[s] = AddOne(it[s \ {n + 1}], seq[n + 1]) /\ g[s \ {n + 1}] = it[s \ {n + 1}]
      BY <2>2
    <3> QED BY <2>2, <3>2, <3>3
  <2> QED BY <2>1, <2>2
<1>2. g = [s \in SUBSET S |-> IF s = {} THEN u ELSE AddOne(g[s \ {Max(s)}], seq[Max(s)])]
  <2>1. g = [s \in SUBSET S |-> g[s]]
    OBVIOUS
  <2> HIDE DEF g
  <2> QED BY <1>1, <2>1
<1>3. IsAdding(u, seq, 1..(n + 1), g)
  BY <1>2 DEF IsAdding
<1> HIDE DEF g
<1> QED BY <1>3

LEMMA AddingExists ==
    ASSUME NEW u, NEW seq, NEW n \in Nat
    PROVE  \E it : IsAdding(u, seq, 1..n, it)
<1> DEFINE Good == {m \in Nat : \E it : IsAdding(u, seq, 1..m, it)}
<1>1. 0 \in Good
  <2> DEFINE it == [s \in SUBSET (1..0) |-> u]
  <2>1. it = [s \in SUBSET (1..0) |-> IF s = {} THEN u ELSE AddOne(it[s \ {Max(s)}], seq[Max(s)])]
    <3>1. \A s \in SUBSET (1..0) : s = {}
      OBVIOUS
    <3> QED BY <3>1
  <2>2. IsAdding(u, seq, 1..0, it)
    BY <2>1 DEF IsAdding
  <2> HIDE DEF it
  <2> QED BY <2>2
<1>2. ASSUME NEW m \in Nat, m \in Good PROVE m + 1 \in Good
  BY <1>2, AddingExtends
<1>3. Nat \subseteq Good
  <2> HIDE DEF Good
  <2> QED BY <1>1, <1>2, Induction
<1> QED BY <1>3

LEMMA AddingUnfolds ==
    ASSUME NEW u, NEW seq, NEW n \in Nat
    PROVE  /\ Adding(u, seq, 1..0) = u
           /\ Adding(u, seq, 1..(n + 1)) = AddOne(Adding(u, seq, 1..n), seq[n + 1])
<1>1. PICK it : IsAdding(u, seq, 1..(n + 1), it)
  BY AddingExists
<1>2. /\ it[1..0] = Adding(u, seq, 1..0) /\ it[1..n] = Adding(u, seq, 1..n)
      /\ it[1..(n + 1)] = Adding(u, seq, 1..(n + 1))
  BY <1>1, AddingStep
<1>3. it[1..0] = u
  BY <1>1 DEF IsAdding
<1>4. Max(1..(n + 1)) = n + 1
  <2>1. PICK s, k : k = n + 1 /\ s = 1..k
    OBVIOUS
  <2>2. s \subseteq 1..k /\ k \in s /\ k \in Nat
    BY <2>1
  <2>3. Max(s) \in 1..k /\ k <= Max(s)
    BY <2>2, TopOf
  <2> QED BY <2>1, <2>3
<1>5. (1..(n + 1)) \ {n + 1} = 1..n
  OBVIOUS
<1>6. it[1..(n + 1)] = AddOne(it[1..n], seq[n + 1])
  <2>1. PICK S : S = 1..(n + 1) /\ S # {}
    OBVIOUS
  <2>2. IsAdding(u, seq, S, it) /\ Max(S) = n + 1 /\ S \ {n + 1} = 1..n
    BY <1>1, <1>4, <1>5, <2>1
  <2>3. it[S] = AddOne(it[S \ {Max(S)}], seq[Max(S)])
    BY <2>1, <2>2 DEF IsAdding
  <2> QED BY <2>1, <2>2, <2>3
<1> QED BY <1>2, <1>3, <1>6
-----------------------------------------------------------------------------
(* Transcripts: sequences in the order of their places, each id once. *)

Marks == [id : Int, at : Int]
Tidy(s) ==
    /\ s \in Seq(Marks)
    /\ \A i, j \in 1..Len(s) : i < j => s[i].at <= s[j].at
    /\ \A i, j \in 1..Len(s) : s[i].id = s[j].id => i = j
Has(s, m) == \E k \in 1..Len(s) : s[k] = m

LEMMA MarkIs == \A m \in Marks : m = [id |-> m.id, at |-> m.at] /\ m.id \in Int /\ m.at \in Int
BY DEF Marks

LEMMA TidyType ==
    ASSUME NEW s, Tidy(s)
    PROVE  s \in Seq(Marks) /\ Len(s) \in Nat /\ \A k \in 1..Len(s) : s[k] \in Marks /\ s[k].at \in Int
BY MarkIs DEF Tidy

LEMMA JoinedIs ==
    ASSUME NEW a \in Seq(Marks), NEW z \in Seq(Marks), NEW r, r = a \o z
    PROVE  /\ r \in Seq(Marks) /\ Len(r) = Len(a) + Len(z)
           /\ \A k \in 1..Len(a) : r[k] = a[k]
           /\ \A k \in 1..Len(z) : r[Len(a) + k] = z[k]
<1>1. r \in Seq(Marks)
  OBVIOUS
<1>2. Len(r) = Len(a) + Len(z)
  OBVIOUS
<1>3. \A k \in 1..Len(a) : r[k] = a[k]
  OBVIOUS
<1>4. \A k \in 1..Len(z) : r[Len(a) + k] = z[k]
  OBVIOUS
<1> QED BY <1>1, <1>2, <1>3, <1>4

LEMMA CutOf ==
    ASSUME NEW s \in Seq(Marks), NEW i \in 1..(Len(s) + 1), NEW j \in Nat, j <= Len(s), i <= j + 1,
           NEW a, a = SubSeq(s, i, j)
    PROVE  a \in Seq(Marks) /\ Len(a) = j - i + 1 /\ \A k \in 1..(j - i + 1) : a[k] = s[i + k - 1]
<1>1. a \in Seq(Marks)
  OBVIOUS
<1>2. Len(a) = j - i + 1
  OBVIOUS
<1>3. \A k \in 1..(j - i + 1) : a[k] = s[i + k - 1]
  OBVIOUS
<1> QED BY <1>1, <1>2, <1>3

LEMMA RemovedIs ==
    ASSUME NEW s \in Seq(Marks), NEW n \in Nat, n = Len(s), NEW i \in 1..n, NEW r, r = RemoveAt(s, i)
    PROVE  /\ r \in Seq(Marks) /\ Len(r) = n - 1
           /\ \A k \in 1..(i - 1) : r[k] = s[k]
           /\ \A k \in i..(n - 1) : r[k] = s[k + 1]
<1>1. PICK a, z, p, q : a = SubSeq(s, 1, p) /\ z = SubSeq(s, q, n) /\ p = i - 1 /\ q = i + 1
  OBVIOUS
<1>2. a \in Seq(Marks) /\ Len(a) = i - 1 /\ \A k \in 1..(i - 1) : a[k] = s[k]
  <2>1. p \in Nat /\ p <= Len(s) /\ 1 <= p + 1 /\ 1 \in 1..(Len(s) + 1) /\ p - 1 + 1 = i - 1
    BY <1>1
  <2> QED BY <1>1, <2>1, CutOf
<1>3. z \in Seq(Marks) /\ Len(z) = n - i /\ \A k \in 1..(n - i) : z[k] = s[i + k]
  <2>1. q \in 1..(Len(s) + 1) /\ q <= n + 1 /\ n - q + 1 = n - i /\ \A k \in 1..(n - i) : q + k - 1 = i + k
    BY <1>1
  <2> QED BY <1>1, <2>1, CutOf
<1>4. r = a \o z
  BY <1>1 DEF RemoveAt
<1>5. /\ r \in Seq(Marks) /\ Len(r) = Len(a) + Len(z)
      /\ \A k \in 1..Len(a) : r[k] = a[k]
      /\ \A k \in 1..Len(z) : r[Len(a) + k] = z[k]
  <2>1. a \in Seq(Marks) /\ z \in Seq(Marks)
    BY <1>2, <1>3
  <2> QED BY <1>4, <2>1, JoinedIs
<1>6. ASSUME NEW k \in i..(n - 1) PROVE r[k] = s[k + 1]
  <2>1. PICK m \in 1..(n - i) : m = k - i + 1 /\ (i - 1) + m = k /\ i + m = k + 1
    OBVIOUS
  <2>2. r[Len(a) + m] = z[m] /\ Len(a) + m = k
    BY <1>2, <1>3, <1>5, <2>1
  <2>3. z[m] = s[i + m] /\ i + m = k + 1
    BY <1>3, <2>1
  <2> QED BY <2>2, <2>3
<1>7. Len(r) = n - 1 /\ \A k \in 1..(i - 1) : r[k] = a[k]
  BY <1>2, <1>3, <1>5
<1> QED BY <1>2, <1>5, <1>6, <1>7

(* r is s, of length n, with e at i. *)
Inserts(s, n, i, e, r) ==
    /\ r \in Seq(Marks) /\ Len(r) = n + 1
    /\ \A k \in 1..(i - 1) : r[k] = s[k]
    /\ r[i] = e
    /\ \A k \in i..n : r[k + 1] = s[k]

LEMMA InsertedIs ==
    ASSUME NEW s \in Seq(Marks), NEW n \in Nat, n = Len(s), NEW i \in 1..(n + 1), NEW e \in Marks,
           NEW r, r = InsertAt(s, i, e)
    PROVE  Inserts(s, n, i, e, r)
<1>1. PICK a, b, z, p : a = SubSeq(s, 1, p) /\ b = a \o <<e>> /\ z = SubSeq(s, i, n) /\ p = i - 1
  OBVIOUS
<1>2. a \in Seq(Marks) /\ Len(a) = i - 1 /\ \A k \in 1..(i - 1) : a[k] = s[k]
  <2>1. p \in Nat /\ p <= Len(s) /\ 1 <= p + 1 /\ 1 \in 1..(Len(s) + 1) /\ p - 1 + 1 = i - 1
    BY <1>1
  <2> QED BY <1>1, <2>1, CutOf
<1>3. z \in Seq(Marks) /\ Len(z) = n - i + 1 /\ \A k \in 1..(n - i + 1) : z[k] = s[i + k - 1]
  BY <1>1, CutOf
<1>4. b \in Seq(Marks) /\ Len(b) = i /\ (\A k \in 1..(i - 1) : b[k] = a[k]) /\ b[i] = e
  <2>1. <<e>> \in Seq(Marks) /\ Len(<<e>>) = 1 /\ <<e>>[1] = e
    OBVIOUS
  <2>2. PICK o : o = <<e>>
    OBVIOUS
  <2>3. /\ b \in Seq(Marks) /\ Len(b) = (i - 1) + 1
        /\ \A k \in 1..(i - 1) : b[k] = a[k]
        /\ \A k \in 1..1 : b[(i - 1) + k] = o[k]
    BY <1>1, <1>2, <2>1, <2>2, JoinedIs
  <2>4. b[(i - 1) + 1] = o[1]
    BY <2>3
  <2>5. (i - 1) + 1 = i
    OBVIOUS
  <2> QED BY <2>1, <2>2, <2>3, <2>4, <2>5
<1>5. r = b \o z
  BY <1>1 DEF InsertAt
<1>6. /\ r \in Seq(Marks) /\ Len(r) = i + (n - i + 1)
      /\ \A k \in 1..i : r[k] = b[k]
      /\ \A k \in 1..(n - i + 1) : r[i + k] = z[k]
  BY <1>3, <1>4, <1>5, JoinedIs
<1>7. ASSUME NEW k \in i..n PROVE r[k + 1] = s[k]
  <2>1. PICK m \in 1..(n - i + 1) : m = k + 1 - i /\ i + m = k + 1 /\ i + m - 1 = k
    OBVIOUS
  <2>2. r[i + m] = z[m] /\ z[m] = s[i + m - 1]
    BY <1>3, <1>6, <2>1
  <2> QED BY <2>1, <2>2
<1>8. Len(r) = n + 1
  BY <1>6
<1>9. (\A k \in 1..(i - 1) : r[k] = s[k]) /\ r[i] = e
  BY <1>2, <1>4, <1>6
<1> QED BY <1>6, <1>7, <1>8, <1>9 DEF Inserts

LEMMA WithoutTidy ==
    ASSUME NEW s, Tidy(s), NEW id, NEW r, r = Without(s, id)
    PROVE  Tidy(r) /\ \A m : Has(r, m) <=> Has(s, m) /\ m.id # id
<1> DEFINE I == {k \in 1..Len(s) : s[k].id = id}
<1>1. CASE I = {}
  <2>1. r = s
    BY <1>1 DEF Without, RemoveFirstMatch
  <2> QED BY <1>1, <2>1 DEF Has
<1>2. CASE I # {}
  <2>1. r = RemoveAt(s, Min(I))
    BY <1>2 DEF Without, RemoveFirstMatch, SelectInSeq
  <2>2. PICK i \in 1..Len(s) : s[i].id = id /\ r = RemoveAt(s, i)
    <3>1. I \in SUBSET Nat
      OBVIOUS
    <3> QED BY <1>2, <2>1, <3>1, MinOf
  <2>3. s \in Seq(Marks) /\ Len(s) \in Nat
    BY DEF Tidy
  <2> HIDE DEF I
  <2>4. /\ r \in Seq(Marks) /\ Len(r) = Len(s) - 1
        /\ \A k \in 1..(i - 1) : r[k] = s[k]
        /\ \A k \in i..(Len(s) - 1) : r[k] = s[k + 1]
    BY <2>2, <2>3, RemovedIs
  <2> DEFINE from(k) == IF k < i THEN k ELSE k + 1
  <2>5. \A k \in 1..Len(r) : from(k) \in 1..Len(s) /\ from(k) # i /\ r[k] = s[from(k)]
    BY <2>3, <2>4
  <2>6. \A j, k \in 1..Len(r) : (j < k => from(j) < from(k)) /\ (from(j) = from(k) => j = k)
    BY <2>3, <2>4
  <2>7. \A n \in 1..Len(s) : n # i => \E k \in 1..Len(r) : r[k] = s[n]
    <3> TAKE n \in 1..Len(s)
    <3>1. CASE n < i
      BY <2>3, <2>4, <3>1
    <3>2. CASE n > i
      <4>1. n - 1 \in i..(Len(s) - 1) /\ n - 1 \in 1..Len(r) /\ (n - 1) + 1 = n
        BY <2>3, <2>4, <3>2
      <4> QED BY <2>4, <4>1
    <3> QED BY <3>1, <3>2 DEF Inserts
  <2>8. Tidy(r)
    <3> HIDE DEF from
    <3>1. ASSUME NEW j \in 1..Len(r), NEW k \in 1..Len(r), j < k PROVE r[j].at <= r[k].at
      <4>1. from(j) \in 1..Len(s) /\ from(k) \in 1..Len(s) /\ from(j) < from(k)
        BY <2>5, <2>6, <3>1
      <4>2. s[from(j)].at <= s[from(k)].at
        BY <4>1 DEF Tidy
      <4> QED BY <2>5, <4>2
    <3>2. ASSUME NEW j \in 1..Len(r), NEW k \in 1..Len(r), r[j].id = r[k].id PROVE j = k
      <4>1. from(j) \in 1..Len(s) /\ from(k) \in 1..Len(s) /\ s[from(j)].id = s[from(k)].id
        BY <2>5, <3>2
      <4>2. from(j) = from(k)
        BY <4>1 DEF Tidy
      <4> QED BY <2>6, <4>2
    <3> QED BY <2>4, <3>1, <3>2 DEF Tidy
  <2>9. ASSUME NEW m PROVE Has(r, m) <=> Has(s, m) /\ m.id # id
    <3> HIDE DEF from
    <3>1. Has(r, m) => Has(s, m) /\ m.id # id
      BY <2>2, <2>5 DEF Has, Tidy
    <3>2. Has(s, m) /\ m.id # id => Has(r, m)
      BY <2>2, <2>7 DEF Has
    <3> QED BY <3>1, <3>2 DEF Inserts
  <2> QED BY <2>8, <2>9
<1> QED BY <1>1, <1>2

LEMMA PlacedTidy ==
    ASSUME NEW s, Tidy(s), NEW e \in Marks, \A k \in 1..Len(s) : s[k].id # e.id,
           NEW r, r = Placed(s, e)
    PROVE  Tidy(r) /\ \A m : Has(r, m) <=> Has(s, m) \/ m = e
<1> DEFINE I == {k \in 1..Len(s) : s[k].at <= e.at}
           last == IF I # {} THEN Max(I) ELSE 0
<1>1. r = InsertAt(s, last + 1, e)
  BY DEF Placed, SelectLastInSeq
<1>2. s \in Seq(Marks) /\ Len(s) \in Nat
  BY DEF Tidy
<1>3. /\ last \in 0..Len(s)
      /\ \A k \in 1..last : s[k].at <= e.at
      /\ \A k \in (last + 1)..Len(s) : e.at <= s[k].at
  <2>1. CASE I = {}
    <3>1. last = 0
      BY <2>1
    <3>2. ASSUME NEW k \in 1..Len(s) PROVE e.at <= s[k].at
      <4>1. s[k].at \in Int /\ e.at \in Int /\ ~(s[k].at <= e.at)
        BY <2>1, TidyType, MarkIs
      <4> QED BY <4>1
    <3> HIDE DEF last
    <3> QED BY <1>2, <3>1, <3>2
  <2>2. CASE I # {}
    <3>1. last = Max(I)
      BY <2>2
    <3>2. last \in 1..Len(s) /\ last \in I /\ \A k \in I : k <= last
      <4>1. I \subseteq 1..Len(s)
        OBVIOUS
      <4> HIDE DEF I, last
      <4> QED BY <1>2, <2>2, <3>1, <4>1, TopOf
    <3>3. s[last].at <= e.at /\ e.at \in Int
      BY <3>2, MarkIs
    <3>4. \A k \in 1..Len(s) : k > last => ~(s[k].at <= e.at)
      <4>1. \A k \in 1..Len(s) : k \notin I => ~(s[k].at <= e.at)
        OBVIOUS
      <4> HIDE DEF I, last
      <4> QED BY <1>2, <3>2, <4>1
    <3> HIDE DEF I, last
    <3>5. ASSUME NEW k \in 1..last PROVE s[k].at <= e.at
      <4>1. k \in 1..Len(s) /\ (k = last \/ k < last)
        BY <1>2, <3>2
      <4>2. s[k].at <= s[last].at /\ s[k].at \in Int /\ s[last].at \in Int
        BY <3>2, <4>1, TidyType DEF Tidy
      <4> QED BY <3>3, <4>2
    <3>6. ASSUME NEW k \in (last + 1)..Len(s) PROVE e.at <= s[k].at
      <4>1. k \in 1..Len(s) /\ k > last
        BY <1>2, <3>2
      <4>2. ~(s[k].at <= e.at) /\ s[k].at \in Int
        BY <3>4, <4>1, TidyType
      <4> QED BY <3>3, <4>2
    <3> QED BY <1>2, <3>2, <3>5, <3>6
  <2> QED BY <2>1, <2>2
<1> HIDE DEF last
<1> DEFINE i == last + 1
<1>4. i \in 1..(Len(s) + 1)
  BY <1>2, <1>3
<1>5. /\ r \in Seq(Marks) /\ Len(r) = Len(s) + 1
      /\ \A k \in 1..(i - 1) : r[k] = s[k]
      /\ r[i] = e
      /\ \A k \in i..Len(s) : r[k + 1] = s[k]
  <2>1. PICK p \in 1..(Len(s) + 1) : p = i
    BY <1>4
  <2>2. r = InsertAt(s, p, e)
    BY <1>1, <2>1
  <2> HIDE DEF I
  <2>3. /\ r \in Seq(Marks) /\ Len(r) = Len(s) + 1
        /\ \A k \in 1..(p - 1) : r[k] = s[k]
        /\ r[p] = e
        /\ \A k \in p..Len(s) : r[k + 1] = s[k]
    <3>1. PICK n \in Nat : n = Len(s) /\ s \in Seq(Marks) /\ p \in 1..(n + 1)
      BY <1>2
    <3>2. Inserts(s, n, p, e, r)
      BY <2>2, <3>1, InsertedIs
    <3> QED BY <3>1, <3>2 DEF Inserts
  <2> QED BY <2>1, <2>3
<1> DEFINE from(k) == IF k < i THEN k ELSE k - 1
<1>6. \A k \in 1..Len(r) : k # i => from(k) \in 1..Len(s) /\ r[k] = s[from(k)] /\ (k < i <=> from(k) < i)
  <2> TAKE k \in 1..Len(r)
  <2>1. CASE k < i
    BY <1>2, <1>3, <1>5, <2>1
  <2>2. CASE k > i
    <3>1. k - 1 \in i..Len(s) /\ (k - 1) + 1 = k
      BY <1>2, <1>4, <1>5, <2>2
    <3> QED BY <1>2, <1>3, <1>5, <2>2, <3>1
  <2> QED BY <1>2, <1>3, <1>5, <2>1, <2>2
<1>7. \A j, k \in 1..Len(r) : j # i /\ k # i => (j < k => from(j) < from(k)) /\ (from(j) = from(k) => j = k)
  BY <1>2, <1>3, <1>5
<1>8. ASSUME NEW j \in 1..Len(r), NEW k \in 1..Len(r), j < k PROVE r[j].at <= r[k].at
  <2>1. CASE j = i
    <3>1. k # i /\ from(k) \in (last + 1)..Len(s) /\ r[k] = s[from(k)]
      BY <1>2, <1>3, <1>6, <1>8, <2>1
    <3> QED BY <1>3, <1>5, <2>1, <3>1
  <2>2. CASE k = i
    <3>1. j # i /\ from(j) \in 1..last /\ r[j] = s[from(j)]
      BY <1>2, <1>3, <1>6, <1>8, <2>2
    <3> QED BY <1>3, <1>5, <2>2, <3>1
  <2>3. CASE j # i /\ k # i
    <3> HIDE DEF from
    <3> QED BY <1>6, <1>7, <1>8, <2>3 DEF Tidy
  <2> QED BY <2>1, <2>2, <2>3
<1>9. ASSUME NEW j \in 1..Len(r), NEW k \in 1..Len(r), r[j].id = r[k].id PROVE j = k
  <2> HIDE DEF from
  <2>1. CASE j = i \/ k = i
    BY <1>5, <1>6, <1>9, <2>1
  <2>2. CASE j # i /\ k # i
    BY <1>6, <1>7, <1>9, <2>2 DEF Tidy
  <2> QED BY <2>1, <2>2
<1>10. Tidy(r)
  BY <1>5, <1>8, <1>9 DEF Tidy
<1>11. ASSUME NEW m PROVE Has(r, m) <=> Has(s, m) \/ m = e
  <2>1. Has(r, m) => Has(s, m) \/ m = e
    <3> HIDE DEF from
    <3> QED BY <1>5, <1>6 DEF Has
  <2>2. Has(s, m) => Has(r, m)
    <3> SUFFICES ASSUME NEW k \in 1..Len(s) PROVE \E n \in 1..Len(r) : r[n] = s[k]
      BY DEF Has
    <3>1. CASE k < i
      BY <1>2, <1>3, <1>5, <3>1
    <3>2. CASE k >= i
      BY <1>2, <1>3, <1>5, <3>2
    <3> QED BY <1>2, <1>3, <3>1, <3>2
  <2>3. Has(r, e)
    BY <1>2, <1>3, <1>5 DEF Has
  <2> QED BY <2>1, <2>2, <2>3
<1> QED BY <1>10, <1>11
-----------------------------------------------------------------------------
(* What the page shows: events of the log at their places, up to the last   *)
(* one, and echoes.                                                         *)

SessFields == {"meta", "events", "last", "echoes", "sent", "gate", "err", "failed", "unsent",
               "stream", "pos", "bar"}
SessUi(u) == u = [f \in SessFields |-> u[f]]
LogKinds == {"reply", "ask", "hi", "decision"}

Transcript(u) ==
    /\ Tidy(u.events) /\ u.sent \in Nat /\ u.last \in Nat
    /\ \A k \in 1..Len(u.events) : \/ u.events[k].id \in 1..u.last /\ u.events[k] = At(u.events[k].id)
                                   \/ u.events[k].id \in u.echoes
    /\ \A k \in 1..u.last : Has(u.events, At(k))
    /\ u.echoes \subseteq (0 - u.sent)..(0 - 1)

(* The comments in the log that the page has not got to. *)
Unseen(last, log) == {k \in (last + 1)..Len(log) : log[k] = "hi"}

LEMMA AtIsMark == \A k \in Int : At(k) \in Marks /\ At(k).id = k /\ At(k).at = 2 * k
BY DEF At, Marks

LEMMA EchoIsOld ==
    ASSUME NEW u, Transcript(u), u.echoes # {}
    PROVE  Max(u.echoes) \in u.echoes /\ Max(u.echoes) \in Int /\ Max(u.echoes) < 0
<1>1. PICK a, b : a = 0 - u.sent /\ b = 0 - 1 /\ a \in Int /\ b \in Int
  BY DEF Transcript
<1>2. u.echoes \in SUBSET (a..b)
  BY <1>1 DEF Transcript
<1>3. Max(u.echoes) \in u.echoes
  BY <1>1, <1>2, MaxOf
<1> QED BY <1>1, <1>2, <1>3

LEMMA ShownIsSeen ==
    ASSUME NEW u, Transcript(u), NEW k \in Nat \ {0}
    PROVE  IsShown(u, k) <=> k <= u.last
<1>1. u.events \in Seq(Marks) /\ DOMAIN u.events = 1..Len(u.events) /\ u.last \in Nat
  BY DEF Transcript, Tidy
<1>2. ASSUME IsShown(u, k) PROVE k <= u.last
  <2>1. PICK j \in 1..Len(u.events) : u.events[j].id = k
    BY <1>1, <1>2 DEF IsShown
  <2>2. k \notin u.echoes
    BY DEF Transcript
  <2> QED BY <1>1, <2>1, <2>2 DEF Transcript
<1>3. ASSUME k <= u.last PROVE IsShown(u, k)
  <2>1. k \in 1..u.last
    BY <1>1, <1>3
  <2>2. PICK j \in 1..Len(u.events) : u.events[j] = At(k)
    BY <2>1 DEF Transcript, Has
  <2>3. u.events[j].id = k /\ j \in DOMAIN u.events
    <3>1. k \in Int
      OBVIOUS
    <3> QED BY <1>1, <2>2, <3>1, AtIsMark
  <2> QED BY <2>3 DEF IsShown
<1> QED BY <1>2, <1>3

(* v has the fields of u, other than these four. *)
Same(u, v) == \A f \in SessFields \ {"events", "last", "echoes"} : v[f] = u[f]

(* One event more, or one that is there. *)
LEMMA AddOneFields ==
    ASSUME NEW u, SessUi(u), NEW seq, NEW v, v = AddOne(u, seq), ~IsShown(u, seq),
           NEW copy, copy = (server.log[seq] = "hi" /\ u.echoes # {})
    PROVE  /\ SessUi(v) /\ Same(u, v)
           /\ v.echoes = (IF copy THEN u.echoes \ {Max(u.echoes)} ELSE u.echoes)
           /\ v.events = Placed(IF copy THEN Without(u.events, Max(u.echoes)) ELSE u.events, At(seq))
           /\ v.last = (IF seq > u.last THEN seq ELSE u.last)
<1>1. PICK e, s, l : /\ e = (IF copy THEN u.echoes \ {Max(u.echoes)} ELSE u.echoes)
                     /\ s = Placed(IF copy THEN Without(u.events, Max(u.echoes)) ELSE u.events, At(seq))
                     /\ l = (IF seq > u.last THEN seq ELSE u.last)
  OBVIOUS
<1>2. v = [u EXCEPT !.echoes = e, !.events = s, !.last = l]
  BY <1>1 DEF AddOne, SessUi, SessFields
<1>3. SessUi(v) /\ Same(u, v) /\ v.echoes = e /\ v.events = s /\ v.last = l
  BY <1>2 DEF SessUi, SessFields, Same
<1> QED BY <1>1, <1>3

LEMMA ShownAlready ==
    ASSUME NEW u, Transcript(u), NEW seq \in Nat \ {0}, seq <= u.last
    PROVE  AddOne(u, seq) = u
BY ShownIsSeen DEF AddOne

(* One event more, and one echo less for a comment. *)
GrownBy(u, v, seq) ==
    /\ SessUi(v) /\ Same(u, v) /\ Transcript(v) /\ v.last = seq
    /\ v.echoes \in SUBSET u.echoes
    /\ server.log[seq] = "hi" /\ u.echoes # {} => \E x \in u.echoes : v.echoes = u.echoes \ {x}

LEMMA AddOneNext ==
    ASSUME NEW u, SessUi(u), Transcript(u), NEW seq, seq = u.last + 1, NEW v, v = AddOne(u, seq)
    PROVE  GrownBy(u, v, seq)
<1>1. u.last \in Nat /\ seq \in Nat \ {0} /\ seq \in Int
  BY DEF Transcript
<1>2. ~IsShown(u, seq)
  BY <1>1, ShownIsSeen
<1>3. PICK copy : copy = (server.log[seq] = "hi" /\ u.echoes # {})
  OBVIOUS
<1>4. PICK x, t : x = Max(u.echoes) /\ t = IF copy THEN Without(u.events, x) ELSE u.events
  OBVIOUS
<1>5. /\ SessUi(v) /\ Same(u, v)
      /\ v.echoes = (IF copy THEN u.echoes \ {x} ELSE u.echoes)
      /\ v.events = Placed(t, At(seq))
      /\ v.last = seq
  <2>1. seq > u.last
    BY <1>1
  <2> QED BY <1>2, <1>3, <1>4, <2>1, AddOneFields
<1>6. copy => x \in u.echoes /\ x \in Int /\ x < 0
  BY <1>3, <1>4, EchoIsOld
<1>7. Tidy(t) /\ \A m : Has(t, m) <=> Has(u.events, m) /\ (copy => m.id # x)
  <2>1. Tidy(u.events)
    BY DEF Transcript
  <2> QED BY <1>3, <1>4, <2>1, WithoutTidy
<1>8. At(seq) \in Marks /\ At(seq).id = seq
  BY <1>1, AtIsMark
<1>9. \A k \in 1..Len(t) : t[k].id # At(seq).id
  <2> SUFFICES ASSUME NEW k \in 1..Len(t), t[k].id = seq PROVE FALSE
    BY <1>8
  <2>1. Has(u.events, t[k])
    BY <1>7 DEF Has
  <2>2. PICK j \in 1..Len(u.events) : u.events[j] = t[k]
    BY <2>1 DEF Has
  <2>3. seq \notin 1..u.last /\ seq \notin u.echoes
    BY <1>1 DEF Transcript
  <2> QED BY <2>2, <2>3 DEF Transcript
<1>10. Tidy(v.events) /\ \A m : Has(v.events, m) <=> Has(t, m) \/ m = At(seq)
  BY <1>5, <1>7, <1>8, <1>9, PlacedTidy
<1>11. v.sent = u.sent
  BY <1>5 DEF Same, SessFields
<1>12. ASSUME NEW k \in 1..Len(v.events)
       PROVE  \/ v.events[k].id \in 1..v.last /\ v.events[k] = At(v.events[k].id)
              \/ v.events[k].id \in v.echoes
  <2>1. Has(v.events, v.events[k])
    BY DEF Has
  <2>2. CASE v.events[k] = At(seq)
    BY <1>1, <1>5, <1>8, <2>2
  <2>3. CASE Has(t, v.events[k])
    <3>1. Has(u.events, v.events[k]) /\ (copy => v.events[k].id # x)
      BY <1>7, <2>3
    <3>2. PICK j \in 1..Len(u.events) : u.events[j] = v.events[k]
      BY <3>1 DEF Has
    <3>3. \/ v.events[k].id \in 1..u.last /\ v.events[k] = At(v.events[k].id)
          \/ v.events[k].id \in u.echoes
      BY <3>2 DEF Transcript
    <3>4. 1..u.last \subseteq 1..v.last
      BY <1>1, <1>5
    <3> QED BY <1>5, <3>1, <3>3, <3>4
  <2> QED BY <1>10, <2>1, <2>2, <2>3
<1>13. ASSUME NEW k \in 1..v.last PROVE Has(v.events, At(k))
  <2>1. CASE k = seq
    BY <1>10, <2>1
  <2>2. CASE k # seq
    <3>1. k \in 1..u.last /\ k \in Int
      BY <1>1, <1>5, <2>2
    <3>2. Has(u.events, At(k)) /\ At(k).id = k
      BY <3>1, AtIsMark DEF Transcript
    <3>3. Has(t, At(k))
      <4>1. copy => k # x
        BY <1>6, <3>1
      <4> QED BY <1>7, <3>2, <4>1
    <3> QED BY <1>10, <3>3
  <2> QED BY <2>1, <2>2
<1>14. v.echoes \in SUBSET u.echoes /\ v.echoes \subseteq (0 - v.sent)..(0 - 1)
  BY <1>5, <1>11 DEF Transcript
<1>15. Transcript(v)
  <2>1. v.sent \in Nat /\ v.last \in Nat
    BY <1>1, <1>5, <1>11 DEF Transcript
  <2> QED BY <1>10, <1>12, <1>13, <1>14, <2>1 DEF Transcript
<1>16. server.log[seq] = "hi" /\ u.echoes # {} => \E y \in u.echoes : v.echoes = u.echoes \ {y}
  BY <1>3, <1>5, <1>6
<1> QED BY <1>5, <1>14, <1>15, <1>16 DEF GrownBy

(* At most d echoes more than there are comments to come. *)
Owes(d, u) == Cardinality(u.echoes) <= d + Cardinality(Unseen(u.last, server.log))

LEMMA EchoesAreFinite ==
    ASSUME NEW u, Transcript(u)
    PROVE  IsFiniteSet(u.echoes) /\ Cardinality(u.echoes) \in Nat
<1>1. PICK a, b : a = 0 - u.sent /\ b = 0 - 1 /\ a \in Int /\ b \in Int
  BY DEF Transcript
<1>2. IsFiniteSet(a..b) /\ u.echoes \subseteq a..b
  BY <1>1, FS_Interval DEF Transcript
<1> QED BY <1>2, FS_Subset, FS_CardinalityType

LEMMA UnseenIsFinite ==
    ASSUME NEW last \in Nat, NEW log \in Seq(LogKinds)
    PROVE  IsFiniteSet(Unseen(last, log)) /\ Cardinality(Unseen(last, log)) \in Nat
<1>1. last + 1 \in Int /\ Len(log) \in Int
  OBVIOUS
<1>2. IsFiniteSet((last + 1)..Len(log)) /\ Unseen(last, log) \subseteq (last + 1)..Len(log)
  BY <1>1, FS_Interval DEF Unseen
<1> QED BY <1>2, FS_Subset, FS_CardinalityType

LEMMA OwesNext ==
    ASSUME server.log \in Seq(LogKinds), NEW u, Transcript(u), u.last < Len(server.log), NEW v,
           v.last = u.last + 1, v.echoes \in SUBSET u.echoes,
           server.log[u.last + 1] = "hi" /\ u.echoes # {} => \E x \in u.echoes : v.echoes = u.echoes \ {x},
           NEW d \in Nat, Owes(d, u)
    PROVE  Owes(d, v)
<1>1. PICK log, a, b : log = server.log /\ a = Unseen(u.last, log) /\ b = Unseen(v.last, log)
  OBVIOUS
<1>2. u.last \in Nat /\ u.last + 1 \in Nat /\ v.last \in Nat /\ log \in Seq(LogKinds) /\ Len(log) \in Nat
  BY <1>1 DEF Transcript
<1>3. IsFiniteSet(a) /\ Cardinality(a) \in Nat /\ IsFiniteSet(b) /\ Cardinality(b) \in Nat
  BY <1>1, <1>2, UnseenIsFinite
<1>4. IsFiniteSet(u.echoes) /\ Cardinality(u.echoes) \in Nat
  BY EchoesAreFinite
<1>5. IsFiniteSet(v.echoes) /\ Cardinality(v.echoes) \in Nat /\ Cardinality(v.echoes) <= Cardinality(u.echoes)
  BY <1>4, FS_Subset, FS_CardinalityType
<1>6. Cardinality(u.echoes) <= d + Cardinality(a)
  BY <1>1 DEF Owes
<1>7. CASE log[u.last + 1] = "hi" /\ u.echoes # {}
  <2>1. PICK x \in u.echoes : v.echoes = u.echoes \ {x}
    BY <1>1, <1>7
  <2>2. Cardinality(v.echoes) = Cardinality(u.echoes) - 1
    BY <1>4, <2>1, FS_RemoveElement
  <2>3. b = a \ {u.last + 1} /\ u.last + 1 \in a
    BY <1>1, <1>2, <1>7 DEF Unseen
  <2>4. Cardinality(b) = Cardinality(a) - 1
    BY <1>3, <2>3, FS_RemoveElement
  <2>5. Cardinality(v.echoes) <= d + Cardinality(b)
    BY <1>3, <1>4, <1>5, <1>6, <2>2, <2>4
  <2> QED BY <1>1, <2>5 DEF Owes
<1>8. CASE u.echoes = {}
  <2>1. Cardinality(v.echoes) = 0
    BY <1>8, FS_EmptySet
  <2>2. Cardinality(v.echoes) <= d + Cardinality(b)
    BY <1>3, <2>1
  <2> QED BY <1>1, <2>2 DEF Owes
<1>9. CASE log[u.last + 1] # "hi"
  <2>1. b = a
    BY <1>1, <1>2, <1>9 DEF Unseen
  <2>2. Cardinality(v.echoes) <= d + Cardinality(b)
    BY <1>3, <1>4, <1>5, <1>6, <2>1
  <2> QED BY <1>1, <2>2 DEF Owes
<1> QED BY <1>7, <1>8, <1>9

(* The events up to to, added to u. *)
Grown(u, v, to) ==
    /\ SessUi(v) /\ Transcript(v) /\ Same(u, v)
    /\ v.last = IF to > u.last THEN to ELSE u.last
    /\ to <= u.last => v = u
    /\ \A d \in Nat : Owes(d, u) => Owes(d, v)

LEMMA AddOneGrows ==
    ASSUME server.log \in Seq(LogKinds), NEW u, Transcript(u), NEW w, NEW n \in Nat, Grown(u, w, n),
           n < Len(server.log), u.last <= Len(server.log), NEW v, v = AddOne(w, n + 1)
    PROVE  Grown(u, v, n + 1)
<1>1. /\ SessUi(w) /\ Transcript(w) /\ Same(u, w) /\ w.last = (IF n > u.last THEN n ELSE u.last)
      /\ \A d \in Nat : Owes(d, u) => Owes(d, w)
  BY DEF Grown
<1>2. u.last \in Nat /\ w.last \in Nat /\ n + 1 \in Nat \ {0}
  BY <1>1 DEF Transcript
<1>3. CASE n + 1 <= u.last
  <2>1. w.last = u.last /\ n + 1 <= w.last /\ w = u
    <3>1. n <= u.last
      BY <1>2, <1>3
    <3>2. w = u
      BY <3>1 DEF Grown
    <3> QED BY <1>3, <3>2
  <2>2. v = w
    BY <1>1, <1>2, <2>1, ShownAlready
  <2>3. v.last = IF n + 1 > u.last THEN n + 1 ELSE u.last
    BY <1>2, <1>3, <2>1, <2>2
  <2>4. SessUi(v) /\ Transcript(v) /\ Same(u, v) /\ \A d \in Nat : Owes(d, u) => Owes(d, v)
    BY <1>1, <2>2
  <2>5. v = u
    BY <2>1, <2>2
  <2> QED BY <2>3, <2>4, <2>5 DEF Grown
<1>4. CASE n >= u.last
  <2>1. w.last = n
    BY <1>1, <1>2, <1>4
  <2>2. PICK seq : seq = n + 1
    OBVIOUS
  <2>3. /\ SessUi(v) /\ Same(w, v) /\ Transcript(v) /\ v.last = seq
        /\ v.echoes \in SUBSET w.echoes
        /\ server.log[seq] = "hi" /\ w.echoes # {} => \E x \in w.echoes : v.echoes = w.echoes \ {x}
    <3>1. seq = w.last + 1 /\ v = AddOne(w, seq)
      BY <2>1, <2>2
    <3>2. GrownBy(w, v, seq)
      BY <1>1, <3>1, AddOneNext
    <3> QED BY <3>2 DEF GrownBy
  <2>4. ASSUME NEW d \in Nat, Owes(d, u) PROVE Owes(d, v)
    <3>1. Owes(d, w)
      BY <1>1, <2>4
    <3>2. w.last < Len(server.log) /\ v.last = w.last + 1
      BY <2>1, <2>2, <2>3
    <3>3. server.log[w.last + 1] = "hi" /\ w.echoes # {} => \E x \in w.echoes : v.echoes = w.echoes \ {x}
      BY <2>1, <2>2, <2>3
    <3> QED BY <1>1, <2>3, <3>1, <3>2, <3>3, OwesNext
  <2>5. v.last = IF n + 1 > u.last THEN n + 1 ELSE u.last
    BY <1>2, <1>4, <2>2, <2>3
  <2>6. Same(u, v)
    BY <1>1, <2>3 DEF Same
  <2>7. ~(n + 1 <= u.last)
    BY <1>2, <1>4
  <2> QED BY <2>3, <2>4, <2>5, <2>6, <2>7 DEF Grown
<1> QED BY <1>2, <1>3, <1>4

LEMMA AddEventsGrows ==
    ASSUME server.log \in Seq(LogKinds), NEW u, SessUi(u), Transcript(u), u.last <= Len(server.log),
           NEW from \in Nat, from <= u.last, NEW to \in Nat, to <= Len(server.log)
    PROVE  Grown(u, AddEvents(u, from, to), to)
<1>1. PICK n, seq : n = to - from /\ seq = [k \in 1..n |-> from + k]
  OBVIOUS
<1>2. AddEvents(u, from, to) = Adding(u, seq, 1..n)
  BY <1>1, AddingIsFold
<1>3. Len(server.log) \in Nat /\ u.last \in Nat /\ n \in Int
  BY <1>1 DEF Transcript
<1>4. \A m \in Nat : m <= u.last => Grown(u, u, m)
  BY <1>3 DEF Grown, Same
<1> DEFINE Good == {m \in Nat : m <= n => Grown(u, Adding(u, seq, 1..m), from + m)}
<1>5. 0 \in Good
  <2>1. Adding(u, seq, 1..0) = u
    BY AddingUnfolds
  <2>2. Grown(u, u, from)
    BY <1>4
  <2>3. from + 0 = from
    OBVIOUS
  <2> QED BY <2>1, <2>2, <2>3
<1>6. ASSUME NEW m \in Nat, m \in Good PROVE m + 1 \in Good
  <2> SUFFICES ASSUME m + 1 <= n PROVE Grown(u, Adding(u, seq, 1..(m + 1)), from + (m + 1))
    OBVIOUS
  <2>1. Grown(u, Adding(u, seq, 1..m), from + m)
    BY <1>3, <1>6
  <2>2. Adding(u, seq, 1..(m + 1)) = AddOne(Adding(u, seq, 1..m), seq[m + 1])
    BY AddingUnfolds
  <2>3. PICK k \in Nat : k = from + m
    OBVIOUS
  <2>4. seq[m + 1] = k + 1 /\ k < Len(server.log) /\ from + (m + 1) = k + 1
    BY <1>1, <1>3, <2>3
  <2>5. PICK w, v : w = Adding(u, seq, 1..m) /\ v = Adding(u, seq, 1..(m + 1))
    OBVIOUS
  <2>6. Grown(u, w, k) /\ v = AddOne(w, k + 1)
    BY <2>1, <2>2, <2>3, <2>4, <2>5
  <2>7. Grown(u, v, k + 1)
    BY <2>4, <2>6, AddOneGrows
  <2> QED BY <2>4, <2>5, <2>7
<1>7. Nat \subseteq Good
  <2> HIDE DEF Good
  <2> QED BY <1>5, <1>6, Induction
<1>8. CASE n \in Nat
  <2>1. Grown(u, Adding(u, seq, 1..n), from + n)
    <3>1. n \in Good
      BY <1>7, <1>8
    <3> QED BY <1>3, <3>1
  <2>2. from + n = to
    BY <1>1
  <2> QED BY <1>2, <2>1, <2>2
<1>9. CASE n \notin Nat
  <2>1. 1..n = 1..0
    BY <1>3, <1>9
  <2>2. Adding(u, seq, 1..n) = u
    BY <2>1, AddingUnfolds
  <2>3. to <= u.last
    BY <1>1, <1>3, <1>9
  <2>4. Grown(u, u, to)
    BY <1>4, <2>3
  <2> QED BY <1>2, <2>2, <2>4
<1> QED BY <1>8, <1>9
-----------------------------------------------------------------------------
(* The invariant.  A page that is live has a stream or the error; one that  *)
(* has ended shows all of a log that no longer grows; a load that is out    *)
(* starts within what is shown and, when it says that the session ended,    *)
(* has all of the log.                                                      *)

Statuses == {"live", "ended", "gone"}
Held(s) ==
    /\ s = [log |-> s.log, status |-> s.status, answered |-> s.answered]
    /\ s.log \in Seq(LogKinds) /\ s.status \in Statuses
Followed(u) == u.stream \in {"connecting", "open", "dropped"} \/ u.err
PageFits(u, s) ==
    /\ SessUi(u) /\ Transcript(u)
    /\ u.last <= Len(s.log) /\ u.pos \in 0..u.last
    /\ u.meta \in {Nothing, "live", "ended"}
    /\ u.meta = "live" => u.stream # "off"
    /\ u.meta = "live" /\ s.status # "gone" => Followed(u)
    /\ u.meta = "ended" => s.status # "live" /\ u.last = Len(s.log)
CallFits(r, last, s) ==
    /\ r.op = "comment" => r.arg \in Int /\ r.arg < 0
    /\ r.op = "load" =>
         /\ r.arg \in 0..last /\ r.at \in {"sent", "ok", "failed"}
         /\ r.at = "ok" => /\ r.got.upto \in 0..Len(s.log) /\ r.got.status \in Statuses
                           /\ r.got.status = "ended" => s.status # "live" /\ r.got.upto = Len(s.log)
CallsFit == \A c \in Slots : CallFits(calls[c], ui.last, server)

(* Comments that are not in the log: an echo is owed one, or one in the log *)
(* that the page has not got to, unless a comment has been taken back.      *)
Waits(r) == r.op = "comment" /\ r.at \in {"sent", "failed"}
Pending == {c \in Slots : Waits(calls[c])}
Owing == ~ui.unsent => Owes(Cardinality(Pending), ui)

SessBody == CallsShape /\ Held(server) /\ PageFits(ui, server) /\ CallsFit /\ Owing
SessInv == OnSession => SessBody

(* What may become of the API's state. *)
Moves(s, t) ==
    /\ Held(t) /\ Len(s.log) <= Len(t.log)
    /\ \A k \in 1..Len(s.log) : t.log[k] = s.log[k]
    /\ s.status # "live" => t.status # "live" /\ Len(t.log) = Len(s.log)
    /\ s.status = "gone" => t.status = "gone"

LEMMA Numbers ==
    ASSUME SessBody
    PROVE  /\ ui.last \in Nat /\ ui.pos \in Nat /\ ui.sent \in Nat /\ Len(server.log) \in Nat
           /\ ui.last <= Len(server.log) /\ ui.pos <= ui.last
           /\ server.log \in Seq(LogKinds) /\ SessUi(ui) /\ Transcript(ui)
BY DEF SessBody, Held, PageFits, Transcript

LEMMA PendingIsFinite == IsFiniteSet(Pending) /\ Cardinality(Pending) \in Nat
<1>1. 1 \in Int /\ MaxCalls \in Int
  BY BrowserAssumption
<1>2. IsFiniteSet(1..MaxCalls)
  BY <1>1, FS_Interval
<1>3. Pending \subseteq 1..MaxCalls
  BY DEF Pending, Slots
<1> QED BY <1>2, <1>3, FS_Subset, FS_CardinalityType

LEMMA MovesNot == SessBody => Moves(server, server)
BY DEF SessBody, Moves

LEMMA Appended ==
    ASSUME SessBody, server.status = "live", NEW x \in LogKinds, NEW a,
           NEW t, t = [log |-> Append(server.log, x), status |-> "live", answered |-> a]
    PROVE  Moves(server, t) /\ t.log = Append(server.log, x)
<1>1. server.log \in Seq(LogKinds)
  BY Numbers
<1>2. PICK log : log = Append(server.log, x)
  OBVIOUS
<1>3. log \in Seq(LogKinds) /\ Len(log) = Len(server.log) + 1 /\ \A k \in 1..Len(server.log) : log[k] = server.log[k]
  BY <1>1, <1>2
<1>4. Held(t) /\ t.log = log
  BY <1>2, <1>3 DEF Held, Statuses
<1> QED BY <1>1, <1>2, <1>3, <1>4 DEF Moves

LEMMA PageSame ==
    ASSUME NEW u, NEW s, PageFits(u, s), NEW v, SessUi(v),
           \A f \in {"events", "last", "echoes", "sent", "meta"} : v[f] = u[f],
           v.pos \in 0..v.last, v.meta = "live" => v.stream # "off",
           v.meta = "live" /\ s.status # "gone" => Followed(v)
    PROVE  PageFits(v, s)
<1>1. v.events = u.events /\ v.last = u.last /\ v.echoes = u.echoes /\ v.sent = u.sent /\ v.meta = u.meta
  OBVIOUS
<1>2. Transcript(v)
  BY <1>1 DEF PageFits, Transcript
<1> QED BY <1>1, <1>2 DEF PageFits

LEMMA PageMoves ==
    ASSUME SessBody, NEW t, Moves(server, t)
    PROVE  PageFits(ui, t) /\ \A r : CallFits(r, ui.last, server) => CallFits(r, ui.last, t)
<1>1. ui.last <= Len(t.log) /\ Len(t.log) \in Nat
  BY Numbers DEF Moves, Held
<1>2. PageFits(ui, t)
  BY <1>1 DEF SessBody, PageFits, Moves
<1>3. ASSUME NEW r, CallFits(r, ui.last, server) PROVE CallFits(r, ui.last, t)
  BY <1>1, <1>3, Numbers DEF CallFits, Moves
<1> QED BY <1>2, <1>3

(* One request changes, and the page goes on. *)
LEMMA CallsKept ==
    ASSUME SessBody, Moves(server, server'), ui'.last \in Nat, ui.last <= ui'.last,
           NEW c \in Slots, \A d \in Slots \ {c} : calls'[d] = calls[d],
           CallFits(calls'[c], ui'.last, server')
    PROVE  CallsFit'
<1> SUFFICES ASSUME NEW d \in Slots PROVE CallFits(calls'[d], ui'.last, server')
  BY DEF CallsFit
<1>1. CASE d = c
  BY <1>1
<1>2. CASE d # c
  <2>1. CallFits(calls[d], ui.last, server)
    BY DEF SessBody, CallsFit
  <2>2. CallFits(calls[d], ui.last, server')
    BY <2>1, PageMoves
  <2>3. 0..ui.last \subseteq 0..ui'.last
    BY Numbers
  <2> QED BY <1>2, <2>2, <2>3 DEF CallFits
<1> QED BY <1>1, <1>2

LEMMA CallsAllKept ==
    ASSUME SessBody, Moves(server, server'), ui'.last \in Nat, ui.last <= ui'.last, UNCHANGED calls
    PROVE  CallsShape' /\ CallsFit' /\ Pending' = Pending
<1>1. 1 \in Slots
  BY BrowserAssumption DEF Slots
<1>2. CallFits(calls[1], ui.last, server)
  BY <1>1 DEF SessBody, CallsFit
<1>3. CallFits(calls[1], ui'.last, server')
  <2>1. CallFits(calls[1], ui.last, server')
    BY <1>2, PageMoves
  <2>2. 0..ui.last \subseteq 0..ui'.last
    BY Numbers
  <2> QED BY <2>1, <2>2 DEF CallFits
<1>4. CallsFit'
  BY <1>1, <1>3, CallsKept
<1> QED BY <1>4 DEF SessBody, CallsShape, Pending

LEMMA PendingKept ==
    ASSUME NEW c \in Slots, \A d \in Slots \ {c} : calls'[d] = calls[d], Waits(calls'[c]) <=> Waits(calls[c])
    PROVE  Pending' = Pending
BY DEF Pending

(* A load is asked for. *)
LEMMA LoadSent ==
    ASSUME SessBody, NEW n, n \in 0..ui.last, ui'.last = ui.last, UNCHANGED server, Fetch("load", n)
    PROVE  CallsShape' /\ CallsFit' /\ Pending' = Pending
<1>1. PICK s \in Slots : /\ calls[s] = Free /\ calls'[s] = Request("load", n)
                         /\ \A c \in Slots \ {s} : calls'[c] = calls[c]
  BY FetchEffect DEF SessBody
<1>2. CallsShape'
  BY FetchEffect DEF SessBody
<1>3. CallFits(calls'[s], ui'.last, server')
  BY <1>1 DEF CallFits, Request
<1>4. Moves(server, server')
  BY MovesNot
<1>5. CallsFit'
  BY <1>1, <1>3, <1>4, Numbers, CallsKept
<1>6. Pending' = Pending
  <2>1. ~Waits(calls[s]) /\ ~Waits(calls'[s])
    BY <1>1 DEF Waits, Free, Request
  <2> QED BY <1>1, <2>1, PendingKept
<1> QED BY <1>2, <1>5, <1>6

LEMMA OwesAsBefore ==
    ASSUME SessBody, ui'.last = ui.last, ui'.echoes = ui.echoes, ui'.unsent = ui.unsent,
           server'.log = server.log, Pending' = Pending
    PROVE  Owing'
BY DEF SessBody, Owing, Owes

LEMMA ShowsEffect ==
    ASSUME NEW u, SessUi(u), Shows(u)
    PROVE  /\ SessUi(ui') /\ \A f \in SessFields \ {"stream", "pos", "bar"} : ui'[f] = u[f]
           /\ u.meta # "live" => ui'.stream = "off" /\ ui'.pos = u.pos
           /\ u.meta = "live" /\ ui.meta # "live" => ui'.stream = "connecting" /\ ui'.pos = u.last
           /\ u.meta = "live" /\ ui.meta = "live" => ui'.stream = u.stream /\ ui'.pos = u.pos
<1>1. PICK v : /\ v = CASE u.meta # "live" -> [u EXCEPT !.stream = "off"]
                        [] u.meta = "live" /\ ui.meta # "live" -> Connect(u)
                        [] OTHER -> u
               /\ ui' = [v EXCEPT !.bar = BarFor(u)]
  BY DEF Shows, Page
<1>2. CASE u.meta # "live"
  <2>1. v = [u EXCEPT !.stream = "off"]
    BY <1>1, <1>2
  <2> QED BY <1>1, <1>2, <2>1 DEF SessUi, SessFields
<1>3. CASE u.meta = "live" /\ ui.meta # "live"
  <2>1. v = [u EXCEPT !.stream = "connecting", !.pos = u.last]
    BY <1>1, <1>3 DEF Connect
  <2> QED BY <1>1, <1>3, <2>1 DEF SessUi, SessFields
<1>4. CASE u.meta = "live" /\ ui.meta = "live"
  <2>1. v = u
    BY <1>1, <1>4
  <2> QED BY <1>1, <1>4, <2>1 DEF SessUi, SessFields
<1> QED BY <1>2, <1>3, <1>4
-----------------------------------------------------------------------------
(* The steps. *)

(* Steps that leave the transcript alone: the stream, the error, the bar. *)
LEMMA SessEdits ==
    ASSUME SessBody, UNCHANGED server, SessUi(ui'),
           \A f \in {"events", "last", "echoes", "sent", "meta", "unsent"} : ui'[f] = ui[f],
           ui'.pos \in 0..ui'.last, ui'.meta = "live" => ui'.stream # "off",
           ui'.meta = "live" /\ server.status # "gone" => Followed(ui'),
           \/ UNCHANGED calls
           \/ \E n \in 0..ui.last : Fetch("load", n)
           \/ CallsShape' /\ CallsFit' /\ Pending' = Pending
    PROVE  SessBody'
<1>1. ui'.last = ui.last /\ ui'.echoes = ui.echoes /\ ui'.unsent = ui.unsent
  OBVIOUS
<1>2. PageFits(ui', server)
  <2>1. PageFits(ui, server)
    BY DEF SessBody
  <2> QED BY <2>1, PageSame
<1>3. PageFits(ui', server') /\ Held(server')
  BY <1>2 DEF SessBody
<1>4. CallsShape' /\ CallsFit' /\ Pending' = Pending
  <2>1. CASE UNCHANGED calls
    <3>1. Moves(server, server') /\ ui'.last \in Nat /\ ui.last <= ui'.last
      BY <1>1, MovesNot, Numbers
    <3> QED BY <2>1, <3>1, CallsAllKept
  <2>2. CASE \E n \in 0..ui.last : Fetch("load", n)
    BY <1>1, <2>2, LoadSent
  <2> QED BY <2>1, <2>2
<1>5. Owing'
  BY <1>1, <1>4, OwesAsBefore
<1> QED BY <1>3, <1>4, <1>5 DEF SessBody

LEMMA SessStreams ==
    ASSUME SessBody, StreamOpens \/ StreamRefused \/ StreamFails \/ StreamDeleted \/ RetrySess
    PROVE  SessBody'
<1>0. SessUi(ui) /\ ui.pos \in 0..ui.last /\ (ui.meta = "live" => ui.stream # "off")
  BY DEF SessBody, PageFits
<1>1. CASE StreamOpens
  <2>1. ui' = [ui EXCEPT !.stream = "open", !.err = FALSE] /\ UNCHANGED server
    BY <1>1 DEF StreamOpens, Page, Only
  <2>2. /\ SessUi(ui') /\ ui'.stream = "open" /\ ui'.pos = ui.pos
        /\ \A f \in {"events", "last", "echoes", "sent", "meta", "unsent"} : ui'[f] = ui[f]
    BY <1>0, <2>1 DEF SessUi, SessFields
  <2>3. UNCHANGED calls \/ \E n \in 0..ui.last : Fetch("load", n)
    BY <1>1, Numbers DEF StreamOpens
  <2>4. Followed(ui') /\ ui'.stream # "off" /\ ui'.pos \in 0..ui'.last
    BY <1>0, <2>2 DEF Followed
  <2> QED BY <2>1, <2>2, <2>3, <2>4, SessEdits
<1>2. CASE StreamRefused \/ StreamFails
  <2>1. UNCHANGED <<server, calls>> /\ \/ ui' = [ui EXCEPT !.stream = "closed", !.err = TRUE]
                                       \/ ui' = [ui EXCEPT !.stream = "dropped"]
    BY <1>2 DEF StreamRefused, StreamFails, GivesUp, Page, Only
  <2>2. /\ SessUi(ui') /\ ui'.pos = ui.pos
        /\ \A f \in {"events", "last", "echoes", "sent", "meta", "unsent"} : ui'[f] = ui[f]
        /\ \/ ui'.stream = "closed" /\ ui'.err = TRUE
           \/ ui'.stream = "dropped"
    BY <1>0, <2>1 DEF SessUi, SessFields
  <2>3. Followed(ui') /\ ui'.stream # "off" /\ ui'.pos \in 0..ui'.last
    BY <1>0, <2>2 DEF Followed
  <2> QED BY <2>1, <2>2, <2>3, SessEdits
<1>3. CASE StreamDeleted
  <2>1. UNCHANGED <<server, calls>> /\ server.status = "gone" /\ ui' = [ui EXCEPT !.stream = "closed", !.gate = "deleted"]
    BY <1>3 DEF StreamDeleted, Page, Only
  <2>2. /\ SessUi(ui') /\ ui'.pos = ui.pos /\ ui'.stream = "closed"
        /\ \A f \in {"events", "last", "echoes", "sent", "meta", "unsent"} : ui'[f] = ui[f]
    BY <1>0, <2>1 DEF SessUi, SessFields
  <2>3. ui'.stream # "off" /\ ui'.pos \in 0..ui'.last
    BY <1>0, <2>2
  <2> QED BY <2>1, <2>2, <2>3, SessEdits
<1>4. CASE RetrySess
  <2>1. UNCHANGED <<ui, server>> /\ 0 \in 0..ui.last /\ Fetch("load", 0)
    BY <1>4, Numbers DEF RetrySess, Only
  <2>2. ui'.meta = "live" /\ server.status # "gone" => Followed(ui')
    BY <2>1 DEF SessBody, PageFits
  <2> QED BY <1>0, <2>1, <2>2, SessEdits
<1> QED BY <1>1, <1>2, <1>3, <1>4

LEMMA SessReconnects ==
    ASSUME SessBody, Reconnect
    PROVE  SessBody'
<1>0. SessUi(ui) /\ ui.pos \in 0..ui.last /\ ui.last \in 0..ui.last
  BY Numbers DEF SessBody, PageFits
<1>1. Fetch("load", ui.last) /\ UNCHANGED server
      /\ ui' = [IF ui.meta = "live" THEN Connect(ui) ELSE ui EXCEPT !.err = FALSE]
  BY DEF Reconnect, Page, Only
<1>2. CASE ui.meta = "live"
  <2>1. PICK v : v = [ui EXCEPT !.stream = "connecting", !.pos = ui.last]
    OBVIOUS
  <2>2. ui' = [v EXCEPT !.err = FALSE]
    BY <1>1, <1>2, <2>1 DEF Connect
  <2>3. /\ SessUi(ui') /\ ui'.pos = ui.last /\ ui'.stream = "connecting"
        /\ \A f \in {"events", "last", "echoes", "sent", "meta", "unsent"} : ui'[f] = ui[f]
    BY <1>0, <2>1, <2>2 DEF SessUi, SessFields
  <2>4. Followed(ui') /\ ui'.stream # "off" /\ ui'.pos \in 0..ui'.last
    BY <1>0, <2>3 DEF Followed
  <2> QED BY <1>0, <1>1, <2>3, <2>4, SessEdits
<1>3. CASE ui.meta # "live"
  <2>1. ui' = [ui EXCEPT !.err = FALSE]
    BY <1>1, <1>3
  <2>2. /\ SessUi(ui') /\ ui'.pos = ui.pos /\ ui'.meta # "live"
        /\ \A f \in {"events", "last", "echoes", "sent", "meta", "unsent"} : ui'[f] = ui[f]
    BY <1>0, <1>3, <2>1 DEF SessUi, SessFields
  <2>3. ui'.pos \in 0..ui'.last
    BY <1>0, <2>2
  <2> QED BY <1>0, <1>1, <2>2, <2>3, SessEdits
<1> QED BY <1>2, <1>3

(* A request of another kind. *)
LEMMA OtherCall ==
    ASSUME SessBody, ui'.last \in Nat, ui.last <= ui'.last, Moves(server, server'), NEW c \in Slots,
           \A d \in Slots \ {c} : calls'[d] = calls[d],
           ~Waits(calls[c]), calls'[c].op \notin {"load", "comment"}
    PROVE  CallsFit' /\ Pending' = Pending
<1>1. CallFits(calls'[c], ui'.last, server')
  BY DEF CallFits
<1>2. ~Waits(calls'[c])
  BY DEF Waits
<1> QED BY <1>1, <1>2, CallsKept, PendingKept

LEMMA SessDecides ==
    ASSUME SessBody, Decide \/ \E c \in Slots : DecisionAnswered(c)
    PROVE  SessBody'
<1> DEFINE BarOnly == SessUi(ui') /\ \A f \in SessFields \ {"bar"} : ui'[f] = ui[f]
<1>0. /\ SessUi(ui) /\ ui.pos \in 0..ui.last /\ ui.last \in Nat /\ (ui.meta = "live" => ui.stream # "off")
      /\ (ui.meta = "live" /\ server.status # "gone" => Followed(ui))
      /\ CallsShape /\ Moves(server, server)
  BY Numbers, MovesNot DEF SessBody, PageFits
<1>1. SUFFICES ASSUME UNCHANGED server, BarOnly,
                      CallsShape' /\ CallsFit' /\ Pending' = Pending
               PROVE  SessBody'
  <2>1. CASE Decide
    <3>1. UNCHANGED server /\ BarOnly /\ Fetch("decide", [n |-> ui.bar.n, of |-> ui.bar.of])
      <4>1. ui' = [ui EXCEPT !.bar.busy = TRUE]
        BY <2>1 DEF Decide, Page
      <4>2. BarOnly
        BY <1>0, <4>1 DEF SessUi, SessFields
      <4> QED BY <2>1, <4>2 DEF Decide, Only
    <3>2. PICK s \in Slots : /\ calls[s] = Free /\ calls'[s] = Request("decide", [n |-> ui.bar.n, of |-> ui.bar.of])
                             /\ \A c \in Slots \ {s} : calls'[c] = calls[c]
      BY <1>0, <3>1, FetchEffect
    <3>3. CallsShape'
      BY <1>0, <3>1, FetchEffect
    <3>4. ~Waits(calls[s]) /\ calls'[s].op \notin {"load", "comment"}
      BY <3>2 DEF Waits, Free, Request
    <3>5. ui'.last = ui.last /\ Moves(server, server')
      BY <1>0, <3>1 DEF SessFields
    <3>6. CallsFit' /\ Pending' = Pending
      <4>1. ui'.last \in Nat /\ ui.last <= ui'.last
        BY <1>0, <3>5
      <4> QED BY <3>2, <3>4, <3>5, <4>1, OtherCall
    <3> QED BY <1>1, <3>1, <3>3, <3>6
  <2>2. ASSUME NEW c \in Slots, DecisionAnswered(c) PROVE SessBody'
    <3>1. UNCHANGED server /\ BarOnly /\ Done(c) /\ calls[c].op = "decide"
      <4>1. CASE ui' = ui
        <5>1. BarOnly
          BY <1>0, <4>1
        <5> QED BY <2>2, <5>1 DEF DecisionAnswered, Only, Back, Ok, Failed
      <4>2. CASE ui' = [ui EXCEPT !.bar.busy = FALSE, !.bar.answered = Ok(c, "decide")]
        <5>1. PICK v : v = [ui EXCEPT !.bar.busy = FALSE]
          OBVIOUS
        <5>2. ui' = [v EXCEPT !.bar.answered = Ok(c, "decide")]
          BY <4>2, <5>1
        <5>3. SessUi(v) /\ \A f \in SessFields \ {"bar"} : v[f] = ui[f]
          BY <1>0, <5>1 DEF SessUi, SessFields
        <5>4. BarOnly
          BY <5>2, <5>3 DEF SessUi, SessFields
        <5> QED BY <2>2, <5>4 DEF DecisionAnswered, Only, Back, Ok, Failed
      <4> QED BY <2>2, <4>1, <4>2 DEF DecisionAnswered, Page
    <3>2. CallsShape' /\ calls'[c] = Free /\ \A d \in Slots \ {c} : calls'[d] = calls[d]
      BY <1>0, <3>1, DoneEffect
    <3>4. ~Waits(calls[c]) /\ calls'[c].op \notin {"load", "comment"}
      BY <3>1, <3>2 DEF Waits, Free
    <3>5. ui'.last = ui.last /\ Moves(server, server')
      BY <1>0, <3>1 DEF SessFields
    <3>6. CallsFit' /\ Pending' = Pending
      <4>1. ui'.last \in Nat /\ ui.last <= ui'.last
        BY <1>0, <3>5
      <4> QED BY <3>2, <3>4, <3>5, <4>1, OtherCall
    <3> QED BY <1>1, <3>1, <3>2, <3>6
  <2> QED BY <2>1, <2>2
<1>3. SessUi(ui') /\ \A f \in SessFields \ {"bar"} : ui'[f] = ui[f]
  BY <1>1
<1>4. /\ \A f \in {"events", "last", "echoes", "sent", "meta", "unsent"} : ui'[f] = ui[f]
      /\ ui'.pos = ui.pos /\ ui'.stream = ui.stream /\ ui'.err = ui.err
  BY <1>3 DEF SessFields
<1>5. ui'.pos \in 0..ui'.last /\ (ui'.meta = "live" => ui'.stream # "off")
      /\ (ui'.meta = "live" /\ server.status # "gone" => Followed(ui'))
  BY <1>0, <1>4 DEF Followed
<1> QED BY <1>1, <1>3, <1>4, <1>5, SessEdits

(* The API's steps. *)
LEMMA Served ==
    ASSUME SessBody, UNCHANGED ui, Moves(server, server'), CallsShape', CallsFit', Owing'
    PROVE  SessBody'
<1>1. PageFits(ui, server')
  BY PageMoves
<1>2. PageFits(ui', server') /\ Held(server')
  BY <1>1 DEF Moves
<1> QED BY <1>2 DEF SessBody

LEMMA OwesMore ==
    ASSUME SessBody, UNCHANGED ui, Moves(server, server'), Pending' = Pending
    PROVE  Owing'
<1> SUFFICES ASSUME ~ui.unsent PROVE Owes(Cardinality(Pending), ui)'
  BY DEF Owing
<1>1. PICK n, a, b : n = Cardinality(Pending) /\ a = Unseen(ui.last, server.log) /\ b = Unseen(ui.last, server'.log)
  OBVIOUS
<1>2. Cardinality(ui.echoes) <= n + Cardinality(a)
  BY <1>1 DEF SessBody, Owing, Owes
<1>3. a \subseteq b
  BY <1>1, Numbers DEF Moves, Unseen, Held
<1>4. IsFiniteSet(b) /\ Cardinality(b) \in Nat
  BY <1>1, Numbers, UnseenIsFinite DEF Moves, Held
<1>5. Cardinality(a) <= Cardinality(b) /\ Cardinality(a) \in Nat
  BY <1>3, <1>4, FS_Subset, FS_CardinalityType
<1>6. n \in Nat /\ Cardinality(ui.echoes) \in Nat
  BY <1>1, Numbers, PendingIsFinite, EchoesAreFinite
<1>7. Cardinality(ui.echoes) <= n + Cardinality(b)
  BY <1>2, <1>4, <1>5, <1>6
<1> QED BY <1>1, <1>7 DEF Owes

LEMMA SessElsewhereKeeps ==
    ASSUME SessBody, SessElsewhere
    PROVE  SessBody'
<1>1. UNCHANGED <<ui, calls>>
  BY DEF SessElsewhere, Elsewhere
<1>2. /\ server = [log |-> server.log, status |-> server.status, answered |-> server.answered]
      /\ server.log \in Seq(LogKinds) /\ server.status \in Statuses
  BY DEF SessBody, Held
<1>3. Moves(server, server')
  <2>1. CASE server.status = "live" /\ \E kind \in {"reply", "ask", "hi"} : server' = [server EXCEPT !.log = Append(@, kind)]
    <3>1. PICK kind \in LogKinds : server' = [server EXCEPT !.log = Append(@, kind)]
      BY <2>1 DEF LogKinds
    <3>2. server' = [log |-> Append(server.log, kind), status |-> "live", answered |-> server.answered]
      BY <1>2, <2>1, <3>1
    <3> QED BY <2>1, <3>2, Appended
  <2>2. CASE \/ server.status = "live" /\ server' = [server EXCEPT !.status = "ended"]
             \/ server' = [server EXCEPT !.status = "gone"]
    <3>1. server'.log = server.log /\ server'.answered = server.answered
          /\ server' = [log |-> server'.log, status |-> server'.status, answered |-> server'.answered]
          /\ (server'.status = "gone" \/ (server'.status = "ended" /\ server.status = "live"))
      BY <1>2, <2>2
    <3>2. Len(server.log) \in Nat
      BY <1>2
    <3> QED BY <1>2, <3>1, <3>2 DEF Moves, Held, Statuses
  <2> QED BY <2>1, <2>2 DEF SessElsewhere, Elsewhere
<1>4. CallsShape' /\ CallsFit' /\ Pending' = Pending
  <2>1. ui'.last \in Nat /\ ui.last <= ui'.last
    BY <1>1, Numbers
  <2> QED BY <1>1, <1>3, <2>1, CallsAllKept
<1> QED BY <1>1, <1>3, <1>4, OwesMore, Served

LEMMA FailedEffect ==
    ASSUME CallsShape, NEW c \in Slots, calls[c].op # "none", calls' = [calls EXCEPT ![c].at = "failed"]
    PROVE  /\ CallsShape'
           /\ calls'[c].op = calls[c].op /\ calls'[c].arg = calls[c].arg /\ calls'[c].at = "failed"
           /\ \A d \in Slots \ {c} : calls'[d] = calls[d]
<1>1. calls[c] = [op |-> calls[c].op, arg |-> calls[c].arg, at |-> calls[c].at, got |-> calls[c].got]
  BY DEF CallsShape, IsCall, Free
<1>2. PICK r : r = [calls[c] EXCEPT !.at = "failed"]
  OBVIOUS
<1>3. r = [op |-> calls[c].op, arg |-> calls[c].arg, at |-> "failed", got |-> calls[c].got]
  BY <1>1, <1>2
<1>4. calls' = [calls EXCEPT ![c] = r]
  BY <1>2 DEF CallsShape
<1> QED BY <1>3, <1>4 DEF CallsShape, IsCall

(* The API has the comment that an echo waits for: one that is to come. *)
LEMMA OwesCopied ==
    ASSUME SessBody, UNCHANGED ui, server'.log = Append(server.log, "hi"),
           NEW c \in Pending, Pending' = Pending \ {c}
    PROVE  Owing'
<1> SUFFICES ASSUME ~ui.unsent PROVE Owes(Cardinality(Pending), ui)'
  BY DEF Owing
<1>1. PICK n, a, b, z : /\ n = Cardinality(Pending) /\ a = Unseen(ui.last, server.log)
                        /\ b = Unseen(ui.last, server'.log) /\ z = Len(server.log) + 1
  OBVIOUS
<1>2. Cardinality(ui.echoes) <= n + Cardinality(a)
  BY <1>1 DEF SessBody, Owing, Owes
<1>3. b = a \cup {z} /\ z \notin a
  <2>1. PICK log : log = Append(server.log, "hi")
    OBVIOUS
  <2>2. Len(log) = z /\ log[z] = "hi" /\ z > ui.last /\ z \in Nat /\ \A k \in 1..Len(server.log) : log[k] = server.log[k]
    BY <1>1, <2>1, Numbers
  <2>3. ui.last \in Nat /\ Len(server.log) \in Nat
    BY Numbers
  <2> QED BY <1>1, <2>1, <2>2, <2>3 DEF Unseen
<1>4. IsFiniteSet(a) /\ Cardinality(a) \in Nat
  BY <1>1, Numbers, UnseenIsFinite
<1>5. Cardinality(b) = Cardinality(a) + 1
  BY <1>3, <1>4, FS_AddElement
<1>6. n \in Nat /\ Cardinality(ui.echoes) \in Nat
  BY <1>1, Numbers, PendingIsFinite, EchoesAreFinite
<1>7. Cardinality(Pending') = n - 1
  BY <1>1, PendingIsFinite, FS_RemoveElement
<1>8. Cardinality(ui.echoes) <= (n - 1) + Cardinality(b)
  BY <1>2, <1>4, <1>5, <1>6
<1> QED BY <1>1, <1>7, <1>8 DEF Owes

LEMMA SessServes ==
    ASSUME SessBody, NEW c \in Slots, ServeSessLoad(c) \/ ServeComment(c) \/ ServeDecision(c)
    PROVE  SessBody'
<1>0. /\ CallsShape /\ Moves(server, server) /\ CallFits(calls[c], ui.last, server)
      /\ server = [log |-> server.log, status |-> server.status, answered |-> server.answered]
      /\ ui.last \in Nat /\ ui.last <= ui.last /\ Len(server.log) \in Nat /\ server.status \in Statuses
  BY MovesNot, Numbers DEF SessBody, CallsFit, Held
<1>1. UNCHANGED ui /\ calls[c].at = "sent" /\ calls[c].op \in {"load", "comment", "decide"}
  BY DEF ServeSessLoad, ServeComment, ServeDecision, Sent, Only
<1>2. ui'.last \in Nat /\ ui.last <= ui'.last
  BY <1>0, <1>1
<1>3. CASE ServeSessLoad(c)
  <2>1. UNCHANGED server /\ Moves(server, server') /\ calls[c].op = "load"
    BY <1>0, <1>3 DEF ServeSessLoad, Only, Sent
  <2>2. PICK got : got = [status |-> server.status, upto |-> Len(server.log)] /\ Answer(c, got)
    BY <1>3 DEF ServeSessLoad
  <2>3. /\ CallsShape'
        /\ calls'[c] = [op |-> calls[c].op, arg |-> calls[c].arg, at |-> "ok", got |-> got]
        /\ \A d \in Slots \ {c} : calls'[d] = calls[d]
    BY <1>0, <1>1, <2>2, AnswerEffect
  <2>4. CallFits(calls'[c], ui'.last, server')
    BY <1>0, <1>1, <2>1, <2>2, <2>3 DEF CallFits
  <2>5. CallsFit'
    BY <1>2, <2>1, <2>3, <2>4, CallsKept
  <2>6. Pending' = Pending
    <3>1. ~Waits(calls[c]) /\ ~Waits(calls'[c])
      BY <2>1, <2>3 DEF Waits
    <3> QED BY <2>3, <3>1, PendingKept
  <2> QED BY <1>1, <2>1, <2>3, <2>5, <2>6, OwesMore, Served
<1>4. CASE server.status # "live" /\ (ServeComment(c) \/ ServeDecision(c))
  <2>1. UNCHANGED server /\ Moves(server, server') /\ calls' = [calls EXCEPT ![c].at = "failed"]
        /\ calls[c].op \in {"comment", "decide"}
    BY <1>0, <1>4 DEF ServeComment, ServeDecision, Sent
  <2>2. /\ CallsShape'
        /\ calls'[c].op = calls[c].op /\ calls'[c].arg = calls[c].arg /\ calls'[c].at = "failed"
        /\ \A d \in Slots \ {c} : calls'[d] = calls[d]
    <3>1. calls[c].op # "none"
      BY <2>1
    <3> QED BY <1>0, <2>1, <3>1, FailedEffect
  <2>3. CallFits(calls'[c], ui'.last, server')
    BY <1>0, <1>1, <2>1, <2>2 DEF CallFits
  <2>4. CallsFit'
    BY <1>2, <2>1, <2>2, <2>3, CallsKept
  <2>5. Pending' = Pending
    <3>1. Waits(calls[c]) <=> Waits(calls'[c])
      BY <1>1, <2>2 DEF Waits
    <3> QED BY <2>2, <3>1, PendingKept
  <2> QED BY <1>1, <2>1, <2>2, <2>4, <2>5, OwesMore, Served
<1>5. CASE server.status = "live" /\ (ServeComment(c) \/ ServeDecision(c))
  <2>1. Answer(c, "created") /\ calls[c].op \in {"comment", "decide"}
    BY <1>5 DEF ServeComment, ServeDecision, Sent
  <2>2. /\ CallsShape'
        /\ calls'[c] = [op |-> calls[c].op, arg |-> calls[c].arg, at |-> "ok", got |-> "created"]
        /\ \A d \in Slots \ {c} : calls'[d] = calls[d]
    BY <1>0, <2>1, AnswerEffect
  <2>3. CallFits(calls'[c], ui'.last, server')
    BY <1>0, <2>1, <2>2 DEF CallFits
  <2>4. CASE ServeComment(c)
    <3>1. server' = [log |-> Append(server.log, "hi"), status |-> "live", answered |-> server.answered]
      BY <1>0, <1>5, <2>4 DEF ServeComment
    <3>2. Moves(server, server') /\ server'.log = Append(server.log, "hi")
      <4>1. "hi" \in LogKinds
        BY DEF LogKinds
      <4> QED BY <1>5, <3>1, <4>1, Appended
    <3>3. CallsFit'
      BY <1>2, <2>2, <2>3, <3>2, CallsKept
    <3>4. c \in Pending /\ Pending' = Pending \ {c}
      <4>1. Waits(calls[c]) /\ ~Waits(calls'[c])
        BY <1>1, <2>2, <2>4 DEF Waits, ServeComment, Sent
      <4> QED BY <2>2, <4>1 DEF Pending
    <3>5. Owing'
      BY <1>1, <3>2, <3>4, OwesCopied
    <3> QED BY <1>1, <2>2, <3>2, <3>3, <3>5, Served
  <2>5. CASE ServeDecision(c)
    <3>1. server' = [server EXCEPT !.log = Append(@, "decision"), !.answered = Append(@, calls[c].arg.of)]
      BY <1>5, <2>5 DEF ServeDecision
    <3>2. server' = [log |-> Append(server.log, "decision"), status |-> "live",
                     answered |-> Append(server.answered, calls[c].arg.of)]
      BY <1>0, <1>5, <3>1
    <3>3. Moves(server, server')
      <4>1. "decision" \in LogKinds
        BY DEF LogKinds
      <4> QED BY <1>5, <3>2, <4>1, Appended
    <3>4. CallsFit'
      BY <1>2, <2>2, <2>3, <3>3, CallsKept
    <3>5. Pending' = Pending
      <4>1. ~Waits(calls[c]) /\ ~Waits(calls'[c])
        BY <2>2, <2>5 DEF Waits, ServeDecision, Sent
      <4> QED BY <2>2, <4>1, PendingKept
    <3> QED BY <1>1, <2>2, <3>3, <3>4, <3>5, OwesMore, Served
  <2> QED BY <1>5, <2>4, <2>5
<1> QED BY <1>3, <1>4, <1>5

LEMMA SessFails ==
    ASSUME SessBody, NEW c \in Slots, Fail(c)
    PROVE  SessBody'
<1>0. /\ CallsShape /\ Moves(server, server) /\ CallFits(calls[c], ui.last, server)
      /\ ui.last \in Nat /\ ui.last <= ui.last
  BY MovesNot, Numbers DEF SessBody, CallsFit
<1>1. /\ CallsShape'
      /\ calls'[c] = [op |-> calls[c].op, arg |-> calls[c].arg, at |-> "failed", got |-> Nothing]
      /\ \A d \in Slots \ {c} : calls'[d] = calls[d]
      /\ UNCHANGED <<ui, server>>
  BY <1>0, FailEffect
<1>2. CallFits(calls'[c], ui'.last, server') /\ ui'.last \in Nat /\ ui.last <= ui'.last /\ Moves(server, server')
  BY <1>0, <1>1 DEF CallFits
<1>3. CallsFit'
  BY <1>1, <1>2, CallsKept
<1>4. Owing'
  <2>1. CASE Waits(calls[c]) <=> Waits(calls'[c])
    <3>1. Pending' = Pending
      BY <1>1, <2>1, PendingKept
    <3> QED BY <1>1, <1>2, <3>1, OwesMore
  <2>2. CASE ~Waits(calls[c]) /\ Waits(calls'[c])
    <3>1. Pending' = Pending \cup {c} /\ c \notin Pending
      BY <1>1, <2>2 DEF Pending
    <3>2. Cardinality(Pending') = Cardinality(Pending) + 1
      BY <3>1, PendingIsFinite, FS_AddElement
    <3>3. Cardinality(Pending) \in Nat /\ Cardinality(ui.echoes) \in Nat
          /\ Cardinality(Unseen(ui.last, server.log)) \in Nat
      BY Numbers, PendingIsFinite, EchoesAreFinite, UnseenIsFinite
    <3>4. ASSUME ~ui.unsent
          PROVE  Cardinality(ui.echoes) <= Cardinality(Pending') + Cardinality(Unseen(ui.last, server.log))
      <4>1. Cardinality(ui.echoes) <= Cardinality(Pending) + Cardinality(Unseen(ui.last, server.log))
        BY <3>4 DEF SessBody, Owing, Owes
      <4> QED BY <3>2, <3>3, <4>1
    <3> QED BY <1>1, <3>4 DEF Owing, Owes
  <2>3. CASE Waits(calls[c]) /\ ~Waits(calls'[c])
    BY <1>1, <2>3 DEF Waits
  <2> QED BY <2>1, <2>2, <2>3
<1> QED BY <1>1, <1>2, <1>3, <1>4, Served

(* The visitor's comments: an echo at the end, and one that is taken back.  *)
LEMMA AppendTidy ==
    ASSUME NEW s, Tidy(s), NEW e \in Marks, NEW r, r = Append(s, e),
           \A k \in 1..Len(s) : s[k].id # e.id /\ s[k].at <= e.at
    PROVE  Tidy(r) /\ \A m : Has(r, m) <=> Has(s, m) \/ m = e
<1>1. s \in Seq(Marks) /\ Len(s) \in Nat
  BY TidyType
<1>2. /\ r \in Seq(Marks) /\ Len(r) = Len(s) + 1 /\ r[Len(s) + 1] = e
      /\ \A k \in 1..Len(s) : r[k] = s[k]
  BY <1>1
<1>3. PICK n : n = Len(s) /\ n \in Nat
  BY <1>1
<1>4. \A k \in 1..Len(r) : k = n + 1 \/ k \in 1..n
  BY <1>2, <1>3
<1>5. ASSUME NEW j \in 1..Len(r), NEW k \in 1..Len(r), j < k PROVE r[j].at <= r[k].at
  <2>1. j \in 1..n
    BY <1>2, <1>3, <1>5
  <2>2. CASE k = n + 1
    BY <1>2, <1>3, <2>1, <2>2
  <2>3. CASE k \in 1..n
    BY <1>2, <1>3, <1>5, <2>1, <2>3 DEF Tidy
  <2> QED BY <1>4, <2>2, <2>3
<1>6. ASSUME NEW j \in 1..Len(r), NEW k \in 1..Len(r), r[j].id = r[k].id PROVE j = k
  <2>1. CASE j \in 1..n /\ k \in 1..n
    BY <1>2, <1>3, <1>6, <2>1 DEF Tidy
  <2>2. CASE j = n + 1 \/ k = n + 1
    BY <1>2, <1>3, <1>4, <1>6, <2>2
  <2> QED BY <1>4, <2>1, <2>2
<1>7. Tidy(r)
  BY <1>2, <1>5, <1>6 DEF Tidy
<1>8. ASSUME NEW m PROVE Has(r, m) <=> Has(s, m) \/ m = e
  <2>1. Has(r, m) => Has(s, m) \/ m = e
    BY <1>2, <1>3, <1>4 DEF Has
  <2>2. Has(s, m) => Has(r, m)
    BY <1>2, <1>3 DEF Has
  <2>3. m = e => Has(r, m)
    BY <1>2, <1>3 DEF Has
  <2> QED BY <2>1, <2>2, <2>3
<1> QED BY <1>7, <1>8

LEMMA EchoAdded ==
    ASSUME NEW u, Transcript(u), NEW id, id = 0 - u.sent - 1, NEW v,
           v.events = Append(u.events, [id |-> id, at |-> LastAt(u) + 1]),
           v.echoes = u.echoes \cup {id}, v.sent = u.sent + 1, v.last = u.last
    PROVE  Transcript(v) /\ id \notin u.echoes /\ id \in Int /\ id < 0
<1>1. /\ Tidy(u.events) /\ u.sent \in Nat /\ u.last \in Nat /\ u.echoes \subseteq (0 - u.sent)..(0 - 1)
      /\ u.events \in Seq(Marks) /\ Len(u.events) \in Nat
  BY DEF Transcript, Tidy
<1>2. id \in Int /\ id < 0 /\ id \notin u.echoes /\ id \notin 1..u.last
  BY <1>1
<1>3. PICK e : e = [id |-> id, at |-> LastAt(u) + 1]
  OBVIOUS
<1>4. LastAt(u) \in Int /\ \A k \in 1..Len(u.events) : u.events[k].at <= LastAt(u)
  <2>1. CASE u.events = <<>>
    BY <2>1 DEF LastAt
  <2>2. CASE u.events # <<>>
    <3>1. PICK n \in Nat : n = Len(u.events) /\ n >= 1
      BY <1>1, <2>2
    <3>2. LastAt(u) = u.events[n].at /\ u.events[n].at \in Int
      BY <1>1, <2>2, <3>1, TidyType DEF LastAt, Last
    <3>3. ASSUME NEW k \in 1..n PROVE u.events[k].at <= u.events[n].at
      <4>1. CASE k = n
        BY <3>2, <4>1
      <4>2. CASE k < n
        BY <1>1, <3>1, <4>2 DEF Tidy
      <4> QED BY <3>1, <4>1, <4>2
    <3> QED BY <3>1, <3>2, <3>3
  <2> QED BY <2>1, <2>2
<1>5. e \in Marks /\ e.id = id /\ e.at = LastAt(u) + 1
  BY <1>2, <1>3, <1>4 DEF Marks
<1>6. \A k \in 1..Len(u.events) : u.events[k].id # e.id /\ u.events[k].at <= e.at
  <2> TAKE k \in 1..Len(u.events)
  <2>1. u.events[k].id # id
    BY <1>2 DEF Transcript
  <2>2. u.events[k].at \in Int
    BY <1>1, TidyType
  <2> QED BY <1>4, <1>5, <2>1, <2>2
<1>7. Tidy(v.events) /\ \A m : Has(v.events, m) <=> Has(u.events, m) \/ m = e
  BY <1>1, <1>3, <1>5, <1>6, AppendTidy
<1>8. ASSUME NEW k \in 1..Len(v.events)
      PROVE  \/ v.events[k].id \in 1..v.last /\ v.events[k] = At(v.events[k].id)
             \/ v.events[k].id \in v.echoes
  <2>1. Has(v.events, v.events[k])
    BY DEF Has
  <2>2. CASE v.events[k] = e
    BY <1>5, <2>2
  <2>3. CASE Has(u.events, v.events[k])
    <3>1. PICK j \in 1..Len(u.events) : u.events[j] = v.events[k]
      BY <2>3 DEF Has
    <3> QED BY <3>1 DEF Transcript
  <2> QED BY <1>7, <2>1, <2>2, <2>3
<1>9. \A k \in 1..v.last : Has(v.events, At(k))
  BY <1>7 DEF Transcript
<1>10. v.echoes \subseteq (0 - v.sent)..(0 - 1) /\ v.sent \in Nat /\ v.last \in Nat
  BY <1>1
<1> QED BY <1>2, <1>7, <1>8, <1>9, <1>10 DEF Transcript

LEMMA EchoTaken ==
    ASSUME NEW u, Transcript(u), NEW id \in Int, id < 0, NEW v,
           v.events = Without(u.events, id), v.echoes = u.echoes \ {id}, v.sent = u.sent, v.last = u.last
    PROVE  Transcript(v)
<1>1. Tidy(u.events) /\ u.sent \in Nat /\ u.last \in Nat
  BY DEF Transcript
<1>2. Tidy(v.events) /\ \A m : Has(v.events, m) <=> Has(u.events, m) /\ m.id # id
  BY <1>1, WithoutTidy
<1>3. ASSUME NEW k \in 1..Len(v.events)
      PROVE  \/ v.events[k].id \in 1..v.last /\ v.events[k] = At(v.events[k].id)
             \/ v.events[k].id \in v.echoes
  <2>1. Has(v.events, v.events[k])
    BY DEF Has
  <2>2. Has(u.events, v.events[k]) /\ v.events[k].id # id
    BY <1>2, <2>1
  <2>3. PICK j \in 1..Len(u.events) : u.events[j] = v.events[k]
    BY <2>2 DEF Has
  <2> QED BY <2>2, <2>3 DEF Transcript
<1>4. ASSUME NEW k \in 1..v.last PROVE Has(v.events, At(k))
  <2>1. k \in Int /\ k # id /\ k \in 1..u.last
    BY <1>1
  <2> QED BY <1>2, <2>1, AtIsMark DEF Transcript
<1> QED BY <1>1, <1>2, <1>3, <1>4 DEF Transcript

LEMMA SessSends ==
    ASSUME SessBody, SendComment
    PROVE  SessBody'
<1>0. /\ CallsShape /\ Moves(server, server) /\ PageFits(ui, server) /\ SessUi(ui) /\ Transcript(ui)
      /\ ui.last \in Nat /\ ui.last <= ui.last /\ ui.sent \in Nat /\ ui.meta = "live" /\ UNCHANGED server
      /\ Held(server)
  BY MovesNot, Numbers DEF SessBody, SendComment, Only
<1>1. PICK id : id = 0 - ui.sent - 1
  OBVIOUS
<1>2. PICK ev : ev = Append(ui.events, [id |-> id, at |-> LastAt(ui) + 1])
  OBVIOUS
<1>3. PICK u : u = [ui EXCEPT !.sent = @ + 1, !.failed = FALSE, !.echoes = @ \cup {id}, !.events = ev]
  OBVIOUS
<1>4. Shows(u) /\ Fetch("comment", id)
  <2>1. [ui EXCEPT !.sent = @ + 1, !.failed = FALSE, !.echoes = @ \cup {id},
                   !.events = Append(@, [id |-> id, at |-> LastAt(ui) + 1])] = u
    BY <1>0, <1>2, <1>3 DEF SessUi, SessFields
  <2> QED BY <1>1, <2>1 DEF SendComment
<1>5. /\ SessUi(u) /\ u.sent = ui.sent + 1 /\ u.echoes = ui.echoes \cup {id} /\ u.events = ev
      /\ \A f \in SessFields \ {"sent", "failed", "echoes", "events"} : u[f] = ui[f]
  BY <1>0, <1>3 DEF SessUi, SessFields
<1>6. Transcript(u) /\ id \notin ui.echoes /\ id \in Int /\ id < 0
  <2>1. u.last = ui.last
    BY <1>5 DEF SessFields
  <2> QED BY <1>0, <1>1, <1>2, <1>5, <2>1, EchoAdded
<1>7. /\ SessUi(ui') /\ \A f \in SessFields \ {"stream", "pos", "bar"} : ui'[f] = u[f]
      /\ ui'.stream = ui.stream /\ ui'.pos = ui.pos
  <2>1. u.meta = "live" /\ u.stream = ui.stream /\ u.pos = ui.pos
    BY <1>0, <1>5 DEF SessFields
  <2> QED BY <1>0, <1>4, <1>5, <2>1, ShowsEffect
<1>8. /\ ui'.events = u.events /\ ui'.last = u.last /\ ui'.echoes = u.echoes /\ ui'.sent = u.sent
      /\ ui'.meta = ui.meta /\ ui'.last = ui.last /\ ui'.unsent = ui.unsent /\ ui'.err = ui.err
  BY <1>5, <1>7 DEF SessFields
<1>9. PageFits(ui', server')
  <2>1. Transcript(ui')
    BY <1>6, <1>8 DEF Transcript
  <2> QED BY <1>0, <1>7, <1>8, <2>1 DEF PageFits, Followed
<1>10. PICK s \in Slots : /\ calls[s] = Free /\ calls'[s] = Request("comment", id)
                          /\ \A c \in Slots \ {s} : calls'[c] = calls[c]
  BY <1>0, <1>4, FetchEffect
<1>11. CallsShape'
  BY <1>0, <1>4, FetchEffect
<1>12. CallsFit'
  <2>1. CallFits(calls'[s], ui'.last, server')
    BY <1>6, <1>10 DEF CallFits, Request
  <2>2. ui'.last \in Nat /\ ui.last <= ui'.last /\ Moves(server, server')
    BY <1>0, <1>8
  <2> QED BY <1>10, <2>1, <2>2, CallsKept
<1>13. Owing'
  <2>1. Pending' = Pending \cup {s} /\ s \notin Pending
    BY <1>10 DEF Pending, Waits, Free, Request
  <2>2. Cardinality(Pending') = Cardinality(Pending) + 1
    BY <2>1, PendingIsFinite, FS_AddElement
  <2>3. Cardinality(ui'.echoes) = Cardinality(ui.echoes) + 1
    <3>1. IsFiniteSet(ui.echoes)
      BY <1>0, EchoesAreFinite
    <3>2. PICK old, new : old = ui.echoes /\ new = ui'.echoes
      OBVIOUS
    <3>3. new = old \cup {id} /\ id \notin old /\ IsFiniteSet(old)
      BY <1>5, <1>6, <1>8, <3>1, <3>2
    <3>4. Cardinality(new) = Cardinality(old) + 1
      BY <3>3, FS_AddElement
    <3> QED BY <3>2, <3>4
  <2>4. Cardinality(Pending) \in Nat /\ Cardinality(ui.echoes) \in Nat
        /\ Cardinality(Unseen(ui.last, server.log)) \in Nat
    BY Numbers, PendingIsFinite, EchoesAreFinite, UnseenIsFinite
  <2>5. ASSUME ~ui.unsent
        PROVE  Cardinality(ui'.echoes) <= Cardinality(Pending') + Cardinality(Unseen(ui.last, server.log))
    <3>1. Cardinality(ui.echoes) <= Cardinality(Pending) + Cardinality(Unseen(ui.last, server.log))
      BY <2>5 DEF SessBody, Owing, Owes
    <3> QED BY <2>2, <2>3, <2>4, <3>1
  <2> QED BY <1>0, <1>8, <2>5 DEF Owing, Owes
<1> QED BY <1>0, <1>9, <1>11, <1>12, <1>13 DEF SessBody

LEMMA CommentComesBack ==
    ASSUME SessBody, NEW c \in Slots, CommentAnswered(c)
    PROVE  SessBody'
<1>0. /\ CallsShape /\ Moves(server, server) /\ PageFits(ui, server) /\ SessUi(ui) /\ Transcript(ui)
      /\ ui.last \in Nat /\ ui.last <= ui.last /\ UNCHANGED server /\ Held(server)
      /\ CallFits(calls[c], ui.last, server) /\ calls[c].op = "comment" /\ Done(c)
      /\ ui.pos \in 0..ui.last
  BY MovesNot, Numbers DEF SessBody, CommentAnswered, Only, CallsFit, Back, Ok, Failed
<1>1. CallsShape' /\ calls'[c] = Free /\ \A d \in Slots \ {c} : calls'[d] = calls[d]
  BY <1>0, DoneEffect
<1>2. CallFits(calls'[c], ui'.last, server') /\ ~Waits(calls'[c])
  BY <1>1 DEF CallFits, Waits, Free
<1>3. CASE Ok(c, "comment")
  <2>1. UNCHANGED ui /\ ~Waits(calls[c])
    BY <1>3 DEF CommentAnswered, Ok, Waits
  <2>2. CallsFit' /\ Pending' = Pending
    <3>1. ui'.last \in Nat /\ ui.last <= ui'.last /\ Moves(server, server')
      BY <1>0, <2>1
    <3> QED BY <1>1, <1>2, <2>1, <3>1, CallsKept, PendingKept
  <2>3. Moves(server, server')
    BY <1>0
  <2> QED BY <1>1, <2>1, <2>2, <2>3, OwesMore, Served
<1>4. CASE ~Ok(c, "comment")
  <2>1. PICK id : id = calls[c].arg /\ id \in Int /\ id < 0
    BY <1>0 DEF CallFits
  <2>2. PICK u : u = [ui EXCEPT !.echoes = @ \ {id}, !.events = Without(@, id), !.failed = TRUE, !.unsent = TRUE]
    OBVIOUS
  <2>3. Shows(u)
    BY <1>4, <2>1, <2>2 DEF CommentAnswered
  <2>4. /\ SessUi(u) /\ u.echoes = ui.echoes \ {id} /\ u.events = Without(ui.events, id) /\ u.unsent = TRUE
        /\ \A f \in SessFields \ {"unsent", "failed", "echoes", "events"} : u[f] = ui[f]
    BY <1>0, <2>2 DEF SessUi, SessFields
  <2>5. u.sent = ui.sent /\ u.last = ui.last /\ u.meta = ui.meta /\ u.stream = ui.stream /\ u.pos = ui.pos
        /\ u.err = ui.err
    BY <2>4 DEF SessFields
  <2>6. Transcript(u)
    BY <1>0, <2>1, <2>4, <2>5, EchoTaken
  <2>7. /\ SessUi(ui') /\ \A f \in SessFields \ {"stream", "pos", "bar"} : ui'[f] = u[f]
        /\ ui'.pos = ui.pos /\ (u.meta = "live" => ui'.stream = ui.stream)
    BY <2>3, <2>4, <2>5, ShowsEffect
  <2>8. /\ ui'.events = u.events /\ ui'.last = ui.last /\ ui'.echoes = u.echoes /\ ui'.sent = u.sent
        /\ ui'.meta = ui.meta /\ ui'.last = u.last /\ ui'.unsent = TRUE /\ ui'.err = ui.err
    BY <2>4, <2>5, <2>7 DEF SessFields
  <2>9. PageFits(ui', server')
    <3>1. Transcript(ui')
      BY <2>6, <2>8 DEF Transcript
    <3> QED BY <1>0, <2>5, <2>7, <2>8, <3>1 DEF PageFits, Followed
  <2>10. CallsFit'
    <3>1. ui'.last \in Nat /\ ui.last <= ui'.last /\ Moves(server, server')
      BY <1>0, <2>8
    <3> QED BY <1>1, <1>2, <3>1, CallsKept
  <2> QED BY <1>0, <1>1, <2>8, <2>9, <2>10 DEF SessBody, Owing
<1> QED BY <1>3, <1>4

(* Events come, by the stream or by a load. *)
LEMMA SessGrows ==
    ASSUME SessBody, UNCHANGED server, NEW from \in 0..ui.last, NEW to \in 0..Len(server.log),
           NEW v, v = AddEvents(ui, from, to), NEW u, SessUi(u), Shows(u),
           \A f \in {"events", "last", "echoes", "sent", "stream", "err", "unsent"} : u[f] = v[f],
           u.pos \in 0..u.last, u.meta \in {"live", "ended", ui.meta},
           u.meta = "ended" /\ ui.meta # "ended" => server.status # "live" /\ (to = Len(server.log) \/ ui.last = Len(server.log)),
           CallsShape', NEW c \in Slots, \A d \in Slots \ {c} : calls'[d] = calls[d],
           CallFits(calls'[c], u.last, server), Waits(calls'[c]) <=> Waits(calls[c])
    PROVE  SessBody'
<1>0. /\ Moves(server, server) /\ PageFits(ui, server) /\ SessUi(ui) /\ Transcript(ui)
      /\ ui.last \in Nat /\ ui.last <= Len(server.log) /\ Len(server.log) \in Nat
      /\ Held(server) /\ server.log \in Seq(LogKinds)
  BY MovesNot, Numbers DEF SessBody
<1>1. Grown(ui, v, to)
  <2>1. from \in Nat /\ from <= ui.last /\ to \in Nat /\ to <= Len(server.log)
    BY <1>0
  <2> QED BY <1>0, <2>1, AddEventsGrows
<1>2. /\ Transcript(v) /\ v.last = (IF to > ui.last THEN to ELSE ui.last)
      /\ v.stream = ui.stream /\ v.err = ui.err /\ v.unsent = ui.unsent
      /\ \A d \in Nat : Owes(d, ui) => Owes(d, v)
  BY <1>1 DEF Grown, Same, SessFields
<1>3. u.last \in Nat /\ ui.last <= u.last /\ u.last <= Len(server.log) /\ u.last = v.last
      /\ (to = Len(server.log) \/ ui.last = Len(server.log) => u.last = Len(server.log))
  BY <1>0, <1>2
<1>4. /\ u.events = v.events /\ u.echoes = v.echoes /\ u.sent = v.sent /\ u.stream = ui.stream
      /\ u.err = ui.err /\ u.unsent = ui.unsent
  BY <1>2
<1>5. /\ SessUi(ui') /\ \A f \in SessFields \ {"stream", "pos", "bar"} : ui'[f] = u[f]
      /\ u.meta # "live" => ui'.stream = "off" /\ ui'.pos = u.pos
      /\ u.meta = "live" /\ ui.meta # "live" => ui'.stream = "connecting" /\ ui'.pos = u.last
      /\ u.meta = "live" /\ ui.meta = "live" => ui'.stream = u.stream /\ ui'.pos = u.pos
  BY ShowsEffect
<1>6. /\ ui'.events = u.events /\ ui'.last = u.last /\ ui'.echoes = u.echoes /\ ui'.sent = u.sent
      /\ ui'.meta = u.meta /\ ui'.unsent = u.unsent /\ ui'.err = u.err
  BY <1>5 DEF SessFields
<1>7. Transcript(ui')
  BY <1>2, <1>3, <1>4, <1>6 DEF Transcript
<1>8. PageFits(ui', server)
  <2>1. ui'.pos \in 0..ui'.last
    BY <1>3, <1>5, <1>6
  <2>2. ui'.meta \in {Nothing, "live", "ended"}
    BY <1>0, <1>6 DEF PageFits
  <2>3. ui'.meta = "live" => ui'.stream # "off" /\ (server.status # "gone" => Followed(ui'))
    <3>1. CASE ui.meta # "live"
      BY <1>5, <1>6, <3>1 DEF Followed
    <3>2. CASE ui.meta = "live"
      BY <1>0, <1>4, <1>5, <1>6, <3>2 DEF Followed, PageFits
    <3> QED BY <3>1, <3>2
  <2>4. ui'.meta = "ended" => server.status # "live" /\ ui'.last = Len(server.log)
    <3>1. ui.meta = "ended" => server.status # "live" /\ ui.last = Len(server.log)
      BY <1>0 DEF PageFits
    <3> QED BY <1>3, <1>6, <3>1
  <2> QED BY <1>3, <1>5, <1>6, <1>7, <2>1, <2>2, <2>3, <2>4 DEF PageFits
<1>9. CallsFit'
  <2>1. ui'.last \in Nat /\ ui.last <= ui'.last /\ Moves(server, server') /\ CallFits(calls'[c], ui'.last, server')
    BY <1>0, <1>3, <1>6
  <2> QED BY <2>1, CallsKept
<1>10. Pending' = Pending
  BY PendingKept
<1>11. Owing'
  <2>1. Cardinality(Pending) \in Nat
    BY PendingIsFinite
  <2>2. ~ui.unsent => Owes(Cardinality(Pending), ui)
    BY DEF SessBody, Owing
  <2>3. ~ui.unsent => Owes(Cardinality(Pending), v)
    BY <1>2, <2>1, <2>2
  <2>4. ui'.echoes = v.echoes /\ ui'.last = v.last /\ ui'.unsent = ui.unsent
    BY <1>3, <1>4, <1>6
  <2> QED BY <1>10, <2>3, <2>4 DEF Owing, Owes
<1> QED BY <1>0, <1>8, <1>9, <1>11 DEF SessBody

LEMMA SessStreamed ==
    ASSUME SessBody, StreamEvent \/ StreamEnded
    PROVE  SessBody'
<1>0. /\ ui.last \in Nat /\ ui.pos \in Nat /\ ui.pos <= ui.last /\ ui.last <= Len(server.log)
      /\ Len(server.log) \in Nat /\ SessUi(ui) /\ Transcript(ui) /\ server.log \in Seq(LogKinds)
      /\ CallsShape /\ PageFits(ui, server) /\ UNCHANGED <<server, calls>>
  BY Numbers DEF SessBody, StreamEvent, StreamEnded, Only
<1>1. PICK c \in Slots : c = 1
  BY BrowserAssumption DEF Slots
<1>2. /\ CallsShape' /\ \A d \in Slots \ {c} : calls'[d] = calls[d]
      /\ (Waits(calls'[c]) <=> Waits(calls[c])) /\ CallFits(calls'[c], ui.last, server)
  BY <1>0 DEF CallsShape, SessBody, CallsFit
<1>3. CASE StreamEvent
  <2>1. PICK to : to = ui.pos + 1 /\ to \in 0..Len(server.log)
    BY <1>0, <1>3 DEF StreamEvent
  <2>2. PICK v : v = AddEvents(ui, ui.pos, to)
    OBVIOUS
  <2>3. Grown(ui, v, to)
    <3>1. to \in Nat /\ to <= Len(server.log)
      BY <1>0, <2>1
    <3> QED BY <1>0, <2>2, <3>1, AddEventsGrows
  <2>4. PICK u : u = [v EXCEPT !.pos = @ + 1]
    OBVIOUS
  <2>5. Shows(u)
    BY <1>3, <2>1, <2>2, <2>4 DEF StreamEvent
  <2>6. SessUi(v) /\ Same(ui, v) /\ v.last = (IF to > ui.last THEN to ELSE ui.last)
    BY <2>3 DEF Grown
  <2>7. v.pos = ui.pos /\ v.meta = ui.meta
    BY <2>6 DEF Same, SessFields
  <2>8. /\ SessUi(u) /\ u.pos = ui.pos + 1 /\ u.meta = ui.meta
        /\ \A f \in {"events", "last", "echoes", "sent", "stream", "err", "unsent"} : u[f] = v[f]
    BY <2>4, <2>6, <2>7 DEF SessUi, SessFields
  <2>9. u.pos \in 0..u.last /\ ui.last <= u.last
    BY <1>0, <2>1, <2>6, <2>8
  <2>10. CallFits(calls'[c], u.last, server)
    BY <1>0, <1>2, <2>9, <2>8, <2>6, <2>1 DEF CallFits
  <2>11. ui.pos \in 0..ui.last
    BY <1>0
  <2> QED BY <1>0, <1>2, <2>1, <2>2, <2>5, <2>8, <2>9, <2>10, <2>11, SessGrows
<1>4. CASE StreamEnded
  <2>1. PICK u : u = [ui EXCEPT !.meta = "ended"]
    OBVIOUS
  <2>2. Shows(u) /\ server.status # "live" /\ ui.pos = Len(server.log)
    BY <1>4, <2>1 DEF StreamEnded
  <2>3. AddEvents(ui, ui.last, ui.last) = ui
    <3>1. PICK n, seq : n = ui.last - ui.last /\ seq = [k \in 1..n |-> ui.last + k]
      OBVIOUS
    <3>2. n = 0
      BY <1>0, <3>1
    <3> QED BY <3>1, <3>2, AddingIsFold, AddingUnfolds
  <2>4. /\ SessUi(u) /\ u.meta = "ended"
        /\ \A f \in {"events", "last", "echoes", "sent", "stream", "err", "unsent", "pos"} : u[f] = ui[f]
    BY <1>0, <2>1 DEF SessUi, SessFields
  <2>5. ui.last = Len(server.log) /\ u.pos \in 0..u.last /\ ui.last \in 0..ui.last /\ ui.last \in 0..Len(server.log)
        /\ u.last = ui.last
    BY <1>0, <2>2, <2>4
  <2>6. CallFits(calls'[c], u.last, server)
    BY <1>2, <2>5
  <2> QED BY <1>0, <1>2, <2>2, <2>3, <2>4, <2>5, <2>6, SessGrows
<1> QED BY <1>3, <1>4

LEMMA SessLoads ==
    ASSUME SessBody, NEW c \in Slots, SessLoaded(c)
    PROVE  SessBody'
<1>0. /\ ui.last \in Nat /\ ui.pos \in 0..ui.last /\ ui.last <= Len(server.log)
      /\ Len(server.log) \in Nat /\ SessUi(ui) /\ Transcript(ui) /\ server.log \in Seq(LogKinds)
      /\ CallsShape /\ PageFits(ui, server) /\ UNCHANGED server /\ Done(c) /\ calls[c].op = "load"
      /\ CallFits(calls[c], ui.last, server) /\ (ui.meta = "live" => ui.stream # "off")
      /\ (ui.meta = "live" /\ server.status # "gone" => Followed(ui)) /\ Moves(server, server)
  BY Numbers, MovesNot DEF SessBody, PageFits, CallsFit, SessLoaded, Only, Back, Ok, Failed
<1>1. CallsShape' /\ calls'[c] = Free /\ \A d \in Slots \ {c} : calls'[d] = calls[d]
  BY <1>0, DoneEffect
<1>2. ~Waits(calls[c]) /\ ~Waits(calls'[c]) /\ calls'[c].op \notin {"load", "comment"}
      /\ (Waits(calls'[c]) <=> Waits(calls[c])) /\ \A last : CallFits(calls'[c], last, server)
  BY <1>0, <1>1 DEF Waits, Free, CallFits
<1>3. CASE Ok(c, "load") /\ calls[c].got.status # "gone"
  <2>1. PICK from, to, status : from = calls[c].arg /\ to = calls[c].got.upto /\ status = calls[c].got.status
    OBVIOUS
  <2>2. from \in 0..ui.last /\ to \in 0..Len(server.log) /\ status \in {"live", "ended"}
        /\ (status = "ended" => server.status # "live" /\ to = Len(server.log))
    BY <1>0, <1>3, <2>1 DEF CallFits, Ok, Statuses
  <2>3. PICK v : v = AddEvents(ui, from, to)
    OBVIOUS
  <2>4. Grown(ui, v, to)
    <3>1. from \in Nat /\ from <= ui.last /\ to \in Nat /\ to <= Len(server.log)
      BY <1>0, <2>2
    <3> QED BY <1>0, <2>3, <3>1, AddEventsGrows
  <2>5. PICK u : u = [v EXCEPT !.meta = status, !.gate = Nothing]
    OBVIOUS
  <2>6. Shows(u)
    BY <1>3, <2>1, <2>3, <2>5 DEF SessLoaded
  <2>7. SessUi(v) /\ Same(ui, v) /\ v.last = (IF to > ui.last THEN to ELSE ui.last)
    BY <2>4 DEF Grown
  <2>8. v.pos = ui.pos
    BY <2>7 DEF Same, SessFields
  <2>9. /\ SessUi(u) /\ u.pos = ui.pos /\ u.meta = status
        /\ \A f \in {"events", "last", "echoes", "sent", "stream", "err", "unsent"} : u[f] = v[f]
    BY <2>5, <2>7, <2>8 DEF SessUi, SessFields
  <2>10. u.pos \in 0..u.last
    BY <1>0, <2>2, <2>7, <2>9
  <2> QED BY <1>0, <1>1, <1>2, <2>2, <2>3, <2>6, <2>9, <2>10, SessGrows
<1>4. CASE ~(Ok(c, "load") /\ calls[c].got.status # "gone")
  <2>1. ui' = ui \/ \E g : ui' = [ui EXCEPT !.gate = g]
    BY <1>4 DEF SessLoaded, Page
  <2>2. /\ SessUi(ui') /\ ui'.pos = ui.pos /\ ui'.stream = ui.stream /\ ui'.err = ui.err
        /\ \A f \in {"events", "last", "echoes", "sent", "meta", "unsent"} : ui'[f] = ui[f]
    BY <1>0, <2>1 DEF SessUi, SessFields
  <2>3. ui'.pos \in 0..ui'.last /\ (ui'.meta = "live" => ui'.stream # "off")
        /\ (ui'.meta = "live" /\ server.status # "gone" => Followed(ui'))
    BY <1>0, <2>2 DEF Followed
  <2>4. CallsFit' /\ Pending' = Pending
    <3>1. ui'.last \in Nat /\ ui.last <= ui'.last /\ Moves(server, server')
      BY <1>0, <2>2
    <3> QED BY <1>1, <1>2, <3>1, OtherCall
  <2> QED BY <1>0, <1>1, <2>2, <2>3, <2>4, SessEdits
<1> QED BY <1>3, <1>4

LEMMA SessStarts == SessInit => SessBody
<1> SUFFICES ASSUME SessInit PROVE SessBody
  OBVIOUS
<1>1. PICK rendered, kind, b :
        /\ rendered \in BOOLEAN /\ kind \in {"reply", "ask"}
        /\ ui = [meta |-> IF rendered THEN "live" ELSE Nothing,
                 events |-> IF rendered THEN <<At(1)>> ELSE <<>>,
                 last |-> IF rendered THEN 1 ELSE 0, echoes |-> {}, sent |-> 0,
                 gate |-> Nothing, err |-> FALSE, failed |-> FALSE, unsent |-> FALSE,
                 stream |-> IF rendered THEN "connecting" ELSE "off", pos |-> IF rendered THEN 1 ELSE 0,
                 bar |-> b]
        /\ server = [log |-> <<kind>>, status |-> "live", answered |-> <<>>]
        /\ calls = [NoCalls EXCEPT ![1] = Request("load", 0)]
  BY DEF SessInit, Opens
<1>2. PICK log : log = <<kind>> /\ log \in Seq(LogKinds) /\ Len(log) = 1
  <2>1. kind \in LogKinds
    BY <1>1 DEF LogKinds
  <2>2. <<kind>> \in Seq(LogKinds)
    BY <2>1
  <2>3. Len(<<kind>>) = 1
    OBVIOUS
  <2> QED BY <2>2, <2>3
<1>3. Held(server) /\ server.log = log
  BY <1>1, <1>2 DEF Held, Statuses
<1>4. CallsShape /\ CallsFit /\ Pending = {}
  <2>1. \A c \in Slots : calls[c] = Free \/ calls[c] = Request("load", 0)
    BY <1>1 DEF NoCalls
  <2>2. calls = [c \in Slots |-> calls[c]]
    BY <1>1 DEF NoCalls
  <2>3. ui.last \in Nat
    BY <1>1
  <2>4. \A c \in Slots : IsCall(calls[c]) /\ CallFits(calls[c], ui.last, server) /\ ~Waits(calls[c])
    BY <2>1, <2>3 DEF IsCall, CallFits, Waits, Free, Request
  <2> QED BY <2>2, <2>4 DEF CallsShape, CallsFit, Pending
<1>5. Transcript(ui)
  <2>1. CASE rendered
    <3>1. PICK ev : ev = <<At(1)>>
      OBVIOUS
    <3>2. ev \in Seq(Marks) /\ Len(ev) = 1 /\ ev[1] = At(1) /\ At(1).id = 1
      <4>1. At(1) \in Marks /\ At(1).id = 1
        BY AtIsMark
      <4> QED BY <3>1, <4>1
    <3>3. ui.events = ev /\ ui.last = 1 /\ ui.echoes = {} /\ ui.sent = 0
      BY <1>1, <2>1, <3>1
    <3>4. Tidy(ev)
      BY <3>2 DEF Tidy
    <3>5. Has(ev, At(1))
      BY <3>2 DEF Has
    <3>6. \A k \in 1..Len(ev) : ev[k].id \in 1..1 /\ ev[k] = At(ev[k].id)
      <4> TAKE k \in 1..Len(ev)
      <4>1. k = 1
        BY <3>2
      <4>2. ev[k] = At(1) /\ ev[k].id = 1
        BY <3>2, <4>1
      <4> QED BY <4>2
    <3>7. \A k \in 1..1 : Has(ev, At(k))
      <4>1. \A k \in 1..1 : k = 1
        OBVIOUS
      <4> QED BY <3>5, <4>1
    <3>8. {} \subseteq (0 - 0)..(0 - 1) /\ 0 \in Nat /\ 1 \in Nat
      OBVIOUS
    <3> QED BY <3>3, <3>4, <3>6, <3>7, <3>8 DEF Transcript
  <2>2. CASE ~rendered
    <3>1. ui.events = <<>> /\ ui.last = 0 /\ ui.echoes = {} /\ ui.sent = 0
      BY <1>1, <2>2
    <3>2. Tidy(ui.events)
      BY <3>1 DEF Tidy
    <3> QED BY <3>1, <3>2 DEF Transcript
  <2>3. rendered \in BOOLEAN
    BY <1>1
  <2> QED BY <2>1, <2>2, <2>3
<1>6. SessUi(ui)
  BY <1>1 DEF SessUi, SessFields
<1>7. PageFits(ui, server)
  BY <1>1, <1>2, <1>3, <1>5, <1>6, SessAssumption DEF PageFits, Followed
<1>8. Owing
  <2>1. Cardinality(ui.echoes) = 0 /\ Cardinality(Pending) = 0
    BY <1>1, <1>4, FS_EmptySet
  <2>2. Cardinality(Unseen(ui.last, server.log)) \in Nat
    <3>1. ui.last \in Nat
      BY <1>1
    <3> QED BY <1>2, <1>3, <3>1, UnseenIsFinite
  <2> QED BY <2>1, <2>2 DEF Owing, Owes
<1> QED BY <1>3, <1>4, <1>7, <1>8 DEF SessBody

LEMMA SessHolds ==
    /\ Init => SessInv
    /\ SessInv /\ [Next]_vars => SessInv'
<1>1. Init => SessInv
  BY InitOn, SessStarts DEF SessInv
<1>2. SessInv /\ [Next]_vars => SessInv'
  <2> SUFFICES ASSUME SessInv, [Next]_vars, OnSession' PROVE SessBody'
    BY DEF SessInv
  <2>1. OnSession /\ SessBody
    BY PagesStay DEF OnSession, SessInv
  <2>2. CASE UNCHANGED vars
    <3>1. UNCHANGED <<ui, server, calls>>
      BY <2>2 DEF vars
    <3> QED BY <2>1, <3>1 DEF SessBody, CallsShape, CallsFit, Owing, Owes, Pending
  <2>3. CASE SessNext
    BY <2>1, <2>3, SessStreams, SessReconnects, SessDecides, SessElsewhereKeeps, SessServes, SessSends,
       CommentComesBack, SessStreamed, SessLoads DEF SessNext
  <2> QED BY <2>1, <2>2, <2>3, NextOn, SessFails
<1> QED BY <1>1, <1>2

(* A page that calls the session live has a stream, or says that it lost    *)
(* it, for as long as the session is there.                                 *)
THEOREM LiveIsAlwaysFollowed == Spec => []LiveIsFollowed
<1>1. SessInv => LiveIsFollowed
  BY DEF SessInv, SessBody, PageFits, Followed, LiveIsFollowed
<1> QED BY <1>1, SessHolds, PTL DEF Spec

(* Events that are in order, once each, and all of 1..n are 1..n.           *)
LEMMA InOrder ==
    ASSUME NEW s, Tidy(s), NEW n \in Nat,
           \A k \in 1..Len(s) : s[k].id \in 1..n /\ s[k] = At(s[k].id),
           \A k \in 1..n : Has(s, At(k))
    PROVE  s = [k \in 1..n |-> At(k)]
<1>1. s \in Seq(Marks) /\ Len(s) \in Nat
  BY TidyType
<1>2. \A k \in 1..n : At(k).id = k /\ At(k).at = 2 * k
  BY AtIsMark
<1>3. ASSUME NEW i \in 1..Len(s), NEW j \in 1..Len(s), i < j PROVE s[i].id < s[j].id
  <2>1. s[i].at <= s[j].at /\ s[i].id # s[j].id
    BY <1>3 DEF Tidy
  <2>2. PICK a, b : a = s[i].id /\ b = s[j].id /\ a \in 1..n /\ b \in 1..n
    OBVIOUS
  <2>3. s[i].at = 2 * a /\ s[j].at = 2 * b
    BY <1>2, <2>2
  <2>4. 2 * a <= 2 * b /\ a # b
    BY <2>1, <2>2, <2>3
  <2>5. a < b
    BY <2>2, <2>4
  <2> QED BY <2>2, <2>5
<1> DEFINE Good == {m \in Nat : m <= n => m <= Len(s) /\ \A k \in 1..m : s[k].id = k}
<1>4. 0 \in Good
  BY <1>1
<1>5. ASSUME NEW m \in Nat, m \in Good PROVE m + 1 \in Good
  <2> SUFFICES ASSUME m + 1 <= n PROVE m + 1 <= Len(s) /\ \A k \in 1..(m + 1) : s[k].id = k
    OBVIOUS
  <2>1. m <= Len(s) /\ \A k \in 1..m : s[k].id = k
    BY <1>5
  <2> HIDE DEF Good
  <2>2. PICK p \in 1..Len(s) : s[p].id = m + 1
    <3>1. PICK l : l = m + 1 /\ l \in 1..n
      OBVIOUS
    <3>2. PICK q \in 1..Len(s) : s[q] = At(l)
      BY <3>1 DEF Has
    <3>3. s[q].id = l
      BY <1>2, <3>1, <3>2
    <3> QED BY <3>1, <3>3
  <2>3. p > m
    <3> SUFFICES ASSUME p \in 1..m PROVE FALSE
      BY <1>1
    <3>1. s[p].id = p
      BY <2>1
    <3> QED BY <2>2, <3>1
  <2>4. m + 1 \in 1..Len(s)
    BY <1>1, <2>3
  <2>5. p = m + 1
    <3> SUFFICES ASSUME m + 1 < p PROVE FALSE
      BY <2>3
    <3>1. PICK q : q = s[m + 1].id /\ q \in 1..n /\ q < m + 1
      BY <1>3, <2>2, <2>4
    <3>2. q \in 1..m /\ q \in 1..Len(s) /\ q < m + 1
      BY <2>1, <3>1, <1>1
    <3>3. s[q].id < s[m + 1].id
      BY <1>3, <2>4, <3>2
    <3> QED BY <2>1, <3>1, <3>2, <3>3
  <2>6. \A k \in 1..(m + 1) : k = m + 1 \/ k \in 1..m
    OBVIOUS
  <2> QED BY <2>1, <2>2, <2>4, <2>5, <2>6
<1>6. n <= Len(s) /\ \A k \in 1..n : s[k].id = k
  <2>1. n \in Good
    <3> HIDE DEF Good
    <3>1. Nat \subseteq Good
      BY <1>4, <1>5, Induction
    <3> QED BY <3>1
  <2> QED BY <2>1
<1>7. Len(s) = n
  <2> SUFFICES ASSUME n < Len(s) PROVE FALSE
    BY <1>1, <1>6
  <2>1. n + 1 \in 1..Len(s)
    BY <1>1
  <2>2. PICK q : q = s[n + 1].id /\ q \in 1..n
    BY <2>1
  <2>3. q \in 1..Len(s) /\ q < n + 1 /\ s[q].id = q
    BY <1>1, <1>6, <2>2
  <2>4. s[q].id < s[n + 1].id
    BY <1>3, <2>1, <2>3
  <2> QED BY <2>2, <2>3, <2>4
<1>8. s = [k \in 1..n |-> s[k]]
  BY <1>1, <1>7
<1>9. \A k \in 1..n : s[k] = At(k)
  BY <1>6, <1>7
<1> QED BY <1>8, <1>9

(* When nothing is under way, and no comment was taken back, the transcript *)
(* is the log: each event once, in its place, and no echo left over.        *)
THEOREM TranscriptIsAlwaysTheLog == Spec => []TranscriptIsTheLog
<1>1. SessInv => TranscriptIsTheLog
  <2> SUFFICES ASSUME SessBody, Visible, CaughtUp, ~ui.unsent
               PROVE  ui.events = [k \in DOMAIN server.log |-> At(k)]
    BY DEF SessInv, TranscriptIsTheLog
  <2>1. /\ ui.last \in Nat /\ ui.pos \in Nat /\ Len(server.log) \in Nat
        /\ ui.last <= Len(server.log) /\ ui.pos <= ui.last
        /\ server.log \in Seq(LogKinds) /\ Transcript(ui)
    BY Numbers
  <2>2. ui.last = Len(server.log)
    <3>1. CASE ui.meta = "live"
      <4>1. ui.stream # "off"
        BY <3>1 DEF SessBody, PageFits
      <4>2. ui.pos = Len(server.log)
        BY <4>1 DEF CaughtUp
      <4> QED BY <2>1, <4>2
    <3>2. CASE ui.meta = "ended"
      BY <3>2 DEF SessBody, PageFits
    <3> QED BY <3>1, <3>2 DEF SessBody, PageFits, Visible
  <2>3. ui.echoes = {}
    <3>1. Pending = {}
      BY DEF CaughtUp, Quiet, Pending, Waits, Free
    <3>2. Unseen(ui.last, server.log) = {}
      BY <2>1, <2>2 DEF Unseen
    <3>3. Cardinality(ui.echoes) <= Cardinality(Pending) + Cardinality(Unseen(ui.last, server.log))
      BY DEF SessBody, Owing, Owes
    <3>4. Cardinality({}) = 0
      BY FS_EmptySet
    <3>5. IsFiniteSet(ui.echoes) /\ Cardinality(ui.echoes) \in Nat
      BY <2>1, EchoesAreFinite
    <3>6. Cardinality(ui.echoes) = 0
      BY <3>1, <3>2, <3>3, <3>4, <3>5
    <3> QED BY <3>5, <3>6, FS_EmptySet
  <2>4. PICK n \in Nat : n = Len(server.log) /\ DOMAIN server.log = 1..n
    BY <2>1
  <2>5. PICK s : s = ui.events
    OBVIOUS
  <2>6. /\ Tidy(s) /\ \A k \in 1..Len(s) : s[k].id \in 1..n /\ s[k] = At(s[k].id)
        /\ \A k \in 1..n : Has(s, At(k))
    BY <2>1, <2>2, <2>3, <2>4, <2>5 DEF Transcript
  <2>7. s = [k \in 1..n |-> At(k)]
    BY <2>4, <2>6, InOrder
  <2> QED BY <2>4, <2>5, <2>7
<1> QED BY <1>1, SessHolds, PTL DEF Spec
-----------------------------------------------------------------------------
(* The session view: one answer to a request.  While nothing has failed, no *)
(* comment was taken back and the session is live, a request that is        *)
(* answered, or whose answer is out, has an event after it or a bar that    *)
(* offers no more buttons.                                                  *)

Probed(u, log) ==
    IF u.meta = "live" /\ u.events # <<>> /\ Last(u.events).id > 0 /\ log[Last(u.events).id] = "ask"
      THEN Last(u.events).id ELSE 0
Beyond(u, k) == \E j \in 1..Len(u.events) : u.events[j].at > 2 * k
Spent(u, k) == k \in 1..u.last /\ (Beyond(u, k) \/ (u.bar.of = k /\ (u.bar.busy \/ u.bar.answered)))
SpentStay(u, v) == \A k : Spent(u, k) => Spent(v, k)

IsBar(b) == b = [of |-> b.of, n |-> b.n, busy |-> b.busy, answered |-> b.answered]
BarFits == IsBar(ui.bar) /\ ui.bar.of = Probed(ui, server.log)
Answering(r) == r.op = "decide" /\ r.at = "sent"
Calm == faults = 0 /\ ~ui.unsent /\ server.status = "live"
CalmFits ==
    /\ \A c \in Slots : calls[c].op = "decide" => calls[c].at \in {"sent", "ok"}
    /\ \A c \in Slots : Answering(calls[c]) =>
         /\ Spent(ui, calls[c].arg.of)
         /\ \A i \in 1..Len(server.answered) : server.answered[i] # calls[c].arg.of
    /\ \A c, d \in Slots : Answering(calls[c]) /\ Answering(calls[d]) /\ c # d => calls[c].arg.of # calls[d].arg.of
    /\ \A i \in 1..Len(server.answered) : Spent(ui, server.answered[i])

AnswerFits ==
    /\ faults \in Nat /\ ui.unsent \in BOOLEAN /\ server.answered \in Seq(Nat)
    /\ \A c \in Slots : calls[c].op = "decide" => calls[c].arg.of \in Nat
    /\ BarFits
    /\ Calm => CalmFits
    /\ faults = 0 /\ ~ui.unsent => IsInjective(server.answered)
AnswerInv == OnSession => SessBody /\ AnswerFits

(* The newest event, when it asks, has no event after it. *)
LEMMA ProbedIs ==
    ASSUME NEW u, Transcript(u), NEW log, NEW k, k = Probed(u, log)
    PROVE  k \in Nat /\ (k # 0 => k \in 1..u.last /\ u.meta = "live" /\ ~Beyond(u, k))
<1>1. Tidy(u.events) /\ u.events \in Seq(Marks) /\ Len(u.events) \in Nat /\ u.last \in Nat
  BY TidyType DEF Transcript
<1>2. CASE k = 0
  BY <1>2
<1>3. CASE k # 0
  <2>1. u.meta = "live" /\ u.events # <<>> /\ k = Last(u.events).id /\ k > 0
    BY <1>3 DEF Probed
  <2>2. PICK n \in Nat : n = Len(u.events) /\ n >= 1
    BY <1>1, <2>1
  <2>3. Last(u.events) = u.events[n] /\ n \in 1..Len(u.events)
    BY <2>1, <2>2 DEF Last
  <2>4. u.events[n].id \notin u.echoes
    BY <2>1, <2>3 DEF Transcript
  <2>5. k \in 1..u.last /\ u.events[n] = At(k)
    BY <2>1, <2>3, <2>4 DEF Transcript
  <2>6. u.events[n].at = 2 * k
    BY <2>5, AtIsMark
  <2>7. ASSUME NEW j \in 1..Len(u.events) PROVE u.events[j].at <= 2 * k
    <3>1. CASE j = n
      BY <2>5, <2>6, <3>1
    <3>2. CASE j # n
      BY <1>1, <2>2, <2>3, <2>6, <3>2 DEF Tidy
    <3> QED BY <3>1, <3>2
  <2>8. \A j \in 1..Len(u.events) : u.events[j].at \in Int
    BY <1>1, TidyType
  <2>9. ~Beyond(u, k)
    BY <2>5, <2>7, <2>8 DEF Beyond
  <2> QED BY <2>1, <2>5, <2>9
<1> QED BY <1>2, <1>3

(* A log that grows changes nothing of it. *)
LEMMA ProbedKept ==
    ASSUME NEW u, Transcript(u), NEW s, NEW t, NEW n \in Nat, u.last <= n, \A k \in 1..n : t[k] = s[k]
    PROVE  Probed(u, t) = Probed(u, s)
<1>1. u.events \in Seq(Marks) /\ Len(u.events) \in Nat /\ u.last \in Nat
  BY TidyType DEF Transcript
<1> SUFFICES ASSUME u.events # <<>>, Last(u.events).id > 0
             PROVE  t[Last(u.events).id] = s[Last(u.events).id]
  BY DEF Probed
<1>2. PICK m \in Nat : m = Len(u.events) /\ m >= 1
  BY <1>1
<1>3. Last(u.events) = u.events[m] /\ m \in 1..Len(u.events)
  BY <1>2 DEF Last
<1>4. u.events[m].id \notin u.echoes
  BY <1>3 DEF Transcript
<1>5. u.events[m].id \in 1..u.last
  BY <1>3, <1>4 DEF Transcript
<1> QED BY <1>1, <1>3, <1>5

LEMMA BarStays ==
    ASSUME SessBody, AnswerFits, ui'.bar = ui.bar, ui'.events = ui.events, ui'.meta = ui.meta,
           \/ server'.log = server.log
           \/ \E x \in LogKinds : server'.log = Append(server.log, x)
    PROVE  BarFits'
<1>1. Transcript(ui) /\ Len(server.log) \in Nat /\ ui.last <= Len(server.log) /\ server.log \in Seq(LogKinds)
  BY Numbers
<1>2. \A k \in 1..Len(server.log) : server'.log[k] = server.log[k]
  BY <1>1
<1>3. Probed(ui, server'.log) = Probed(ui, server.log)
  BY <1>1, <1>2, ProbedKept
<1>4. Probed(ui', server'.log) = Probed(ui, server'.log)
  BY DEF Probed
<1> QED BY <1>3, <1>4 DEF AnswerFits, BarFits

(* A render: the bar is that of the newest event. *)
LEMMA BarShown ==
    ASSUME NEW u, SessUi(u), Shows(u), IsBar(u.bar), UNCHANGED server
    PROVE  BarFits' /\ ui'.unsent = u.unsent
           /\ ui'.bar = (IF Probed(u, server.log) = u.bar.of THEN u.bar
                         ELSE [of |-> Probed(u, server.log), n |-> u.bar.n + 1, busy |-> FALSE, answered |-> FALSE])
<1>1. PICK v : /\ v = CASE u.meta # "live" -> [u EXCEPT !.stream = "off"]
                        [] u.meta = "live" /\ ui.meta # "live" -> Connect(u)
                        [] OTHER -> u
               /\ ui' = [v EXCEPT !.bar = BarFor(u)]
  BY DEF Shows, Page
<1>2. SessUi(v)
  <2>1. CASE u.meta # "live"
    BY <1>1, <2>1 DEF SessUi, SessFields
  <2>2. CASE u.meta = "live" /\ ui.meta # "live"
    <3>1. v = Connect(u)
      BY <1>1, <2>2
    <3> QED BY <3>1 DEF SessUi, SessFields, Connect
  <2>3. CASE u.meta = "live" /\ ui.meta = "live"
    <3>1. v = u
      BY <1>1, <2>3
    <3> QED BY <3>1
  <2> QED BY <2>1, <2>2, <2>3
<1>3. ui'.bar = BarFor(u)
  BY <1>1, <1>2 DEF SessUi, SessFields
<1>4. ProbeOf(u) = Probed(u, server.log)
  BY DEF ProbeOf, Probed
<1>5. ui'.events = u.events /\ ui'.meta = u.meta /\ ui'.unsent = u.unsent
  BY ShowsEffect DEF SessFields
<1>6. Probed(ui', server'.log) = Probed(u, server.log)
  BY <1>5 DEF Probed
<1>7. IsBar(ui'.bar) /\ ui'.bar.of = Probed(u, server.log)
  <2>1. CASE Probed(u, server.log) = u.bar.of
    <3>1. ui'.bar = u.bar
      BY <1>3, <1>4, <2>1 DEF BarFor
    <3> QED BY <2>1, <3>1
  <2>2. CASE Probed(u, server.log) # u.bar.of
    <3>1. ui'.bar = [of |-> Probed(u, server.log), n |-> u.bar.n + 1, busy |-> FALSE, answered |-> FALSE]
      BY <1>3, <1>4, <2>2 DEF BarFor
    <3> QED BY <3>1 DEF IsBar
  <2> QED BY <2>1, <2>2
<1>8. ui'.bar = (IF Probed(u, server.log) = u.bar.of THEN u.bar
                 ELSE [of |-> Probed(u, server.log), n |-> u.bar.n + 1, busy |-> FALSE, answered |-> FALSE])
  BY <1>3, <1>4 DEF BarFor
<1>9. BarFits'
  BY <1>6, <1>7 DEF BarFits
<1> QED BY <1>5, <1>8, <1>9

LEMMA ConsSpent ==
    ASSUME NEW u, NEW v, v.bar = u.bar, v.events = u.events, v.last = u.last
    PROVE  SpentStay(u, v)
BY DEF SpentStay, Spent, Beyond

(* Every event that is there has a later one at v's end. *)
LEMMA PassedBy ==
    ASSUME NEW u, Transcript(u), NEW v, v.last \in Nat, u.last <= v.last,
           \A k \in 1..u.last : Beyond(v, k)
    PROVE  SpentStay(u, v)
BY DEF SpentStay, Spent, Transcript

LEMMA GrownPasses ==
    ASSUME NEW u, Transcript(u), NEW v, Transcript(v), v.last > u.last, NEW k \in 1..u.last
    PROVE  Beyond(v, k)
<1>1. u.last \in Nat /\ v.last \in Nat /\ v.last \in 1..v.last
  BY DEF Transcript
<1>2. PICK j \in 1..Len(v.events) : v.events[j] = At(v.last)
  BY <1>1 DEF Transcript, Has
<1>3. v.last \in Int /\ u.last \in Int /\ k \in Int /\ k <= u.last
  BY <1>1
<1>4. At(v.last).at = 2 * v.last
  BY <1>3, AtIsMark
<1>5. v.events[j].at > 2 * k
  BY <1>2, <1>3, <1>4
<1> QED BY <1>5 DEF Beyond
-----------------------------------------------------------------------------
(* The steps. *)

(* Steps that neither send an answer nor serve one. *)
QuietCalls == \A c \in Slots : calls'[c] = calls[c] \/ calls'[c].op # "decide"

LEMMA QuietKeeps ==
    ASSUME AnswerFits, server'.answered = server.answered, UNCHANGED faults, BarFits', QuietCalls,
           ui'.unsent \in BOOLEAN, ~ui'.unsent => ~ui.unsent, Calm' => Calm /\ SpentStay(ui, ui')
    PROVE  AnswerFits'
<1>1. ASSUME Calm' PROVE CalmFits'
  <2>1. Calm /\ CalmFits /\ SpentStay(ui, ui')
    BY <1>1 DEF AnswerFits
  <2>2. \A c \in Slots : calls'[c].op = "decide" => calls'[c] = calls[c]
    BY DEF QuietCalls
  <2>3. \A c \in Slots : calls'[c].op = "decide" => calls'[c].at \in {"sent", "ok"}
    BY <2>1, <2>2 DEF CalmFits
  <2>4. \A c \in Slots : Answering(calls'[c]) => calls'[c] = calls[c] /\ Answering(calls[c])
    BY <2>2 DEF Answering
  <2> QED BY <2>1, <2>3, <2>4 DEF CalmFits, SpentStay
<1>2. \A c \in Slots : calls'[c].op = "decide" => calls'[c].arg.of \in Nat
  BY DEF AnswerFits, QuietCalls
<1>3. faults' = 0 /\ ~ui'.unsent => IsInjective(server'.answered)
  BY DEF AnswerFits
<1> QED BY <1>1, <1>2, <1>3 DEF AnswerFits

LEMMA FetchIsQuiet ==
    ASSUME CallsShape, NEW op, NEW arg, Fetch(op, arg), op # "decide"
    PROVE  QuietCalls
<1>1. PICK s \in Slots : calls'[s] = Request(op, arg) /\ \A c \in Slots \ {s} : calls'[c] = calls[c]
  BY FetchEffect
<1>2. calls'[s].op # "decide"
  BY <1>1 DEF Request
<1> QED BY <1>1, <1>2 DEF QuietCalls

LEMMA DoneIsQuiet ==
    ASSUME CallsShape, NEW c \in Slots, Done(c)
    PROVE  QuietCalls
BY DoneEffect DEF QuietCalls, Free

(* Steps that leave transcript and bar alone. *)
LEMMA AnswersAside ==
    ASSUME SessBody, AnswerFits, UNCHANGED <<server, faults>>, QuietCalls,
           \A f \in {"events", "last", "meta", "bar", "unsent"} : ui'[f] = ui[f]
    PROVE  AnswerFits'
<1>1. /\ ui'.events = ui.events /\ ui'.last = ui.last /\ ui'.meta = ui.meta /\ ui'.bar = ui.bar
      /\ ui'.unsent = ui.unsent
  OBVIOUS
<1>2. BarFits'
  BY <1>1, BarStays
<1>3. SpentStay(ui, ui')
  BY <1>1, ConsSpent
<1>4. ui.unsent \in BOOLEAN
  BY DEF AnswerFits
<1> QED BY <1>1, <1>2, <1>3, <1>4, QuietKeeps DEF Calm

LEMMA AnswersStreams ==
    ASSUME SessBody, AnswerFits,
           \/ StreamOpens \/ StreamRefused \/ StreamDeleted \/ RetrySess \/ Reconnect
    PROVE  AnswerFits'
<1>0. SessUi(ui) /\ CallsShape
  BY Numbers DEF SessBody
<1>1. UNCHANGED <<server, faults>>
  BY DEF StreamOpens, StreamRefused, StreamDeleted, RetrySess, Reconnect, Only
<1>2. QuietCalls
  <2>1. UNCHANGED calls \/ \E n : Fetch("load", n)
    BY DEF StreamOpens, StreamRefused, StreamDeleted, RetrySess, Reconnect, Only
  <2>2. UNCHANGED calls => QuietCalls
    BY DEF QuietCalls
  <2>3. (\E n : Fetch("load", n)) => QuietCalls
    BY <1>0, FetchIsQuiet
  <2> QED BY <2>1, <2>2, <2>3
<1>3. \A f \in {"events", "last", "meta", "bar", "unsent"} : ui'[f] = ui[f]
  <2>1. CASE StreamOpens
    <3>1. ui' = [ui EXCEPT !.stream = "open", !.err = FALSE]
      BY <2>1 DEF StreamOpens, Page
    <3> QED BY <1>0, <3>1 DEF SessUi, SessFields
  <2>2. CASE StreamRefused
    <3>1. ui' = [ui EXCEPT !.stream = "closed", !.err = TRUE]
      BY <2>2 DEF StreamRefused, Page, GivesUp
    <3> QED BY <1>0, <3>1 DEF SessUi, SessFields
  <2>3. CASE StreamDeleted
    <3>1. ui' = [ui EXCEPT !.stream = "closed", !.gate = "deleted"]
      BY <2>3 DEF StreamDeleted, Page
    <3> QED BY <1>0, <3>1 DEF SessUi, SessFields
  <2>4. CASE RetrySess
    BY <2>4 DEF RetrySess, Only
  <2>5. CASE Reconnect
    <3>1. PICK v : v = (IF ui.meta = "live" THEN Connect(ui) ELSE ui) /\ ui' = [v EXCEPT !.err = FALSE]
      BY <2>5 DEF Reconnect, Page
    <3>2. SessUi(v) /\ \A f \in {"events", "last", "meta", "bar", "unsent"} : v[f] = ui[f]
      BY <1>0, <3>1 DEF SessUi, SessFields, Connect
    <3> QED BY <3>1, <3>2 DEF SessUi, SessFields
  <2> QED BY <2>1, <2>2, <2>3, <2>4, <2>5
<1> QED BY <1>1, <1>2, <1>3, AnswersAside

(* After a failure nothing is promised. *)
LEMMA AnswersFail ==
    ASSUME SessBody, AnswerFits, faults' = faults + 1, UNCHANGED server, ui'.unsent \in BOOLEAN, BarFits',
           \A c \in Slots : calls'[c].op = "decide" => calls[c].op = "decide" /\ calls'[c].arg = calls[c].arg
    PROVE  AnswerFits'
<1>1. faults' \in Nat /\ faults' # 0
  BY DEF AnswerFits
<1>2. \A c \in Slots : calls'[c].op = "decide" => calls'[c].arg.of \in Nat
  BY DEF AnswerFits
<1>3. ~Calm'
  BY <1>1 DEF Calm
<1> QED BY <1>1, <1>2, <1>3 DEF AnswerFits

LEMMA AnswersUnderFaults ==
    ASSUME SessBody, AnswerFits, StreamFails \/ \E c \in Slots : Fail(c)
    PROVE  AnswerFits'
<1>0. SessUi(ui) /\ CallsShape /\ ui.unsent \in BOOLEAN
  BY Numbers DEF SessBody, AnswerFits
<1>1. CASE StreamFails
  <2>1. /\ faults' = faults + 1 /\ UNCHANGED <<server, calls>>
        /\ (ui' = [ui EXCEPT !.stream = "closed", !.err = TRUE] \/ ui' = [ui EXCEPT !.stream = "dropped"])
    BY <1>1 DEF StreamFails, Page, GivesUp
  <2>2. ui'.events = ui.events /\ ui'.meta = ui.meta /\ ui'.bar = ui.bar /\ ui'.unsent = ui.unsent
    BY <1>0, <2>1 DEF SessUi, SessFields
  <2>3. BarFits'
    BY <2>1, <2>2, BarStays
  <2> QED BY <1>0, <2>1, <2>2, <2>3, AnswersFail
<1>2. ASSUME NEW c \in Slots, Fail(c) PROVE AnswerFits'
  <2>1. /\ calls'[c] = [op |-> calls[c].op, arg |-> calls[c].arg, at |-> "failed", got |-> Nothing]
        /\ \A d \in Slots \ {c} : calls'[d] = calls[d]
        /\ UNCHANGED <<ui, server>> /\ faults' = faults + 1
    BY <1>0, <1>2, FailEffect
  <2>2. BarFits'
    BY <2>1, BarStays
  <2> QED BY <1>0, <2>1, <2>2, AnswersFail
<1> QED BY <1>1, <1>2

(* Events come, by a load or by the stream. *)
LEMMA AnswersAdd ==
    ASSUME SessBody, AnswerFits, UNCHANGED <<server, faults>>, QuietCalls,
           NEW from \in 0..ui.last, NEW to \in 0..Len(server.log),
           NEW v, v = AddEvents(ui, from, to), NEW u, SessUi(u), Shows(u),
           \A f \in {"events", "last", "bar", "unsent"} : u[f] = v[f],
           u.meta \in {ui.meta, "live"} \/ server.status # "live"
    PROVE  AnswerFits'
<1>0. /\ SessUi(ui) /\ Transcript(ui) /\ ui.last \in Nat /\ Len(server.log) \in Nat
      /\ ui.last <= Len(server.log) /\ server.log \in Seq(LogKinds) /\ ui.unsent \in BOOLEAN
      /\ IsBar(ui.bar) /\ ui.bar.of = Probed(ui, server.log)
  BY Numbers DEF AnswerFits, BarFits
<1>1. Grown(ui, v, to)
  <2>1. from \in Nat /\ from <= ui.last /\ to \in Nat /\ to <= Len(server.log)
    BY <1>0
  <2> QED BY <1>0, <2>1, AddEventsGrows
<1>2. /\ Transcript(v) /\ v.bar = ui.bar /\ v.unsent = ui.unsent
      /\ v.last = (IF to > ui.last THEN to ELSE ui.last) /\ (to <= ui.last => v = ui)
  BY <1>1 DEF Grown, Same, SessFields
<1>3. u.events = v.events /\ u.last = v.last /\ u.bar = ui.bar /\ u.unsent = ui.unsent
  BY <1>2
<1>4. /\ BarFits' /\ ui'.unsent = ui.unsent
      /\ ui'.bar = (IF Probed(u, server.log) = u.bar.of THEN u.bar
                    ELSE [of |-> Probed(u, server.log), n |-> u.bar.n + 1, busy |-> FALSE, answered |-> FALSE])
  BY <1>0, <1>3, BarShown
<1>5. ui'.events = v.events /\ ui'.last = v.last
  <2>1. ui'.events = u.events /\ ui'.last = u.last
    BY ShowsEffect DEF SessFields
  <2> QED BY <1>3, <2>1
<1>6. ASSUME server.status = "live" PROVE SpentStay(ui, ui')
  <2>1. CASE to > ui.last
    <3>1. v.last > ui.last /\ v.last \in Nat
      BY <1>0, <1>2, <2>1
    <3>2. \A k \in 1..ui.last : Beyond(v, k)
      BY <1>0, <1>2, <3>1, GrownPasses
    <3>3. \A k \in 1..ui.last : Beyond(ui', k)
      BY <1>5, <3>2 DEF Beyond
    <3>4. ui'.last \in Nat /\ ui.last <= ui'.last
      BY <1>0, <1>5, <3>1
    <3> QED BY <1>0, <3>3, <3>4, PassedBy
  <2>2. CASE to <= ui.last
    <3>1. v = ui
      BY <1>2, <2>2
    <3>2. ui'.events = ui.events /\ ui'.last = ui.last /\ u.events = ui.events
      BY <1>3, <1>5, <3>1
    <3> SUFFICES ASSUME NEW k, Spent(ui, k) PROVE Spent(ui', k)
      BY DEF SpentStay
    <3>3. CASE Beyond(ui, k)
      BY <3>2, <3>3 DEF Spent, Beyond
    <3>4. CASE ui.bar.of = k /\ (ui.bar.busy \/ ui.bar.answered)
      <4>1. k = Probed(ui, server.log) /\ k # 0 /\ ui.meta = "live"
        <5>1. k = Probed(ui, server.log) /\ k # 0
          BY <1>0, <3>4 DEF Spent
        <5> QED BY <1>0, <5>1, ProbedIs
      <4>2. u.meta = "live"
        BY <1>6, <4>1
      <4>3. Probed(u, server.log) = k
        BY <3>2, <4>1, <4>2 DEF Probed
      <4>4. ui'.bar = ui.bar
        BY <1>3, <1>4, <3>4, <4>3
      <4> QED BY <3>2, <3>4, <4>4 DEF Spent
    <3> QED BY <3>3, <3>4 DEF Spent
  <2> QED BY <1>0, <2>1, <2>2
<1>7. Calm' => Calm /\ SpentStay(ui, ui')
  BY <1>4, <1>6 DEF Calm
<1> QED BY <1>0, <1>4, <1>7, QuietKeeps

LEMMA AnswersStreamed ==
    ASSUME SessBody, AnswerFits, StreamEvent \/ StreamEnded
    PROVE  AnswerFits'
<1>0. /\ ui.last \in Nat /\ ui.pos \in Nat /\ ui.pos <= ui.last /\ ui.last <= Len(server.log)
      /\ Len(server.log) \in Nat /\ SessUi(ui) /\ Transcript(ui) /\ server.log \in Seq(LogKinds)
      /\ UNCHANGED <<server, calls, faults>>
  BY Numbers DEF StreamEvent, StreamEnded, Only
<1>1. QuietCalls
  BY <1>0 DEF QuietCalls
<1>2. CASE StreamEvent
  <2>1. PICK to : to = ui.pos + 1 /\ to \in 0..Len(server.log)
    BY <1>0, <1>2 DEF StreamEvent
  <2>2. PICK v : v = AddEvents(ui, ui.pos, to)
    OBVIOUS
  <2>3. PICK u : u = [v EXCEPT !.pos = @ + 1]
    OBVIOUS
  <2>4. Shows(u)
    BY <1>2, <2>1, <2>2, <2>3 DEF StreamEvent
  <2>5. SessUi(v) /\ v.meta = ui.meta
    <3>1. Grown(ui, v, to)
      <4>1. to \in Nat /\ to <= Len(server.log)
        BY <1>0, <2>1
      <4> QED BY <1>0, <2>2, <4>1, AddEventsGrows
    <3> QED BY <3>1 DEF Grown, Same, SessFields
  <2>6. SessUi(u) /\ u.meta = ui.meta /\ \A f \in {"events", "last", "bar", "unsent"} : u[f] = v[f]
    BY <2>3, <2>5 DEF SessUi, SessFields
  <2>7. ui.pos \in 0..ui.last
    BY <1>0
  <2> QED BY <1>0, <1>1, <2>1, <2>2, <2>4, <2>6, <2>7, AnswersAdd
<1>3. CASE StreamEnded
  <2>1. PICK u : u = [ui EXCEPT !.meta = "ended"]
    OBVIOUS
  <2>2. Shows(u) /\ server.status # "live"
    BY <1>3, <2>1 DEF StreamEnded
  <2>3. PICK v : v = AddEvents(ui, ui.last, ui.last)
    OBVIOUS
  <2>4. v = ui
    <3>1. ui.last \in Nat /\ ui.last <= ui.last
      BY <1>0
    <3>2. Grown(ui, v, ui.last)
      BY <1>0, <2>3, <3>1, AddEventsGrows
    <3> QED BY <3>1, <3>2 DEF Grown
  <2>5. SessUi(u) /\ \A f \in {"events", "last", "bar", "unsent"} : u[f] = v[f]
    BY <1>0, <2>1, <2>4 DEF SessUi, SessFields
  <2>6. ui.last \in 0..ui.last /\ ui.last \in 0..Len(server.log)
    BY <1>0
  <2> QED BY <1>0, <1>1, <2>2, <2>3, <2>5, <2>6, AnswersAdd
<1> QED BY <1>2, <1>3

LEMMA AnswersLoaded ==
    ASSUME SessBody, AnswerFits, NEW c \in Slots, SessLoaded(c)
    PROVE  AnswerFits'
<1>0. /\ ui.last \in Nat /\ ui.last <= Len(server.log) /\ Len(server.log) \in Nat /\ SessUi(ui)
      /\ Transcript(ui) /\ server.log \in Seq(LogKinds) /\ CallsShape
      /\ UNCHANGED <<server, faults>> /\ Done(c) /\ CallFits(calls[c], ui.last, server)
  BY Numbers DEF SessBody, CallsFit, SessLoaded, Only
<1>1. QuietCalls
  BY <1>0, DoneIsQuiet
<1>2. CASE Ok(c, "load") /\ calls[c].got.status # "gone"
  <2>1. PICK from, to, status : from = calls[c].arg /\ to = calls[c].got.upto /\ status = calls[c].got.status
    OBVIOUS
  <2>2. from \in 0..ui.last /\ to \in 0..Len(server.log) /\ status \in {"live", "ended"}
        /\ (status = "ended" => server.status # "live")
    BY <1>0, <1>2, <2>1 DEF CallFits, Ok, Statuses
  <2>3. PICK v : v = AddEvents(ui, from, to)
    OBVIOUS
  <2>4. SessUi(v)
    <3>1. from \in Nat /\ from <= ui.last /\ to \in Nat /\ to <= Len(server.log)
      BY <1>0, <2>2
    <3>2. Grown(ui, v, to)
      BY <1>0, <2>3, <3>1, AddEventsGrows
    <3> QED BY <3>2 DEF Grown
  <2>5. PICK u : u = [v EXCEPT !.meta = status, !.gate = Nothing]
    OBVIOUS
  <2>6. Shows(u)
    BY <1>2, <2>1, <2>3, <2>5 DEF SessLoaded
  <2>7. SessUi(u) /\ u.meta = status /\ \A f \in {"events", "last", "bar", "unsent"} : u[f] = v[f]
    BY <2>4, <2>5 DEF SessUi, SessFields
  <2>8. u.meta \in {ui.meta, "live"} \/ server.status # "live"
    BY <2>2, <2>7
  <2> QED BY <1>0, <1>1, <2>2, <2>3, <2>6, <2>7, <2>8, AnswersAdd
<1>3. CASE ~(Ok(c, "load") /\ calls[c].got.status # "gone")
  <2>1. ui' = ui \/ \E g : ui' = [ui EXCEPT !.gate = g]
    BY <1>3 DEF SessLoaded, Page
  <2>2. \A f \in {"events", "last", "meta", "bar", "unsent"} : ui'[f] = ui[f]
    BY <1>0, <2>1 DEF SessUi, SessFields
  <2> QED BY <1>0, <1>1, <2>2, AnswersAside
<1> QED BY <1>2, <1>3

(* The visitor's comment comes after every event. *)
LEMMA AnswersSent ==
    ASSUME SessBody, AnswerFits, SendComment
    PROVE  AnswerFits'
<1>0. /\ SessUi(ui) /\ Transcript(ui) /\ ui.last \in Nat /\ CallsShape /\ UNCHANGED <<server, faults>>
      /\ Tidy(ui.events) /\ ui.events \in Seq(Marks) /\ Len(ui.events) \in Nat
      /\ ui.unsent \in BOOLEAN /\ IsBar(ui.bar)
  BY Numbers, TidyType DEF SessBody, SendComment, Only, AnswerFits, BarFits, Transcript
<1>1. PICK id : id = 0 - ui.sent - 1 /\ id \in Int
  BY Numbers
<1>2. PICK e, ev : e = [id |-> id, at |-> LastAt(ui) + 1] /\ ev = Append(ui.events, e)
  OBVIOUS
<1>3. PICK u : u = [ui EXCEPT !.sent = @ + 1, !.failed = FALSE, !.echoes = @ \cup {id}, !.events = ev]
  OBVIOUS
<1>4. Shows(u) /\ Fetch("comment", id)
  <2>1. [ui EXCEPT !.sent = @ + 1, !.failed = FALSE, !.echoes = @ \cup {id},
                   !.events = Append(@, [id |-> id, at |-> LastAt(ui) + 1])] = u
    BY <1>0, <1>2, <1>3 DEF SessUi, SessFields
  <2> QED BY <1>1, <2>1 DEF SendComment
<1>5. SessUi(u) /\ u.events = ev /\ u.last = ui.last /\ u.bar = ui.bar /\ u.unsent = ui.unsent
  BY <1>0, <1>3 DEF SessUi, SessFields
<1>6. BarFits' /\ ui'.unsent = ui.unsent
  BY <1>0, <1>4, <1>5, BarShown
<1>7. ui'.events = ev /\ ui'.last = ui.last
  <2>1. ui'.events = u.events /\ ui'.last = u.last
    BY <1>4, <1>5, ShowsEffect DEF SessFields
  <2> QED BY <1>5, <2>1
<1>8. ASSUME NEW k \in 1..ui.last PROVE Beyond(ui', k)
  <2>1. PICK j \in 1..Len(ui.events) : ui.events[j] = At(k)
    BY <1>0 DEF Transcript, Has
  <2>2. ui.events[j].at = 2 * k
    <3>1. k \in Int
      OBVIOUS
    <3>2. At(k).at = 2 * k
      BY <3>1, AtIsMark
    <3> QED BY <2>1, <3>2
  <2>3. PICK n \in Nat : n = Len(ui.events) /\ n >= 1 /\ ui.events # <<>>
    BY <1>0, <2>1
  <2>4. LastAt(ui) = ui.events[n].at /\ ui.events[n].at \in Int
    BY <1>0, <2>3, TidyType DEF LastAt, Last
  <2>5. 2 * k <= ui.events[n].at
    <3>1. CASE j = n
      BY <2>2, <2>4, <3>1
    <3>2. CASE j # n
      BY <1>0, <2>2, <2>3, <3>2 DEF Tidy
    <3> QED BY <3>1, <3>2
  <2>6. e \in Marks /\ e.at = LastAt(ui) + 1
    BY <1>1, <1>2, <2>4 DEF Marks
  <2>7. Len(ev) = n + 1 /\ ev[n + 1] = e
    BY <1>0, <1>2, <2>3, <2>6
  <2>8. e.at > 2 * k /\ n + 1 \in 1..Len(ev)
    BY <2>3, <2>4, <2>5, <2>6, <2>7
  <2> QED BY <1>7, <2>7, <2>8 DEF Beyond
<1>9. SpentStay(ui, ui')
  BY <1>0, <1>7, <1>8, PassedBy
<1>10. QuietCalls
  BY <1>0, <1>4, FetchIsQuiet
<1> QED BY <1>0, <1>6, <1>9, <1>10, QuietKeeps DEF Calm

LEMMA AnswersComment ==
    ASSUME SessBody, AnswerFits, NEW c \in Slots, CommentAnswered(c)
    PROVE  AnswerFits'
<1>0. /\ SessUi(ui) /\ CallsShape /\ UNCHANGED <<server, faults>> /\ Done(c) /\ IsBar(ui.bar)
  BY Numbers DEF SessBody, CommentAnswered, Only, AnswerFits, BarFits
<1>1. QuietCalls
  BY <1>0, DoneIsQuiet
<1>2. CASE Ok(c, "comment")
  <2>1. UNCHANGED ui
    BY <1>2 DEF CommentAnswered
  <2> QED BY <1>0, <1>1, <2>1, AnswersAside
<1>3. CASE ~Ok(c, "comment")
  <2>1. PICK u : u = [ui EXCEPT !.echoes = @ \ {calls[c].arg}, !.events = Without(@, calls[c].arg),
                                !.failed = TRUE, !.unsent = TRUE]
    OBVIOUS
  <2>2. Shows(u)
    BY <1>3, <2>1 DEF CommentAnswered
  <2>3. SessUi(u) /\ u.bar = ui.bar /\ u.unsent = TRUE
    BY <1>0, <2>1 DEF SessUi, SessFields
  <2>4. BarFits' /\ ui'.unsent = TRUE
    BY <1>0, <2>2, <2>3, BarShown
  <2>5. ~Calm'
    BY <2>4 DEF Calm
  <2> QED BY <1>0, <1>1, <2>4, <2>5, QuietKeeps
<1> QED BY <1>2, <1>3

(* The owner's answer: the bar offers no second one. *)
LEMMA AnswerGoesOut ==
    ASSUME SessBody, AnswerFits, Decide
    PROVE  AnswerFits'
<1>0. /\ SessUi(ui) /\ Transcript(ui) /\ CallsShape /\ UNCHANGED <<server, faults>>
      /\ ui.unsent \in BOOLEAN /\ IsBar(ui.bar) /\ ui.bar.of = Probed(ui, server.log)
      /\ ui.bar.of # 0 /\ ~ui.bar.answered /\ ~ui.bar.busy
  BY Numbers DEF SessBody, Decide, Only, AnswerFits, BarFits
<1>1. PICK k, b, new : k = ui.bar.of /\ b = [ui.bar EXCEPT !.busy = TRUE] /\ new = [n |-> ui.bar.n, of |-> k]
  OBVIOUS
<1>2. k \in Nat /\ k \in 1..ui.last /\ ~Beyond(ui, k)
  BY <1>0, <1>1, ProbedIs
<1>3. ui' = [ui EXCEPT !.bar = b] /\ Fetch("decide", new)
  BY <1>0, <1>1 DEF Decide, Page, SessUi, SessFields
<1>4. IsBar(b) /\ b.of = k /\ b.busy = TRUE
  BY <1>0, <1>1 DEF IsBar
<1>5. /\ ui'.bar = b /\ ui'.events = ui.events /\ ui'.last = ui.last /\ ui'.meta = ui.meta
      /\ ui'.unsent = ui.unsent
  BY <1>0, <1>3 DEF SessUi, SessFields
<1>6. BarFits'
  <2>1. Probed(ui', server'.log) = Probed(ui, server.log)
    BY <1>0, <1>5 DEF Probed
  <2> QED BY <1>0, <1>1, <1>4, <1>5, <2>1 DEF BarFits
<1>7. PICK s \in Slots : calls[s] = Free /\ calls'[s] = Request("decide", new) /\ \A d \in Slots \ {s} : calls'[d] = calls[d]
  BY <1>0, <1>3, FetchEffect
<1>8. new.of = k /\ calls'[s].op = "decide" /\ calls'[s].at = "sent" /\ calls'[s].arg = new
  BY <1>1, <1>7 DEF Request
<1>9. SpentStay(ui, ui') /\ Spent(ui', k)
  <2>1. \A j : Beyond(ui', j) <=> Beyond(ui, j)
    BY <1>5 DEF Beyond
  <2> QED BY <1>1, <1>2, <1>4, <1>5, <2>1 DEF SpentStay, Spent
<1>10. ~Spent(ui, k)
  BY <1>0, <1>2 DEF Spent
<1>11. ASSUME Calm' PROVE CalmFits'
  <2>1. CalmFits
    BY <1>0, <1>5, <1>11 DEF Calm, AnswerFits
  <2>2. \A i \in 1..Len(server.answered) : server.answered[i] # k
    BY <1>10, <2>1 DEF CalmFits
  <2>3. \A c \in Slots : Answering(calls[c]) => calls[c].arg.of # k
    BY <1>10, <2>1 DEF CalmFits
  <2>4. \A c \in Slots : calls'[c].op = "decide" => calls'[c].at \in {"sent", "ok"}
    BY <1>7, <1>8, <2>1 DEF CalmFits
  <2>5. \A c \in Slots : Answering(calls'[c]) => c = s \/ (Answering(calls[c]) /\ calls'[c] = calls[c])
    BY <1>7
  <2>6. \A c \in Slots : Answering(calls'[c]) =>
          /\ Spent(ui', calls'[c].arg.of)
          /\ \A i \in 1..Len(server.answered) : server.answered[i] # calls'[c].arg.of
    BY <1>8, <1>9, <2>1, <2>2, <2>5 DEF CalmFits, SpentStay
  <2>7. \A c, d \in Slots : Answering(calls'[c]) /\ Answering(calls'[d]) /\ c # d => calls'[c].arg.of # calls'[d].arg.of
    BY <1>8, <2>1, <2>3, <2>5 DEF CalmFits
  <2>8. \A i \in 1..Len(server.answered) : Spent(ui', server.answered[i])
    BY <1>9, <2>1 DEF CalmFits, SpentStay
  <2> QED BY <1>0, <2>4, <2>6, <2>7, <2>8 DEF CalmFits
<1>12. \A c \in Slots : calls'[c].op = "decide" => calls'[c].arg.of \in Nat
  BY <1>2, <1>7, <1>8 DEF AnswerFits
<1> QED BY <1>0, <1>5, <1>6, <1>11, <1>12 DEF AnswerFits

LEMMA AnswerComesBack ==
    ASSUME SessBody, AnswerFits, NEW c \in Slots, DecisionAnswered(c)
    PROVE  AnswerFits'
<1>0. /\ SessUi(ui) /\ CallsShape /\ UNCHANGED <<server, faults>> /\ Done(c) /\ IsBar(ui.bar)
      /\ calls[c].op = "decide"
  BY Numbers DEF SessBody, DecisionAnswered, Only, AnswerFits, BarFits, Back, Ok, Failed
<1>1. QuietCalls
  BY <1>0, DoneIsQuiet
<1>2. CASE calls[c].arg.n # ui.bar.n
  <2>1. ui' = ui
    BY <1>2 DEF DecisionAnswered, Page
  <2> QED BY <1>0, <1>1, <2>1, AnswersAside
<1>3. CASE calls[c].arg.n = ui.bar.n
  <2>1. PICK b : b = [[ui.bar EXCEPT !.busy = FALSE] EXCEPT !.answered = Ok(c, "decide")]
    OBVIOUS
  <2>2. ui' = [ui EXCEPT !.bar = b]
    <3>1. ui' = [ui EXCEPT !.bar.busy = FALSE, !.bar.answered = Ok(c, "decide")]
      BY <1>3 DEF DecisionAnswered, Page
    <3>2. PICK v : v = [ui EXCEPT !.bar.busy = FALSE] /\ ui' = [v EXCEPT !.bar.answered = Ok(c, "decide")]
      BY <3>1
    <3> QED BY <1>0, <2>1, <3>2 DEF SessUi, SessFields
  <2>3. IsBar(b) /\ b.of = ui.bar.of /\ b.answered = Ok(c, "decide")
    BY <1>0, <2>1 DEF IsBar
  <2>4. /\ ui'.bar = b /\ ui'.events = ui.events /\ ui'.last = ui.last /\ ui'.meta = ui.meta
        /\ ui'.unsent = ui.unsent
    BY <1>0, <2>2 DEF SessUi, SessFields
  <2>5. BarFits'
    <3>1. Probed(ui', server'.log) = Probed(ui, server.log)
      BY <1>0, <2>4 DEF Probed
    <3> QED BY <2>3, <2>4, <3>1 DEF AnswerFits, BarFits
  <2>6. ASSUME Calm' PROVE Calm /\ SpentStay(ui, ui')
    <3>1. Calm
      BY <1>0, <2>4, <2>6 DEF Calm
    <3>2. Ok(c, "decide")
      BY <1>0, <3>1 DEF AnswerFits, CalmFits, DecisionAnswered, Back, Ok, Failed
    <3>3. \A k : Beyond(ui', k) <=> Beyond(ui, k)
      BY <2>4 DEF Beyond
    <3> QED BY <2>3, <2>4, <3>1, <3>2, <3>3 DEF SpentStay, Spent
  <2>7. ui.unsent \in BOOLEAN
    BY DEF AnswerFits
  <2> QED BY <1>0, <1>1, <2>4, <2>5, <2>6, <2>7, QuietKeeps
<1> QED BY <1>2, <1>3

(* The API takes the answer to a request that it has none of. *)
OneMoreIn(t, s, k) ==
    /\ IsInjective(t)
    /\ Len(t) = Len(s) + 1 /\ t[Len(s) + 1] = k /\ \A i \in 1..Len(s) : t[i] = s[i]

LEMMA OneMore ==
    ASSUME NEW s \in Seq(Nat), IsInjective(s), NEW k \in Nat, \A i \in 1..Len(s) : s[i] # k,
           NEW t, t = Append(s, k)
    PROVE  OneMoreIn(t, s, k)
<1>1. PICK n \in Nat : n = Len(s) /\ DOMAIN s = 1..n
  OBVIOUS
<1>2. t \in Seq(Nat) /\ Len(t) = n + 1 /\ DOMAIN t = 1..(n + 1) /\ t[n + 1] = k /\ \A i \in 1..n : t[i] = s[i]
  BY <1>1
<1>3. \A i \in 1..(n + 1) : i = n + 1 \/ i \in 1..n
  OBVIOUS
<1>4. \A i, j \in 1..n : s[i] = s[j] => i = j
  BY <1>1 DEF IsInjective
<1>5. \A i, j \in 1..(n + 1) : t[i] = t[j] => i = j
  <2> TAKE i, j \in 1..(n + 1)
  <2>1. CASE i \in 1..n /\ j \in 1..n
    BY <1>2, <1>4, <2>1
  <2>2. CASE i = n + 1 \/ j = n + 1
    BY <1>1, <1>2, <1>3, <2>2
  <2> QED BY <1>3, <2>1, <2>2
<1>6. IsInjective(t)
  BY <1>2, <1>5 DEF IsInjective
<1> QED BY <1>1, <1>2, <1>6 DEF OneMoreIn

LEMMA AnswersElsewhere ==
    ASSUME SessBody, AnswerFits, UNCHANGED <<ui, faults>>, QuietCalls, server'.answered = server.answered,
           server.status # "live" => server'.status # "live",
           \/ server'.log = server.log
           \/ \E x \in LogKinds : server'.log = Append(server.log, x)
    PROVE  AnswerFits'
<1>1. BarFits'
  BY BarStays
<1>2. SpentStay(ui, ui') /\ (Calm' => Calm) /\ ui.unsent \in BOOLEAN
  BY ConsSpent DEF Calm, AnswerFits
<1> QED BY <1>1, <1>2, QuietKeeps

LEMMA AnswersServed ==
    ASSUME SessBody, AnswerFits, NEW c \in Slots, ServeSessLoad(c) \/ ServeComment(c)
    PROVE  AnswerFits'
<1>0. /\ CallsShape /\ UNCHANGED <<ui, faults>> /\ calls[c].op \in {"load", "comment"}
      /\ server = [log |-> server.log, status |-> server.status, answered |-> server.answered]
  BY DEF SessBody, Held, ServeSessLoad, ServeComment, Sent, Only
<1>1. QuietCalls
  <2>0. calls[c].op # "none" /\ calls[c].op # "decide"
    BY <1>0
  <2>1. ASSUME NEW got, Answer(c, got) PROVE QuietCalls
    <3>1. /\ calls'[c] = [op |-> calls[c].op, arg |-> calls[c].arg, at |-> "ok", got |-> got]
          /\ \A d \in Slots \ {c} : calls'[d] = calls[d]
      BY <1>0, <2>0, <2>1, AnswerEffect
    <3>2. calls'[c].op # "decide"
      BY <2>0, <3>1
    <3> QED BY <3>1, <3>2 DEF QuietCalls
  <2>2. CASE calls' = [calls EXCEPT ![c].at = "failed"]
    <3>1. calls'[c].op # "decide" /\ \A d \in Slots \ {c} : calls'[d] = calls[d]
      BY <1>0, <2>0, <2>2, FailedEffect
    <3> QED BY <3>1 DEF QuietCalls
  <2> QED BY <2>1, <2>2 DEF ServeSessLoad, ServeComment
<1>2. \/ UNCHANGED server
      \/ server.status = "live" /\ server' = [server EXCEPT !.log = Append(@, "hi")]
  BY DEF ServeSessLoad, ServeComment, Only
<1>3. "hi" \in LogKinds
  BY DEF LogKinds
<1>4. /\ server'.answered = server.answered /\ (server.status # "live" => server'.status # "live")
      /\ server'.log = server.log \/ \E x \in LogKinds : server'.log = Append(server.log, x)
  BY <1>0, <1>2, <1>3
<1> QED BY <1>0, <1>1, <1>4, AnswersElsewhere

LEMMA AnswerServed ==
    ASSUME SessBody, AnswerFits, NEW c \in Slots, ServeDecision(c)
    PROVE  AnswerFits'
<1>0. /\ CallsShape /\ UNCHANGED <<ui, faults>> /\ calls[c].op = "decide" /\ calls[c].at = "sent"
      /\ server = [log |-> server.log, status |-> server.status, answered |-> server.answered]
      /\ server.answered \in Seq(Nat) /\ calls[c].arg.of \in Nat
  BY DEF SessBody, Held, ServeDecision, Sent, Only, AnswerFits
<1>1. CASE server.status # "live"
  <2>1. UNCHANGED server /\ calls' = [calls EXCEPT ![c].at = "failed"]
    BY <1>1 DEF ServeDecision
  <2>2. calls'[c].op = calls[c].op /\ calls'[c].arg = calls[c].arg /\ \A d \in Slots \ {c} : calls'[d] = calls[d]
    BY <1>0, <2>1, FailedEffect
  <2>3. BarFits'
    BY <1>0, <2>1, BarStays
  <2>4. ~Calm'
    BY <1>1, <2>1 DEF Calm
  <2>5. \A d \in Slots : calls'[d].op = "decide" => calls'[d].arg.of \in Nat
    BY <1>0, <2>2 DEF AnswerFits
  <2> QED BY <1>0, <2>1, <2>3, <2>4, <2>5 DEF AnswerFits
<1>2. CASE server.status = "live"
  <2>1. PICK k : k = calls[c].arg.of
    OBVIOUS
  <2>2. /\ server' = [server EXCEPT !.log = Append(@, "decision"), !.answered = Append(@, k)]
        /\ Answer(c, "created")
    BY <1>2, <2>1 DEF ServeDecision
  <2>3. /\ calls'[c] = [op |-> calls[c].op, arg |-> calls[c].arg, at |-> "ok", got |-> "created"]
        /\ \A d \in Slots \ {c} : calls'[d] = calls[d]
    BY <1>0, <2>2, AnswerEffect
  <2>4. PICK old, new : old = server.answered /\ new = server'.answered
    OBVIOUS
  <2>5. new = Append(old, k) /\ server'.log = Append(server.log, "decision") /\ server'.status = "live"
    BY <1>0, <1>2, <2>2, <2>4
  <2>6. BarFits'
    <3>1. "decision" \in LogKinds
      BY DEF LogKinds
    <3> QED BY <1>0, <2>5, <3>1, BarStays
  <2>7. new \in Seq(Nat)
    BY <1>0, <2>1, <2>4, <2>5
  <2>8. ASSUME faults' = 0, ~ui'.unsent PROVE IsInjective(new) /\ CalmFits'
    <3>1. CalmFits /\ IsInjective(old)
      BY <1>0, <1>2, <2>4, <2>8 DEF AnswerFits, Calm
    <3>2. Answering(calls[c]) /\ Spent(ui, k) /\ \A i \in 1..Len(old) : old[i] # k
      BY <1>0, <2>1, <2>4, <3>1 DEF CalmFits, Answering
    <3>3. /\ IsInjective(new) /\ Len(new) = Len(old) + 1 /\ new[Len(old) + 1] = k
          /\ \A i \in 1..Len(old) : new[i] = old[i]
      <4>1. old \in Seq(Nat) /\ k \in Nat
        BY <1>0, <2>1, <2>4
      <4>2. OneMoreIn(new, old, k)
        BY <2>5, <3>1, <3>2, <4>1, OneMore
      <4> QED BY <4>2 DEF OneMoreIn
    <3>4. \A i \in 1..Len(new) : i = Len(old) + 1 \/ i \in 1..Len(old)
      BY <1>0, <2>4, <3>3
    <3>5. \A d \in Slots : Answering(calls'[d]) => d # c /\ calls'[d] = calls[d] /\ Answering(calls[d])
      BY <2>3 DEF Answering
    <3>6. \A d \in Slots : Answering(calls'[d]) =>
            Spent(ui, calls'[d].arg.of) /\ \A i \in 1..Len(new) : new[i] # calls'[d].arg.of
      <4> TAKE d \in Slots
      <4> HAVE Answering(calls'[d])
      <4>1. d # c /\ calls'[d] = calls[d] /\ Answering(calls[d])
        BY <3>5
      <4>2. calls[d].arg.of # k /\ Spent(ui, calls[d].arg.of)
            /\ \A i \in 1..Len(old) : old[i] # calls[d].arg.of
        BY <2>1, <2>4, <3>1, <3>2, <4>1 DEF CalmFits
      <4> QED BY <3>3, <3>4, <4>1, <4>2
    <3>7. \A i \in 1..Len(new) : Spent(ui, new[i])
      BY <2>4, <3>1, <3>2, <3>3, <3>4 DEF CalmFits
    <3>8. \A d \in Slots : calls'[d].op = "decide" => calls'[d].at \in {"sent", "ok"}
      BY <2>3, <3>1 DEF CalmFits
    <3>9. \A d, e \in Slots : Answering(calls'[d]) /\ Answering(calls'[e]) /\ d # e => calls'[d].arg.of # calls'[e].arg.of
      BY <3>1, <3>5 DEF CalmFits
    <3> QED BY <1>0, <2>4, <3>3, <3>6, <3>7, <3>8, <3>9 DEF CalmFits
  <2>9. \A d \in Slots : calls'[d].op = "decide" => calls'[d].arg.of \in Nat
    BY <1>0, <2>3 DEF AnswerFits
  <2> QED BY <1>0, <2>4, <2>6, <2>7, <2>8, <2>9 DEF AnswerFits, Calm
<1> QED BY <1>1, <1>2

LEMMA AnswersOthers ==
    ASSUME SessBody, AnswerFits, SessElsewhere
    PROVE  AnswerFits'
<1>1. UNCHANGED <<ui, calls, faults>>
      /\ server = [log |-> server.log, status |-> server.status, answered |-> server.answered]
  BY DEF SessElsewhere, Elsewhere, SessBody, Held
<1>2. \/ \E kind \in LogKinds : server.status = "live" /\ server' = [server EXCEPT !.log = Append(@, kind)]
      \/ server' = [server EXCEPT !.status = "ended"]
      \/ server' = [server EXCEPT !.status = "gone"]
  BY DEF SessElsewhere, Elsewhere, LogKinds
<1>3. /\ server'.answered = server.answered /\ (server.status # "live" => server'.status # "live")
      /\ server'.log = server.log \/ \E x \in LogKinds : server'.log = Append(server.log, x)
  BY <1>1, <1>2
<1>4. QuietCalls
  BY <1>1 DEF QuietCalls
<1> QED BY <1>1, <1>3, <1>4, AnswersElsewhere

LEMMA AnswersStart == SessInit => AnswerFits
<1> SUFFICES ASSUME SessInit PROVE AnswerFits
  OBVIOUS
<1>1. PICK rendered, kind :
        /\ rendered \in BOOLEAN /\ kind \in {"reply", "ask"}
        /\ ui = [meta |-> IF rendered THEN "live" ELSE Nothing,
                 events |-> IF rendered THEN <<At(1)>> ELSE <<>>,
                 last |-> IF rendered THEN 1 ELSE 0, echoes |-> {}, sent |-> 0,
                 gate |-> Nothing, err |-> FALSE, failed |-> FALSE, unsent |-> FALSE,
                 stream |-> IF rendered THEN "connecting" ELSE "off", pos |-> IF rendered THEN 1 ELSE 0,
                 bar |-> [of |-> IF rendered /\ kind = "ask" THEN 1 ELSE 0, n |-> 0,
                          busy |-> FALSE, answered |-> FALSE]]
        /\ server = [log |-> <<kind>>, status |-> "live", answered |-> <<>>]
        /\ calls = [NoCalls EXCEPT ![1] = Request("load", 0)]
        /\ faults = 0
  BY DEF SessInit, Opens
<1>2. IsBar(ui.bar) /\ ui.bar.of = (IF rendered /\ kind = "ask" THEN 1 ELSE 0)
  BY <1>1 DEF IsBar
<1>3. Probed(ui, server.log) = (IF rendered /\ kind = "ask" THEN 1 ELSE 0)
  <2>1. CASE rendered
    <3>1. PICK ev : ev = <<At(1)>>
      OBVIOUS
    <3>2. ui.events = ev /\ ui.meta = "live"
      BY <1>1, <2>1, <3>1
    <3>3. At(1) \in Marks /\ At(1).id = 1
      BY AtIsMark
    <3>4. ev # <<>> /\ Last(ev) = At(1)
      BY <3>1, <3>3 DEF Last
    <3>5. PICK log : log = <<kind>>
      OBVIOUS
    <3>6. server.log = log
      BY <1>1, <3>5
    <3>7. log[1] = kind
      BY <3>5
    <3> QED BY <2>1, <3>2, <3>3, <3>4, <3>6, <3>7 DEF Probed
  <2>2. CASE ~rendered
    BY <1>1, <2>2, SessAssumption DEF Probed
  <2> QED BY <1>1, <2>1, <2>2
<1>4. server.answered = <<>> /\ faults = 0 /\ ui.unsent = FALSE
  BY <1>1
<1>5. \A c \in Slots : calls[c].op # "decide"
  BY <1>1 DEF NoCalls, Free, Request
<1>6. server.answered \in Seq(Nat) /\ Len(server.answered) = 0 /\ IsInjective(server.answered)
  BY <1>4 DEF IsInjective
<1>7. CalmFits
  BY <1>5, <1>6 DEF CalmFits, Answering
<1> QED BY <1>2, <1>3, <1>4, <1>5, <1>6, <1>7 DEF AnswerFits, BarFits

LEMMA AnswersHold ==
    /\ Init => AnswerInv
    /\ AnswerInv /\ [Next]_vars => AnswerInv'
<1>1. Init => AnswerInv
  BY InitOn, SessStarts, AnswersStart DEF AnswerInv
<1>2. AnswerInv /\ [Next]_vars => AnswerInv'
  <2> SUFFICES ASSUME AnswerInv, [Next]_vars, OnSession' PROVE SessBody' /\ AnswerFits'
    BY DEF AnswerInv
  <2>1. OnSession /\ SessBody /\ AnswerFits
    BY PagesStay DEF OnSession, AnswerInv
  <2>2. SessBody'
    BY <2>1, SessHolds DEF SessInv
  <2>3. CASE UNCHANGED vars
    <3>1. UNCHANGED <<ui, server, calls, faults>>
      BY <2>3 DEF vars
    <3>2. QuietCalls
      BY <3>1 DEF QuietCalls
    <3> QED BY <2>1, <2>2, <3>1, <3>2, AnswersAside
  <2>4. CASE SessNext
    BY <2>1, <2>2, <2>4, AnswersStreams, AnswersUnderFaults, AnswersStreamed, AnswersLoaded, AnswersSent,
       AnswersComment, AnswerGoesOut, AnswerComesBack, AnswersServed, AnswerServed, AnswersOthers DEF SessNext
  <2>5. CASE \E c \in Slots : Fail(c)
    BY <2>1, <2>2, <2>5, AnswersUnderFaults
  <2> QED BY <2>1, <2>2, <2>3, <2>4, <2>5, NextOn
<1> QED BY <1>1, <1>2

LEMMA AnswersAreOne == AnswerInv => OneAnswer
BY DEF AnswerInv, AnswerFits, OneAnswer
=============================================================================
