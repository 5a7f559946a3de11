------------------------------ MODULE MCPages ------------------------------
(***************************************************************************)
(* The pages of the web client, each for itself: a behaviour starts on one *)
(* of Pages and stays there.                                               *)
(***************************************************************************)
EXTENDS ShareSheet, InvitedPeople, SessionRows, BulkActions, NewSession, AdminPages,
        Sidebar, ListView, FeedPage, SessionPage, TranscriptRows, TailFollow,
        SettingsPages, CommandPalette, SessionStrip, NotificationBell,
        SeenMarks, ThemeChoice, CommentBox, Shell, Popover, LandingReplay

CONSTANT Pages   \* the pages a behaviour may start on

(* Nothing orders the rows that are acted on together, or the machines.     *)
Alike == Permutations(Rows) \cup Permutations(Machines)

Init ==
    /\ \/ ShareInit \/ InvitedInit \/ RowsInit \/ BulkInit \/ NewInit \/ AdminInit
       \/ SideInit \/ ListInit \/ FeedInit \/ SessInit \/ TranscriptInit \/ TailInit
       \/ AppsInit \/ LicencesInit \/ PushInit \/ PaletteInit \/ StripInit \/ BellInit
       \/ SeenInit \/ ThemeInit \/ ComposerInit \/ TypersInit \/ ShellInit \/ PopoverInit \/ MenuInit
       \/ LandingInit
    /\ page \in Pages

Next ==
    \/ ShareNext \/ InvitedNext \/ RowsNext \/ BulkNext \/ NewNext \/ AdminNext
    \/ SideNext \/ ListNext \/ FeedNext \/ SessNext \/ TranscriptNext \/ TailNext
    \/ AppsNext \/ LicencesNext \/ PushNext \/ PaletteNext \/ StripNext \/ BellNext
    \/ SeenNext \/ ThemeNext \/ ComposerNext \/ TypersNext \/ ShellNext \/ PopoverNext \/ MenuNext
    \/ LandingNext
    \/ \E c \in Slots : Fail(c)

Spec == Init /\ [][Next]_vars

(* Timers fire, the API serves what it is sent, what comes back is received *)
(* and an open stream carries what there is.  Nobody has to click.          *)
(* Strong fairness for the timers, which MaxCalls may leave without a slot  *)
(* at times, and for the bell, which aborts a request that is out when the  *)
(* next one is sent: its period is far longer than a request takes.         *)
Polls == (OnRows /\ PollRows) \/ (OnSide /\ PollSide) \/ (OnNew /\ PollHosts) \/ (OnBell /\ PollBell)
         \/ (OnSeen /\ PollBadge)
Serves(c) ==
    \/ OnRows /\ \E i \in 1..(MaxPages + 1) : ServeChunk(c, i)
    \/ OnSide /\ (ServeList(c) \/ ServeConfirm(c) \/ ServeRename(c))
    \/ OnNew /\ (ServeHosts(c) \/ ServeSpawn(c))
    \/ OnSeen /\ (ServeMark(c) \/ ServeBadge(c))
    \/ OnSession /\ (ServeSessLoad(c) \/ ServeComment(c) \/ ServeDecision(c))
Receives(c) ==
    \/ OnRows /\ RowsAnswered(c)
    \/ OnSide /\ (SideLoaded(c) \/ Confirmed(c) \/ Renamed(c))
    \/ OnNew /\ (HostsAnswered(c) \/ SpawnAnswered(c))
    \/ OnSeen /\ (MarkAnswered(c) \/ BadgeAnswered(c))
    \/ OnSession /\ (SessLoaded(c) \/ CommentAnswered(c) \/ DecisionAnswered(c))
Streams ==
    \/ OnSession /\ (StreamOpens \/ StreamRefused \/ StreamEvent \/ StreamEnded \/ StreamDeleted)
    \/ OnSeen /\ EventShown

FairSpec ==
    /\ Spec
    /\ SF_vars(Polls) /\ WF_vars(Streams) /\ SF_vars(OnSeen /\ MarkTimer)
    /\ WF_vars(OnTypers /\ Tick) /\ WF_vars(OnTypers /\ \E w \in Typists : UntilPasses(w))
    /\ \A c \in Slots : WF_vars(Serves(c)) /\ WF_vars(Receives(c))
    /\ SF_vars(OnBell /\ ServeApprovals(1)) /\ SF_vars(OnBell /\ BellAnswered(1))

PagesTypeOK ==
    /\ ShareTypeOK /\ InvitedTypeOK /\ RowsTypeOK /\ BulkTypeOK /\ NewTypeOK /\ AdminTypeOK
    /\ SideTypeOK /\ ListTypeOK /\ FeedTypeOK /\ SessTypeOK /\ TranscriptTypeOK /\ TailTypeOK
    /\ SettingsTypeOK /\ PaletteTypeOK /\ StripTypeOK /\ BellTypeOK
    /\ SeenTypeOK /\ ThemeTypeOK /\ CommentBoxTypeOK /\ ShellTypeOK /\ PopoverTypeOK /\ LandingTypeOK

(* Once everything has come back, what a page shows is what the API holds,  *)
(* or is not ahead of it: through partial failures, requests of two steps,  *)
(* controls of one row saved at once, answers in any order.                 *)
ShownIsHeld ==
    /\ SheetShowsTheRow /\ CardListsTheGrants /\ BulkRowsAreCurrent /\ UsersAreCurrent
    /\ TitlesAgree /\ RevokedStayOut /\ PlanIsCurrent /\ PushIsStored
    /\ StripAgrees /\ NeverAheadOfTheApi /\ SeenWasOnScreen /\ PaletteFitsTheMode /\ GateAgrees
    /\ RefusalIsTold

(* What a page lists, offers, asks or leaves for is of what was asked last: *)
(* the filter, the query, the machine, the dialog that is up, the row that  *)
(* is highlighted.                                                          *)
AnswersFitTheQuestion ==
    RowsOfTheFilter /\ ItemsAreOfTheQuery /\ LoadingIsOut /\ OneMachinesOffer
    /\ LeavesForAnAgent /\ AskedIsShown /\ EnterRunsAListedRow /\ GateOpens /\ ReplayIsFound

(* No key, blur, second click or reopened popover sends a thing twice.      *)
OneRequestEach == OneRenamePerRow /\ OneAnswer /\ OneRemovalPerItem /\ OneSwitchOut /\ SentOnce

(* Lists cut into pages, groups and sections show each thing once, all that *)
(* passes the filters and nothing else.                                     *)
ListsAreWhole == RowsAreListedOnce /\ GroupsShowEveryRow /\ SectionsPartition /\ FindsSubsequences
    /\ EveryTypistIsCounted /\ ReplayIsShort

(* The rows of the transcript say what its events say: grouped, named,      *)
(* painted and read for what the agent is doing.                            *)
RowsFitTheEvents ==
    FoldIsPartition /\ RunsAreMaximal /\ RowsAreNamedOnce /\ PaintedIsCurrent
    /\ WaitingIsNotBusy /\ ReviewedIsTheLastCall

(* What is on the screen stays where it is looked for: the end of the       *)
(* transcript is followed, and pointed to, when it should; a popover is in  *)
(* view; the focus is where the keys work, and comes back.                  *)
ScreenKeepsUp ==
    PillMeansMore /\ FollowIsKept /\ PopoverStaysInView /\ FocusIsHandedBack /\ KeysStayInTheMenu

(* No answer, key or blur takes the visitor where they did not ask to go,   *)
(* saves what they escaped from or brings back what was settled.            *)
StepsAreAskedFor ==
    LeavesTheDeleted /\ EscapedIsNotSaved /\ BellNeverGoesBack /\ SeenNeverFalls /\ DrawerStaysBehind

(* The lists, the machines and the bell come to what the API holds and stay *)
(* there, once nobody changes it: pages served on two sides of a change,    *)
(* stale answers that overtake newer ones, failed polls and rows patched    *)
(* from old copies are put right by the polls that follow.                  *)
PollsCatchUp ==
    <>[](RowsCurrent /\ SideCurrent /\ HostsCurrent /\ BellCurrent /\ BadgeCurrent /\ TypersFade)
=============================================================================
