-------------------------- MODULE PageSteps_proofs --------------------------
(***************************************************************************)
(* Theorems about what the steps of the pages may do, for any number of    *)
(* requests, faults and changes made elsewhere: nothing is sent twice, and *)
(* no answer, key or blur does what the visitor did not ask for.  Each     *)
(* page has an invariant of its own: what is out, and what the page has    *)
(* marked of it.                                                           *)
(***************************************************************************)
EXTENDS Pages_proofs

-----------------------------------------------------------------------------
(* The pages, each with what its steps can be. *)

Fails == \E c \in Slots : Fail(c)

LEMMA StepOn ==
    ASSUME [Next]_vars
    PROVE  /\ OnList => ListNext \/ Fails \/ UNCHANGED vars
           /\ OnApps => AppsNext \/ Fails \/ UNCHANGED vars
           /\ OnStrip => StripNext \/ Fails \/ UNCHANGED vars
           /\ OnComposer => ComposerNext \/ Fails \/ UNCHANGED vars
           /\ OnSide => SideNext \/ Fails \/ UNCHANGED vars
           /\ OnBell => BellNext \/ Fails \/ UNCHANGED vars
           /\ OnSeen => SeenNext \/ Fails \/ UNCHANGED vars
           /\ OnShell => ShellNext \/ Fails \/ UNCHANGED vars
BY DEF Next, Fails, ShareNext, InvitedNext, RowsNext, BulkNext, NewNext, AdminNext,
       SideNext, ListNext, FeedNext, SessNext, TranscriptNext, TailNext,
       AppsNext, LicencesNext, PushNext, PaletteNext, StripNext, BellNext,
       SeenNext, ThemeNext, ComposerNext, TypersNext, ShellNext, PopoverNext,
       MenuNext, LandingNext, OnShare, OnInvited, OnRows, OnBulk, OnNew,
       OnAdmin, OnSide, OnList, OnFeed, OnSession, OnTranscript, OnTail,
       OnApps, OnLicences, OnPush, OnPalette, OnStrip, OnBell, OnSeen,
       OnTheme, OnComposer, OnTypers, OnShell, OnPopover, OnMenu, OnLanding

LEMMA StartOn ==
    ASSUME Init
    PROVE  /\ OnList => ListInit
           /\ OnApps => AppsInit
           /\ OnStrip => StripInit
           /\ OnComposer => ComposerInit
           /\ OnSide => SideInit
           /\ OnBell => BellInit
           /\ OnSeen => SeenInit
           /\ OnShell => ShellInit
BY DEF Init, Opens, ShareInit, InvitedInit, RowsInit, BulkInit, NewInit,
       AdminInit, SideInit, ListInit, FeedInit, SessInit, TranscriptInit,
       TailInit, AppsInit, LicencesInit, PushInit, PaletteInit, StripInit,
       BellInit, SeenInit, ThemeInit, ComposerInit, TypersInit, ShellInit,
       PopoverInit, MenuInit, LandingInit, OnList, OnApps, OnStrip,
       OnComposer, OnSide, OnBell, OnSeen, OnShell

(* The slots of a page that opens with one request, or with none. *)
LEMMA OpensWith ==
    ASSUME NEW name, NEW state, NEW held, NEW first, Opens(name, state, held, first), IsCall(first)
    PROVE  /\ ui = state /\ server = held /\ CallsShape
           /\ 1 \in Slots /\ calls[1] = first /\ \A c \in Slots \ {1} : calls[c] = Free
<1>1. 1 \in Slots
  BY BrowserAssumption DEF Slots
<1>2. calls = [c \in Slots |-> IF c = 1 THEN first ELSE Free]
  BY DEF Opens, NoCalls
<1>3. calls[1] = first /\ (\A c \in Slots \ {1} : calls[c] = Free) /\ calls = [c \in Slots |-> calls[c]]
  BY <1>1, <1>2
<1>4. CallsShape
  BY <1>3 DEF CallsShape, IsCall
<1> QED BY <1>1, <1>3, <1>4 DEF Opens

(* What a step does to the slots: a request takes a free one, is settled    *)
(* where it is, or leaves its slot to nothing or to what it carries next.   *)
Others(c) == \A d \in Slots \ {c} : calls'[d] = calls[d]
TakenBy(s, r) == CallsShape' /\ s \in Slots /\ calls[s] = Free /\ calls'[s] = r /\ Others(s)
SettledAs(c, at, got) ==
    /\ CallsShape' /\ Others(c)
    /\ calls'[c].op = calls[c].op /\ calls'[c].arg = calls[c].arg
    /\ calls'[c].at = at /\ calls'[c].got = got
LeftWith(c, r) == CallsShape' /\ calls'[c] = r /\ Others(c)

LEMMA FetchTakes ==
    ASSUME CallsShape, NEW op, NEW arg, Fetch(op, arg)
    PROVE  \E s \in Slots : TakenBy(s, Request(op, arg))
BY FetchEffect DEF TakenBy, Others

LEMMA AnswerSettles ==
    ASSUME CallsShape, NEW c \in Slots, calls[c].op # "none", NEW got, Answer(c, got)
    PROVE  SettledAs(c, "ok", got)
<1>1. /\ CallsShape'
      /\ calls'[c] = [op |-> calls[c].op, arg |-> calls[c].arg, at |-> "ok", got |-> got]
      /\ \A d \in Slots \ {c} : calls'[d] = calls[d]
  BY AnswerEffect
<1> QED BY <1>1 DEF SettledAs, Others

LEMMA FailSettles ==
    ASSUME CallsShape, NEW c \in Slots, Fail(c)
    PROVE  /\ SettledAs(c, "failed", Nothing) /\ calls[c] # Free
           /\ UNCHANGED ui /\ UNCHANGED server /\ faults' = faults + 1
<1>1. /\ CallsShape'
      /\ calls[c] # Free
      /\ calls'[c] = [op |-> calls[c].op, arg |-> calls[c].arg, at |-> "failed", got |-> Nothing]
      /\ \A d \in Slots \ {c} : calls'[d] = calls[d]
      /\ UNCHANGED <<page, ui, server, outside>> /\ faults' = faults + 1
  BY FailEffect
<1> QED BY <1>1 DEF SettledAs, Others

LEMMA DoneLeaves ==
    ASSUME CallsShape, NEW c \in Slots, Done(c)
    PROVE  LeftWith(c, Free)
BY DoneEffect DEF LeftWith, Others

LEMMA ThenFetchLeaves ==
    ASSUME CallsShape, NEW c \in Slots, NEW op, NEW arg, ThenFetch(c, op, arg)
    PROVE  LeftWith(c, Request(op, arg))
BY ThenFetchEffect DEF LeftWith, Others

(* The requests of a kind, after such a step. *)
LEMMA OutTaken ==
    ASSUME NEW op, NEW s, NEW r, TakenBy(s, r)
    PROVE  /\ r.op = op => OutAs(op)' = OutAs(op) \cup {s}
           /\ r.op # op => OutAs(op)' = OutAs(op) \ {s}
           /\ op # "none" => s \notin OutAs(op)
           /\ \A c \in OutAs(op) \ {s} : calls'[c] = calls[c]
BY DEF TakenBy, Others, OutAs, Free, Slots

LEMMA OutSettled ==
    ASSUME NEW c \in Slots, NEW at, NEW got, SettledAs(c, at, got), NEW op
    PROVE  /\ OutAs(op)' = OutAs(op)
           /\ \A d \in OutAs(op) : calls'[d].op = calls[d].op /\ calls'[d].arg = calls[d].arg
BY DEF SettledAs, Others, OutAs, Slots

LEMMA OutLeft ==
    ASSUME NEW c \in Slots, NEW r, LeftWith(c, r), NEW op, r.op # op
    PROVE  /\ OutAs(op)' = OutAs(op) \ {c}
           /\ \A d \in OutAs(op) \ {c} : calls'[d] = calls[d]
BY DEF LeftWith, Others, OutAs, Slots
-----------------------------------------------------------------------------
(* The list: a row with a rename out is a row that is saving, unless a      *)
(* filter hid it meanwhile, and the row that Escape left is cancelled.      *)

ListFields == {"titles", "filter", "field", "text", "saving", "cancelled", "lost", "left", "crossed"}
ListBody ==
    /\ CallsShape /\ ui = [f \in ListFields |-> ui[f]]
    /\ \A c \in OutAs("title") \ ui.lost : calls[c].arg.r \in ui.saving
    /\ \A c, d \in OutAs("title") \ ui.lost : calls[c].arg.r = calls[d].arg.r => c = d
    /\ ui.left # Nothing => ui.left \in ui.cancelled
ListInv == OnList => ListBody

LEMMA ListStarts == ListInit => ListBody
<1> SUFFICES ASSUME ListInit PROVE ListBody
  OBVIOUS
<1>1. PICK state, held : /\ Opens("list", state, held, Free)
                         /\ state.left = Nothing /\ state = [f \in ListFields |-> state[f]]
  BY DEF ListInit, ListFields
<1>2. IsCall(Free)
  BY DEF IsCall
<1>3. ui = state /\ CallsShape /\ \A c \in Slots : calls[c] = Free
  BY <1>1, <1>2, OpensWith
<1> QED BY <1>1, <1>3 DEF ListBody, OutAs, Free

(* Steps that send no title and leave the saving rows alone.                *)
LEMMA ListEdits ==
    ASSUME ListBody, UNCHANGED calls, ui' = [f \in ListFields |-> ui'[f]], ui'.saving = ui.saving,
           ui'.lost = ui.lost,
           ui'.left # Nothing => ui'.left \in ui'.cancelled
    PROVE  ListBody' /\ OutAs("title")' = OutAs("title")
BY DEF ListBody, OutAs, CallsShape, Slots

(* A filter forgets the saving rows that it hides, and the renames of all   *)
(* the rows it hides with them.                                             *)
LEMMA FilterHides ==
    ASSUME ListBody, NEW f \in Filters_, PickFilters(f)
    PROVE  ListBody' /\ OutAs("title")' = OutAs("title")
<1>1. PICK rows : rows = {r \in ListRows : Matches(r, f)}
  OBVIOUS
<1>2. PICK text : ui' = [ui EXCEPT !.filter = f, !.saving = @ \cap rows, !.cancelled = @ \cap rows,
                           !.lost = @ \cup {c \in OutAs("title") : calls[c].arg.r \notin rows},
                           !.left = IF @ \in rows THEN @ ELSE Nothing, !.text = text]
  BY <1>1 DEF PickFilters, Page
<1>3. /\ ui' = [g \in ListFields |-> ui'[g]] /\ ui'.saving = ui.saving \cap rows
      /\ ui'.cancelled = ui.cancelled \cap rows
      /\ ui'.lost = ui.lost \cup {c \in OutAs("title") : calls[c].arg.r \notin rows}
      /\ ui'.left = IF ui.left \in rows THEN ui.left ELSE Nothing
  BY <1>2 DEF ListBody, ListFields
<1>4. OutAs("title")' = OutAs("title") /\ calls' = calls /\ CallsShape'
  BY DEF PickFilters, Only, OutAs, Slots, ListBody, CallsShape
<1>5. \A c \in OutAs("title") \ ui'.lost : c \notin ui.lost /\ calls[c].arg.r \in rows
  BY <1>3
<1> QED BY <1>3, <1>4, <1>5 DEF ListBody

(* The rename of a row that is not saving.                                  *)
LEMMA SaveSends ==
    ASSUME ListBody, NEW r, r \notin ui.saving, ui' = [ui EXCEPT !.saving = @ \cup {r}],
           NEW to, Fetch("title", [r |-> r, to |-> to])
    PROVE  ListBody'
<1>1. PICK s \in Slots : TakenBy(s, Request("title", [r |-> r, to |-> to]))
  BY FetchTakes DEF ListBody
<1>2. ui' = [f \in ListFields |-> ui'[f]] /\ ui'.saving = ui.saving \cup {r}
      /\ ui'.left = ui.left /\ ui'.cancelled = ui.cancelled /\ ui'.lost = ui.lost
  BY DEF ListBody, ListFields
<1>3. CallsShape' /\ calls'[s].arg.r = r
  BY <1>1 DEF TakenBy, Request
<1>4. /\ OutAs("title")' = OutAs("title") \cup {s} /\ s \notin OutAs("title")
      /\ \A c \in OutAs("title") \ {s} : calls'[c] = calls[c]
  BY <1>1, OutTaken DEF Request
<1>5. /\ \A c \in OutAs("title") : c # s /\ calls'[c] = calls[c]
      /\ \A c \in OutAs("title") \ ui.lost : calls[c].arg.r # r
  BY <1>4 DEF ListBody
<1> QED BY <1>2, <1>3, <1>4, <1>5 DEF ListBody

LEMMA SaveKeeps ==
    ASSUME ListBody, NEW r, SaveTitle(r)
    PROVE  ListBody' /\ (r \in ui.cancelled => OutAs("title")' = OutAs("title"))
<1>1. CASE ui.text = ui.titles[r]
  BY <1>1, ListEdits DEF SaveTitle, Page, Only, ListBody, ListFields
<1>2. CASE ui.text # ui.titles[r]
  BY <1>2, SaveSends DEF SaveTitle, Page
<1> QED BY <1>1, <1>2

LEMMA ListSettles ==
    ASSUME ListBody, NEW c \in Slots, NEW at, NEW got, SettledAs(c, at, got), UNCHANGED ui
    PROVE  ListBody' /\ OutAs("title")' = OutAs("title")
<1>1. /\ OutAs("title")' = OutAs("title") /\ CallsShape'
      /\ \A d \in OutAs("title") : calls'[d].arg = calls[d].arg
  BY OutSettled DEF SettledAs
<1> QED BY <1>1 DEF ListBody

LEMMA ListServes ==
    ASSUME ListBody, NEW c \in Slots, ServeTitle(c) \/ ServeTitles(c)
    PROVE  ListBody' /\ OutAs("title")' = OutAs("title")
<1>1. PICK got : Answer(c, got) /\ UNCHANGED ui /\ calls[c].op # "none"
  BY DEF ServeTitle, ServeTitles, Sent, Only
<1> QED BY <1>1, AnswerSettles, ListSettles DEF ListBody

LEMMA TitleComesBack ==
    ASSUME ListBody, NEW c \in Slots, TitleAnswered(c)
    PROVE  ListBody' /\ OutAs("title")' \subseteq OutAs("title")
<1> DEFINE r == calls[c].arg.r
<1>1. /\ ui' = [f \in ListFields |-> ui'[f]]
      /\ ui'.saving = (IF c \in ui.lost THEN ui.saving ELSE ui.saving \ {r}) /\ ui'.lost = ui.lost \ {c}
      /\ ui'.left = ui.left /\ ui'.cancelled = ui.cancelled
  BY DEF TitleAnswered, Frees, Page, ListBody, ListFields
<1>2. Done(c) \/ ThenFetch(c, "titles", Nothing)
  BY DEF TitleAnswered
<1>3. PICK next : LeftWith(c, next) /\ next.op # "title"
  <2>1. CallsShape /\ Free.op # "title" /\ Request("titles", Nothing).op # "title"
    BY DEF ListBody, Free, Request
  <2>2. LeftWith(c, Free) \/ LeftWith(c, Request("titles", Nothing))
    BY <1>2, <2>1, DoneLeaves, ThenFetchLeaves
  <2> QED BY <2>1, <2>2
<1>4. /\ OutAs("title")' = OutAs("title") \ {c}
      /\ \A d \in OutAs("title") \ {c} : calls'[d] = calls[d]
  BY <1>3, OutLeft
<1>7. c \in OutAs("title")
  BY DEF TitleAnswered, Back, Ok, Failed, OutAs
<1>5. \A d \in OutAs("title") \ (ui.lost \cup {c}) :
        calls[d].arg.r \in ui.saving /\ (c \notin ui.lost => calls[d].arg.r # r)
  BY <1>7 DEF ListBody
<1>6. CallsShape'
  BY <1>3 DEF LeftWith
<1> QED BY <1>1, <1>4, <1>5, <1>6 DEF ListBody

LEMMA TitlesComeBack ==
    ASSUME ListBody, NEW c \in Slots, TitlesAnswered(c)
    PROVE  ListBody' /\ OutAs("title")' \subseteq OutAs("title")
<1>1. /\ ui' = [f \in ListFields |-> ui'[f]] /\ ui'.saving = ui.saving
      /\ ui'.left = ui.left /\ ui'.cancelled = ui.cancelled /\ ui'.lost = ui.lost
  BY DEF TitlesAnswered, Page, ListBody, ListFields
<1>2. LeftWith(c, Free)
  BY DoneLeaves DEF ListBody, TitlesAnswered
<1>3. /\ OutAs("title")' = OutAs("title") \ {c}
      /\ \A d \in OutAs("title") \ {c} : calls'[d] = calls[d]
  BY <1>2, OutLeft DEF Free
<1>4. CallsShape'
  BY <1>2 DEF LeftWith
<1> QED BY <1>1, <1>3, <1>4 DEF ListBody

LEMMA ListFails ==
    ASSUME ListBody, NEW c \in Slots, Fail(c)
    PROVE  ListBody' /\ OutAs("title")' = OutAs("title")
<1>1. CallsShape
  BY DEF ListBody
<1>2. SettledAs(c, "failed", Nothing) /\ UNCHANGED ui
  BY <1>1, FailSettles
<1> QED BY <1>2, ListSettles

(* The steps of the list, and what none of them sends.                      *)
LEMMA ListKeeps ==
    ASSUME ListBody, ListNext \/ Fails \/ UNCHANGED vars
    PROVE  ListBody' /\ (ui.field = Nothing => OutAs("title")' \subseteq OutAs("title"))
<1>7. CASE \E f \in Filters_ : PickFilters(f)
  BY <1>7, FilterHides
<1>1. CASE \/ \E r \in ListRows : OpenField(r)
           \/ \E t \in Titles : TypeTitle(t)
           \/ EscapeTitle
  BY <1>1, ListEdits
     DEF OpenField, TypeTitle, EscapeTitle, Page, Only, ListBody, ListFields
<1>2. CASE EnterOrBlur
  BY <1>2, SaveKeeps DEF EnterOrBlur, InField
<1>3. CASE LateBlur
  BY <1>3, SaveKeeps DEF LateBlur, ListBody
<1>4. CASE \E c \in Slots : ServeTitle(c) \/ TitleAnswered(c) \/ ServeTitles(c) \/ TitlesAnswered(c)
  BY <1>4, ListServes, TitleComesBack, TitlesComeBack
<1>5. CASE Fails
  BY <1>5, ListFails DEF Fails
<1>6. CASE UNCHANGED vars
  BY <1>6, ListEdits DEF vars, ListBody
<1> QED BY <1>1, <1>2, <1>3, <1>4, <1>5, <1>6, <1>7 DEF ListNext
-----------------------------------------------------------------------------
(* The signed-in apps: a removal that is out makes its row, which is in the *)
(* list, busy; while the list is loaded there is nothing to remove.         *)

AppsFields == {"list", "loadErr", "pop", "revoked", "crossed"}
AppsUi(u) == u = [f \in AppsFields |-> u[f]] /\ u.pop = [open |-> u.pop.open, busy |-> u.pop.busy, err |-> u.pop.err]
PopFits(u) ==
    /\ u.pop.open # Nothing => u.pop.open \in u.list
    /\ OutAs("items") # {} => u.list = Nothing /\ u.pop.open = Nothing /\ OutAs("remove") = {}
    /\ \A c \in OutAs("remove") : calls[c].arg \in u.list \cap u.pop.busy
AppsBody ==
    /\ CallsShape /\ AppsUi(ui) /\ PopFits(ui)
    /\ \A c, d \in OutAs("items") : c = d
    /\ \A c, d \in OutAs("remove") : calls[c].arg = calls[d].arg => c = d
AppsInv == OnApps => AppsBody

LEMMA AppsStarts == AppsInit => AppsBody
<1> SUFFICES ASSUME AppsInit PROVE AppsBody
  OBVIOUS
<1>1. IsCall(Request("items", Nothing))
  BY DEF IsCall, Request
<1>2. /\ ui = [list |-> Nothing, loadErr |-> FALSE, pop |-> Popovers, revoked |-> {}, crossed |-> FALSE]
      /\ CallsShape /\ 1 \in Slots /\ calls[1] = Request("items", Nothing)
      /\ \A c \in Slots \ {1} : calls[c] = Free
  BY <1>1, OpensWith DEF AppsInit
<1>3. AppsUi(ui) /\ ui.pop.open = Nothing /\ ui.list = Nothing
  BY <1>2 DEF AppsUi, AppsFields, Popovers
<1>4. OutAs("items") = {1} /\ OutAs("remove") = {}
  BY <1>2 DEF OutAs, Request, Free
<1> QED BY <1>2, <1>3, <1>4 DEF AppsBody, PopFits

LEMMA AppsEdits ==
    ASSUME AppsBody, UNCHANGED calls, AppsUi(ui'), ui'.list = ui.list, ui'.pop.busy = ui.pop.busy,
           ui'.pop.open = Nothing \/ (ui'.pop.open \in ui.list /\ OutAs("items") = {})
    PROVE  AppsBody'
<1>1. OutAs("items")' = OutAs("items") /\ OutAs("remove")' = OutAs("remove") /\ calls' = calls /\ CallsShape'
  BY DEF OutAs, AppsBody, CallsShape, Slots
<1>2. PopFits(ui)'
  BY <1>1 DEF AppsBody, PopFits
<1> QED BY <1>1, <1>2 DEF AppsBody

LEMMA Toggles ==
    ASSUME AppsBody, NEW k, TogglePopover(k)
    PROVE  AppsBody'
<1>1. PICK open, err : /\ open = (IF ui.pop.open = k THEN Nothing ELSE k)
                       /\ err = ui.pop.err \ {k}
  OBVIOUS
<1>2. PICK pop : pop = [ui.pop EXCEPT !.open = open]
  OBVIOUS
<1>3. ui' = [ui EXCEPT !.pop = [pop EXCEPT !.err = err]]
  BY <1>1, <1>2 DEF TogglePopover, Page, AppsBody, AppsUi, AppsFields
<1>4. pop = [open |-> open, busy |-> ui.pop.busy, err |-> ui.pop.err]
  BY <1>2 DEF AppsBody, AppsUi
<1>5. [pop EXCEPT !.err = err] = [open |-> open, busy |-> ui.pop.busy, err |-> err]
  BY <1>4
<1>6. AppsUi(ui') /\ ui'.list = ui.list /\ ui'.pop.busy = ui.pop.busy /\ ui'.pop.open = open
  BY <1>3, <1>5 DEF AppsBody, AppsUi, AppsFields
<1>7. k \in ui.list /\ OutAs("items") = {} /\ UNCHANGED calls
  BY DEF TogglePopover, OfList, AppsBody, PopFits, Only
<1> QED BY <1>1, <1>6, <1>7, AppsEdits

LEMMA Leaving ==
    ASSUME AppsBody, LeavePopover
    PROVE  AppsBody'
<1>1. AppsUi(ui') /\ ui'.list = ui.list /\ ui'.pop.busy = ui.pop.busy /\ ui'.pop.open = Nothing
  BY DEF LeavePopover, Page, AppsBody, AppsUi, AppsFields
<1>2. UNCHANGED calls
  BY DEF LeavePopover, Only
<1> QED BY <1>1, <1>2, AppsEdits

(* Confirm sends for a row that is not busy, and makes it busy.             *)
LEMMA Confirms ==
    ASSUME AppsBody, Confirm
    PROVE  AppsBody'
<1> DEFINE k == ui.pop.open
<1>1. k # Nothing /\ k \notin ui.pop.busy /\ k \in ui.list /\ OutAs("items") = {}
  BY DEF Confirm, AppsBody, PopFits
<1>2. PICK s \in Slots : TakenBy(s, Request("remove", k))
  BY FetchTakes DEF Confirm, AppsBody
<1>3. AppsUi(ui') /\ ui'.list = ui.list /\ ui'.pop.busy = ui.pop.busy \cup {k} /\ ui'.pop.open = k
  <2>1. PICK busy, err, crossed : busy = ui.pop.busy \cup {k} /\ err = ui.pop.err \ {k} /\ crossed = (ui.crossed \/ ~Quiet)
    OBVIOUS
  <2>2. PICK one : one = [ui.pop EXCEPT !.busy = busy]
    OBVIOUS
  <2>3. one = [open |-> k, busy |-> busy, err |-> ui.pop.err]
    BY <2>2 DEF AppsBody, AppsUi
  <2>4. ui' = [ui EXCEPT !.pop = [one EXCEPT !.err = err], !.crossed = crossed]
    BY <2>1, <2>2 DEF Confirm, Page, AppsBody, AppsUi, AppsFields
  <2>5. [one EXCEPT !.err = err] = [open |-> k, busy |-> busy, err |-> err]
    BY <2>3
  <2> QED BY <2>1, <2>4, <2>5 DEF AppsBody, AppsUi, AppsFields
<1>4. CallsShape' /\ calls'[s].arg = k
  BY <1>2 DEF TakenBy, Request
<1>5. /\ OutAs("remove")' = OutAs("remove") \cup {s} /\ s \notin OutAs("remove")
      /\ \A c \in OutAs("remove") \ {s} : calls'[c] = calls[c]
  BY <1>2, OutTaken DEF Request
<1>6. OutAs("items")' = {}
  BY <1>1, <1>2, OutTaken DEF Request
<1>7. \A c \in OutAs("remove") : c # s /\ calls'[c] = calls[c] /\ calls[c].arg # k /\ calls[c].arg \in ui.list \cap ui.pop.busy
  BY <1>1, <1>5 DEF AppsBody, PopFits
<1>8. PopFits(ui)'
  BY <1>1, <1>3, <1>4, <1>5, <1>6, <1>7 DEF PopFits
<1> QED BY <1>3, <1>4, <1>5, <1>6, <1>7, <1>8 DEF AppsBody

LEMMA AppsSettles ==
    ASSUME AppsBody, NEW c \in Slots, NEW at, NEW got, SettledAs(c, at, got), UNCHANGED ui
    PROVE  AppsBody'
<1>1. /\ OutAs("items")' = OutAs("items") /\ OutAs("remove")' = OutAs("remove") /\ CallsShape'
      /\ \A d \in OutAs("remove") : calls'[d].arg = calls[d].arg
  BY OutSettled DEF SettledAs
<1>2. PopFits(ui)'
  BY <1>1 DEF AppsBody, PopFits
<1> QED BY <1>1, <1>2 DEF AppsBody

LEMMA AppsServes ==
    ASSUME AppsBody, NEW c \in Slots, ListFetched(c) \/ RevokeToken(c)
    PROVE  AppsBody'
<1>1. CASE \E got : Answer(c, got) /\ UNCHANGED ui
  <2>1. PICK got : Answer(c, got) /\ UNCHANGED ui
    BY <1>1
  <2>2. calls[c].op # "none" /\ CallsShape
    BY DEF ListFetched, RevokeToken, Sent, AppsBody
  <2> QED BY <2>1, <2>2, AnswerSettles, AppsSettles
<1>2. CASE calls' = [calls EXCEPT ![c].at = "failed"] /\ UNCHANGED ui
  <2>1. CallsShape /\ calls[c] # Free
    BY DEF ListFetched, RevokeToken, Sent, AppsBody, Free
  <2>2. SettledAs(c, "failed", calls[c].got)
    BY <1>2, <2>1 DEF CallsShape, IsCall, SettledAs, Others
  <2> QED BY <1>2, <2>2, AppsSettles
<1> QED BY <1>1, <1>2 DEF ListFetched, RevokeToken, Only

(* The list that is loaded is the first one: nothing is busy or open.       *)
LEMMA AppsComeIn ==
    ASSUME AppsBody, NEW c \in Slots, AppsLoaded(c)
    PROVE  AppsBody'
<1>1. LeftWith(c, Free)
  BY DoneLeaves DEF AppsBody, AppsLoaded
<1>2. c \in OutAs("items")
  BY DEF AppsLoaded, Back, Ok, Failed, OutAs
<1>3. ui.pop.open = Nothing /\ OutAs("remove") = {} /\ OutAs("items") \ {c} = {}
  BY <1>2 DEF AppsBody, PopFits
<1>4. OutAs("items")' = {} /\ OutAs("remove")' = {} /\ CallsShape'
  BY <1>1, <1>3, OutLeft DEF LeftWith, Free
<1>5. AppsUi(ui') /\ ui'.pop.open = Nothing
  BY <1>3 DEF AppsLoaded, Page, Relist, AppsBody, AppsUi, AppsFields
<1>6. PopFits(ui)'
  BY <1>4, <1>5 DEF PopFits
<1> QED BY <1>4, <1>5, <1>6 DEF AppsBody

(* Whether the row goes or stays, the other rows with a removal out stay    *)
(* in the list and busy.                                                    *)
LEMMA AppsGoOut ==
    ASSUME AppsBody, NEW c \in Slots, Revoked(c)
    PROVE  AppsBody'
<1> DEFINE k == calls[c].arg
<1>1. LeftWith(c, Free)
  BY DoneLeaves DEF AppsBody, Revoked
<1>2. c \in OutAs("remove")
  BY DEF Revoked, Back, Ok, Failed, OutAs
<1>3. k \in ui.list /\ OutAs("items") = {} /\ \A d \in OutAs("remove") \ {c} : calls[d].arg # k
  BY <1>2 DEF AppsBody, PopFits
<1>4. /\ OutAs("remove")' = OutAs("remove") \ {c}
      /\ \A d \in OutAs("remove") \ {c} : calls'[d] = calls[d]
  BY <1>1, OutLeft DEF Free
<1>5. OutAs("items")' = {} /\ CallsShape'
  BY <1>1, <1>3, OutLeft DEF LeftWith, Free
<1>6. /\ AppsUi(ui') /\ ui.list \ {k} \subseteq ui'.list
      /\ (ui.list \cap ui.pop.busy) \ {k} \subseteq ui'.pop.busy
      /\ ui'.pop.open # Nothing => ui'.pop.open \in ui'.list
  <2>1. CASE Ok(c, "remove")
    <3>1. PICK v : v = Relist(ui, ui.list \ {k})
      OBVIOUS
    <3>2. /\ AppsUi(v) /\ v.list = ui.list \ {k} /\ v.pop.busy = ui.pop.busy \cap (ui.list \ {k})
          /\ v.pop.open # Nothing => v.pop.open \in ui.list \ {k}
      BY <3>1 DEF Relist, AppsBody, AppsUi, AppsFields
    <3>3. ui' = [v EXCEPT !.revoked = @ \cup {k}]
      BY <2>1, <3>1 DEF Revoked, Page
    <3> QED BY <3>2, <3>3 DEF AppsUi, AppsFields
  <2>2. CASE ~Ok(c, "remove")
    <3>1. ui' = TurnedDown(ui, k)
      BY <2>2 DEF Revoked, Page
    <3>2. CASE k \notin OfList(ui)
      BY <3>1, <3>2 DEF TurnedDown, AppsBody, PopFits
    <3>3. CASE k \in OfList(ui)
      <4>1. ui' = [ui EXCEPT !.pop = [open |-> IF @.open = k THEN Nothing ELSE @.open,
                                      busy |-> @.busy \ {k}, err |-> @.err \cup {k}]]
        BY <3>1, <3>3 DEF TurnedDown
      <4> QED BY <4>1 DEF AppsBody, PopFits, AppsUi, AppsFields
    <3> QED BY <3>2, <3>3
  <2> QED BY <2>1, <2>2
<1>7. \A d \in OutAs("remove") \ {c} : calls[d].arg \in (ui.list \cap ui.pop.busy) \ {k}
  BY <1>3 DEF AppsBody, PopFits
<1>8. PopFits(ui)'
  BY <1>4, <1>5, <1>6, <1>7 DEF PopFits
<1> QED BY <1>4, <1>5, <1>6, <1>8 DEF AppsBody

LEMMA AppsFails ==
    ASSUME AppsBody, NEW c \in Slots, Fail(c)
    PROVE  AppsBody'
<1>1. CallsShape
  BY DEF AppsBody
<1>2. SettledAs(c, "failed", Nothing) /\ UNCHANGED ui
  BY <1>1, FailSettles
<1> QED BY <1>2, AppsSettles

LEMMA AppsKeeps ==
    ASSUME AppsBody, AppsNext \/ Fails \/ UNCHANGED vars
    PROVE  AppsBody'
<1>1. CASE AppsNext
  BY <1>1, Leaving, Confirms, Toggles, AppsServes, AppsComeIn, AppsGoOut DEF AppsNext
<1>2. CASE Fails
  BY <1>2, AppsFails DEF Fails
<1>3. CASE UNCHANGED vars
  <2>1. ui' = ui /\ calls' = calls /\ (ui.pop.open = Nothing \/ (ui.pop.open \in ui.list /\ OutAs("items") = {}))
    BY <1>3 DEF vars, AppsBody, PopFits
  <2> QED BY <2>1, AppsEdits DEF AppsBody
<1> QED BY <1>1, <1>2, <1>3
-----------------------------------------------------------------------------
(* The strip: while a switch of the model is out it is switching, and there *)
(* is one.                                                                  *)

StripFields == {"meta", "confirm", "busy", "err", "field", "draft", "switching", "crossed"}
StripUi(u) == u = [f \in StripFields |-> u[f]]
StripBody ==
    /\ CallsShape /\ StripUi(ui)
    /\ OutAs("model") # {} => ui.switching
    /\ \A c, d \in OutAs("model") : c = d
StripInv == OnStrip => StripBody

LEMMA StripStarts == StripInit => StripBody
<1> SUFFICES ASSUME StripInit PROVE StripBody
  OBVIOUS
<1>1. PICK state, held : Opens("strip", state, held, Free) /\ StripUi(state)
  BY DEF StripInit, StripUi, StripFields
<1>2. IsCall(Free)
  BY DEF IsCall
<1>3. ui = state /\ CallsShape /\ \A c \in Slots : calls[c] = Free
  BY <1>1, <1>2, OpensWith
<1> QED BY <1>1, <1>3 DEF StripBody, OutAs, Free

LEMMA StripEdits ==
    ASSUME StripBody, UNCHANGED calls, StripUi(ui'), ui'.switching = ui.switching
    PROVE  StripBody'
BY DEF StripBody, OutAs, CallsShape, Slots

LEMMA StripSends ==
    ASSUME StripBody, NEW op, op # "model", NEW arg, Fetch(op, arg), StripUi(ui'), ui'.switching = ui.switching
    PROVE  StripBody'
<1>1. PICK s \in Slots : TakenBy(s, Request(op, arg))
  BY FetchTakes DEF StripBody
<1>2. OutAs("model")' = OutAs("model") \ {s} /\ s \notin OutAs("model")
  <2>1. PICK r : r = Request(op, arg)
    OBVIOUS
  <2>2. TakenBy(s, r) /\ r.op # "model"
    BY <1>1, <2>1 DEF Request
  <2> QED BY <2>2, OutTaken
<1>3. CallsShape'
  BY <1>1 DEF TakenBy
<1> QED BY <1>2, <1>3 DEF StripBody

LEMMA ModelSent ==
    ASSUME StripBody, NEW next, SwitchModel(next)
    PROVE  StripBody'
<1>1. PICK s \in Slots : TakenBy(s, Request("model", next))
  BY FetchTakes DEF StripBody, SwitchModel, Sends
<1>2. OutAs("model") = {}
  BY DEF SwitchModel, StripBody
<1>3. OutAs("model")' = {s} /\ CallsShape'
  BY <1>1, <1>2, OutTaken DEF TakenBy, Request
<1>4. StripUi(ui') /\ ui'.switching
  <2>1. PICK p : p = [ui EXCEPT !.switching = TRUE]
    OBVIOUS
  <2>2. StripUi(p) /\ p.switching
    BY <2>1 DEF StripBody, StripUi, StripFields
  <2>3. ui' = [p EXCEPT !.crossed = @ \/ OutAs("model") # {}]
    BY <2>1 DEF SwitchModel, Sends, Page
  <2> QED BY <2>2, <2>3 DEF StripUi, StripFields
<1> QED BY <1>3, <1>4 DEF StripBody

LEMMA StripSettles ==
    ASSUME StripBody, NEW c \in Slots, NEW at, NEW got, SettledAs(c, at, got), UNCHANGED ui
    PROVE  StripBody'
<1>1. OutAs("model")' = OutAs("model") /\ CallsShape'
  BY OutSettled DEF SettledAs
<1> QED BY <1>1 DEF StripBody

LEMMA StripServes ==
    ASSUME StripBody, NEW c \in Slots, ServeConfirmed(c) \/ ServeRetitle(c) \/ ServeModel(c)
    PROVE  StripBody'
<1>1. PICK got : Answer(c, got)
  BY DEF ServeConfirmed, ServeRetitle, ServeModel
<1>2. calls[c].op # "none" /\ UNCHANGED ui /\ CallsShape
  BY DEF ServeConfirmed, ServeRetitle, ServeModel, Sent, Only, StripBody
<1> QED BY <1>1, <1>2, AnswerSettles, StripSettles

LEMMA StripComesBack ==
    ASSUME StripBody, NEW c \in Slots, ConfirmedStrip(c) \/ Retitled(c) \/ ModelAnswered(c)
    PROVE  StripBody'
<1>1. LeftWith(c, Free)
  BY DoneLeaves DEF StripBody, ConfirmedStrip, Retitled, ModelAnswered
<1>2. OutAs("model")' = OutAs("model") \ {c} /\ CallsShape'
  BY <1>1, OutLeft DEF LeftWith, Free
<1>3. CASE ModelAnswered(c)
  <2>1. OutAs("model")' = {}
    BY <1>2, <1>3 DEF ModelAnswered, Back, Ok, Failed, OutAs, StripBody
  <2>2. StripUi(ui')
    BY <1>3 DEF ModelAnswered, Page, StripBody, StripUi, StripFields
  <2> QED BY <1>2, <2>1, <2>2 DEF StripBody
<1>4. CASE ConfirmedStrip(c) \/ Retitled(c)
  <2>1. StripUi(ui') /\ ui'.switching = ui.switching
    BY <1>4 DEF ConfirmedStrip, Retitled, Page, StripBody, StripUi, StripFields
  <2> QED BY <1>2, <2>1 DEF StripBody
<1> QED BY <1>3, <1>4

LEMMA StripFails ==
    ASSUME StripBody, NEW c \in Slots, Fail(c)
    PROVE  StripBody'
<1>1. CallsShape
  BY DEF StripBody
<1>2. SettledAs(c, "failed", Nothing) /\ UNCHANGED ui
  BY <1>1, FailSettles
<1> QED BY <1>2, StripSettles

LEMMA StripKeeps ==
    ASSUME StripBody, StripNext \/ Fails \/ UNCHANGED vars
    PROVE  StripBody'
<1>1. ASSUME NEW kind, AskStrip(kind) PROVE StripBody'
  BY <1>1, StripEdits DEF AskStrip, Page, Only, StripBody, StripUi, StripFields
<1>2. CASE CloseStrip
  BY <1>2, StripEdits DEF CloseStrip, Page, Only, StripBody, StripUi, StripFields
<1>3. CASE EditTitle \/ EscapeField \/ \E t \in {"t0", "t1"} : DraftTitle(t)
  BY <1>3, StripEdits DEF EditTitle, EscapeField, DraftTitle, Page, Only, StripBody, StripUi, StripFields
<1>4. CASE StripTold
  BY <1>4, StripEdits DEF StripTold, Page, Only, StripBody, StripUi, StripFields
<1>5. CASE StripEnds
  BY <1>5, StripEdits DEF StripEnds, Elsewhere, StripBody
<1>6. CASE RunConfirmed
  <2>1. PICK p : p = [[ui EXCEPT !.busy = TRUE] EXCEPT !.err = Nothing]
    OBVIOUS
  <2>2. StripUi(p) /\ p.switching = ui.switching
    BY <2>1 DEF StripBody, StripUi, StripFields
  <2>3. ui' = [p EXCEPT !.crossed = @ \/ OutAs("confirmed") # {}]
    BY <1>6, <2>1 DEF RunConfirmed, Sends, Page
  <2>4. StripUi(ui') /\ ui'.switching = ui.switching
    BY <2>2, <2>3 DEF StripUi, StripFields
  <2> QED BY <1>6, <2>4, StripSends DEF RunConfirmed, Sends
<1>7. CASE SaveField
  <2>1. CASE ui.draft = ui.meta.title
    BY <1>7, <2>1, StripEdits DEF SaveField, Page, Only, StripBody, StripUi, StripFields
  <2>2. CASE ui.draft # ui.meta.title
    <3>1. StripUi(ui') /\ ui'.switching = ui.switching
      BY <1>7, <2>2 DEF SaveField, Sends, Page, StripBody, StripUi, StripFields
    <3> QED BY <1>7, <2>2, <3>1, StripSends DEF SaveField, Sends
  <2> QED BY <2>1, <2>2
<1>8. CASE Fails
  BY <1>8, StripFails DEF Fails
<1>9. CASE UNCHANGED vars
  BY <1>9, StripEdits DEF vars, StripBody
<1>10. CASE StripNext
  BY <1>1, <1>2, <1>3, <1>4, <1>5, <1>6, <1>7, <1>10, ModelSent, StripServes, StripComesBack DEF StripNext
<1> QED BY <1>8, <1>9, <1>10

LEMMA StripIsOne == StripBody => Cardinality(OutAs("model")) <= 1
<1> SUFFICES ASSUME StripBody PROVE Cardinality(OutAs("model")) <= 1
  OBVIOUS
<1>1. CASE OutAs("model") = {}
  BY <1>1, FS_EmptySet
<1>2. CASE OutAs("model") # {}
  <2>1. PICK c \in OutAs("model") : OutAs("model") = {c}
    BY <1>2 DEF StripBody
  <2> QED BY <2>1, FS_Singleton
<1> QED BY <1>1, <1>2
-----------------------------------------------------------------------------
(* The composer.  While no answer was lost, a message is in one place: it   *)
(* is in the field, or out, or on offer again, or in the session, or given  *)
(* up.  A send that is out and not answered well is not in the session yet. *)

BoxFields == {"box", "draft", "typed", "failed", "last"}
BoxUi(u) == u = [f \in BoxFields |-> u[f]] /\ u.typed \in Nat
Posts(s) ==
    /\ s = [live |-> s.live, got |-> s.got, refused |-> s.refused]
    /\ s.got = [k \in 1..Len(s.got) |-> s.got[k]] /\ Len(s.got) \in Nat
InLog(s, id) == \E k \in 1..Len(s.got) : s.got[k] = id
OnceEach(s) == \A j, k \in 1..Len(s.got) : s.got[j] = s.got[k] => j = k
MessagesFit(u, s) ==
    /\ \A k \in 1..Len(s.got) : s.got[k] \in 1..u.typed
    /\ \A c \in OutAs("send") :
         /\ calls[c].arg \in 1..u.typed /\ calls[c].arg \notin {u.draft, u.failed}
         /\ calls[c].at # "ok" => ~InLog(s, calls[c].arg)
    /\ \A c, d \in OutAs("send") : calls[c].arg = calls[d].arg => c = d
    /\ \A id \in {u.draft, u.failed} \ {Nothing} : id \in 1..u.typed /\ ~InLog(s, id)
    /\ u.draft = u.failed => u.draft = Nothing
    /\ OnceEach(s)
BoxBody ==
    /\ CallsShape /\ BoxUi(ui) /\ Posts(server) /\ faults \in Nat
    /\ faults = 0 => MessagesFit(ui, server)
BoxInv == OnComposer => BoxBody

LEMMA BoxStarts == ComposerInit => BoxBody
<1> SUFFICES ASSUME ComposerInit PROVE BoxBody
  OBVIOUS
<1>1. IsCall(Free)
  BY DEF IsCall
<1>2. /\ ui = [box |-> TRUE, draft |-> Nothing, typed |-> 0, failed |-> Nothing, last |-> Nothing]
      /\ server = [live |-> TRUE, got |-> <<>>, refused |-> 0]
      /\ CallsShape /\ \A c \in Slots : calls[c] = Free
  BY <1>1, OpensWith DEF ComposerInit
<1>3. BoxUi(ui) /\ Posts(server) /\ faults \in Nat
  BY <1>2 DEF BoxUi, BoxFields, Posts, ComposerInit, Opens
<1>4. OutAs("send") = {} /\ Len(server.got) = 0
  BY <1>2 DEF OutAs, Free
<1>5. MessagesFit(ui, server)
  BY <1>2, <1>4 DEF MessagesFit, OnceEach
<1> QED BY <1>2, <1>3, <1>5 DEF BoxBody

LEMMA BoxSame ==
    ASSUME BoxBody, UNCHANGED <<ui, calls>>, Posts(server'), server'.got = server.got, faults' = faults
    PROVE  BoxBody'
<1>1. CallsShape' /\ OutAs("send")' = OutAs("send")
  BY DEF BoxBody, CallsShape, OutAs, Slots
<1>2. MessagesFit(ui, server) => MessagesFit(ui, server)'
  BY <1>1 DEF MessagesFit, InLog, OnceEach
<1> QED BY <1>1, <1>2 DEF BoxBody

LEMMA Drafts ==
    ASSUME BoxBody, TypeDraft
    PROVE  BoxBody'
<1>1. PICK n : n = ui.typed + 1
  OBVIOUS
<1>2. n \in Nat /\ ui.typed \in Nat /\ n = ui.typed + 1 /\ n \notin 1..ui.typed /\ 1..ui.typed \subseteq 1..n /\ n \in 1..n
  BY <1>1 DEF BoxBody, BoxUi
<1>3. BoxUi(ui') /\ ui'.draft = n /\ ui'.typed = n /\ ui'.failed = ui.failed
  BY <1>1, <1>2 DEF TypeDraft, Page, BoxBody, BoxUi, BoxFields
<1>4. UNCHANGED <<server, calls, faults>> /\ CallsShape' /\ OutAs("send")' = OutAs("send")
  BY DEF TypeDraft, Only, BoxBody, CallsShape, OutAs, Slots
<1>5. ASSUME MessagesFit(ui, server) PROVE MessagesFit(ui, server)'
  <2>1. ~InLog(server, n) /\ \A c \in OutAs("send") : calls[c].arg # n
    BY <1>2, <1>5 DEF MessagesFit, InLog
  <2>2. ui.failed # Nothing => ui.failed \in 1..ui.typed
    BY <1>5 DEF MessagesFit
  <2>3. n # ui.failed
    BY <1>2, <2>2, ComposerAssumption
  <2> QED BY <1>2, <1>3, <1>4, <1>5, <2>1, <2>2, <2>3 DEF MessagesFit, InLog, OnceEach
<1> QED BY <1>3, <1>4, <1>5 DEF BoxBody

(* A message goes out from the field or from the offer, which both empty.   *)
LEMMA MessageGoesOut ==
    ASSUME BoxBody, NEW id, id \in {ui.draft, ui.failed} \ {Nothing}, Send(id)
    PROVE  BoxBody'
<1>1. PICK s \in Slots : TakenBy(s, Request("send", id))
  BY FetchTakes DEF BoxBody, Send
<1>2. BoxUi(ui') /\ ui'.draft = Nothing /\ ui'.failed = Nothing /\ ui'.typed = ui.typed
  BY DEF Send, Sending, Page, BoxBody, BoxUi, BoxFields
<1>3. UNCHANGED <<server, faults>>
  BY DEF Send, Only
<1>4. CallsShape' /\ calls'[s].arg = id
  BY <1>1 DEF TakenBy, Request
<1>5. /\ OutAs("send")' = OutAs("send") \cup {s} /\ s \notin OutAs("send")
      /\ \A c \in OutAs("send") \ {s} : calls'[c] = calls[c]
  BY <1>1, OutTaken DEF Request
<1>6. ASSUME MessagesFit(ui, server) PROVE MessagesFit(ui, server)'
  <2>1. id \in 1..ui.typed /\ ~InLog(server, id) /\ \A c \in OutAs("send") : calls[c].arg # id
    BY <1>6 DEF MessagesFit
  <2>2. \A c \in OutAs("send") : c # s /\ calls'[c] = calls[c] /\ calls[c].arg # Nothing
    BY <1>5, <1>6, ComposerAssumption DEF MessagesFit
  <2>3. id # Nothing
    OBVIOUS
  <2> QED BY <1>2, <1>3, <1>4, <1>5, <1>6, <2>1, <2>2, <2>3 DEF MessagesFit, InLog, OnceEach
<1> QED BY <1>2, <1>3, <1>4, <1>6 DEF BoxBody

(* The session takes a message that it does not have.                       *)
LEMMA Posted ==
    ASSUME BoxBody, NEW c \in Slots, Sent(c, "send"), Answer(c, "created"), UNCHANGED <<ui, faults>>,
           server' = [server EXCEPT !.got = Append(@, calls[c].arg)]
    PROVE  BoxBody'
<1>1. calls[c].op # "none" /\ CallsShape
  BY DEF Sent, BoxBody
<1>2. SettledAs(c, "ok", "created")
  BY <1>1, AnswerSettles
<1>3. CallsShape' /\ calls'[c].at = "ok" /\ \A d \in OutAs("send") \ {c} : calls'[d] = calls[d]
  BY <1>2 DEF SettledAs, Others, OutAs
<1>4. OutAs("send")' = OutAs("send") /\ \A d \in OutAs("send") : calls'[d].arg = calls[d].arg
  BY <1>2, OutSettled
<1>5. PICK n, id : n = Len(server.got) + 1 /\ id = calls[c].arg
  OBVIOUS
<1>6. /\ Len(server.got) \in Nat /\ n \in Nat /\ n = Len(server.got) + 1
      /\ n \in 1..n /\ n \notin 1..Len(server.got) /\ 1..n = 1..Len(server.got) \cup {n}
  BY <1>5 DEF BoxBody, Posts
<1>7. PICK got : got = Append(server.got, id)
  OBVIOUS
<1>8. /\ Len(got) = n /\ got[n] = id /\ (\A k \in 1..Len(server.got) : got[k] = server.got[k])
      /\ got = [k \in 1..n |-> got[k]]
  <2>1. PICK S : S = {server.got[k] : k \in 1..Len(server.got)} \cup {id}
    OBVIOUS
  <2>2. server.got \in Seq(S) /\ id \in S
    BY <2>1 DEF BoxBody, Posts
  <2> QED BY <1>5, <1>7, <2>2
<1>9. server' = [live |-> server.live, got |-> got, refused |-> server.refused]
  BY <1>5, <1>7 DEF BoxBody, Posts
<1>10. Posts(server')
  <2>1. server'.got = got /\ Len(got) \in Nat /\ got = [k \in 1..Len(got) |-> got[k]]
    BY <1>6, <1>8, <1>9
  <2>2. server' = [live |-> server'.live, got |-> server'.got, refused |-> server'.refused]
    BY <1>9
  <2> QED BY <2>1, <2>2 DEF Posts
<1>11. ASSUME MessagesFit(ui, server) PROVE MessagesFit(ui, server)'
  <2>1. c \in OutAs("send") /\ calls[c].at # "ok"
    BY DEF Sent, OutAs
  <2>2. /\ id \in 1..ui.typed /\ ~InLog(server, id) /\ id \notin {ui.draft, ui.failed}
        /\ \A d \in OutAs("send") \ {c} : calls[d].arg # id
    BY <1>5, <1>11, <2>1 DEF MessagesFit
  <2>3. \A x : InLog(server', x) <=> InLog(server, x) \/ x = id
    BY <1>6, <1>8, <1>9 DEF InLog
  <2>4. OnceEach(server')
    BY <1>6, <1>8, <1>9, <1>11, <2>2 DEF OnceEach, InLog, MessagesFit
  <2>5. \A k \in 1..Len(server'.got) : server'.got[k] \in 1..ui.typed
    BY <1>6, <1>8, <1>9, <1>11, <2>2 DEF MessagesFit
  <2> QED BY <1>3, <1>4, <1>11, <2>2, <2>3, <2>4, <2>5 DEF MessagesFit
<1> QED BY <1>3, <1>10, <1>11 DEF BoxBody

(* A request that is refused, or that fails: it is not in the session.      *)
LEMMA BoxSettles ==
    ASSUME BoxBody, NEW c \in Slots, NEW got, SettledAs(c, "failed", got), UNCHANGED ui,
           Posts(server'), server'.got = server.got,
           \/ faults' = faults /\ calls[c].at # "ok"
           \/ faults' = faults + 1
    PROVE  BoxBody'
<1>1. OutAs("send")' = OutAs("send") /\ CallsShape' /\ \A d \in OutAs("send") : calls'[d].arg = calls[d].arg
  BY OutSettled DEF SettledAs
<1>2. \A d \in OutAs("send") \ {c} : calls'[d] = calls[d]
  BY DEF SettledAs, Others, OutAs
<1>3. faults' \in Nat /\ (faults' = 0 => faults = 0 /\ calls[c].at # "ok")
  BY DEF BoxBody
<1>4. MessagesFit(ui, server) /\ calls[c].at # "ok" => MessagesFit(ui, server)'
  BY <1>1, <1>2 DEF MessagesFit, InLog, OnceEach
<1> QED BY <1>1, <1>3, <1>4 DEF BoxBody

LEMMA BoxServes ==
    ASSUME BoxBody, NEW c \in Slots, ServeSend(c)
    PROVE  BoxBody'
<1>1. CASE Answer(c, "created") /\ server' = [server EXCEPT !.got = Append(@, calls[c].arg)]
  BY <1>1, Posted DEF ServeSend, Only
<1>2. CASE /\ server' = [server EXCEPT !.refused = IF server.live THEN @ + 1 ELSE @]
           /\ calls' = [calls EXCEPT ![c].at = "failed"]
  <2>1. UNCHANGED <<ui, faults>> /\ calls[c] # Free /\ calls[c].at # "ok" /\ CallsShape
    BY DEF ServeSend, Sent, Only, Free, BoxBody
  <2>2. SettledAs(c, "failed", calls[c].got)
    BY <1>2, <2>1 DEF CallsShape, IsCall, SettledAs, Others
  <2>3. PICK refused : server' = [server EXCEPT !.refused = refused]
    BY <1>2
  <2>4. Posts(server') /\ server'.got = server.got
    BY <2>3 DEF BoxBody, Posts
  <2> QED BY <2>1, <2>2, <2>4, BoxSettles
<1> QED BY <1>1, <1>2 DEF ServeSend

LEMMA BoxComesBack ==
    ASSUME BoxBody, NEW c \in Slots, SendAnswered(c)
    PROVE  BoxBody'
<1> DEFINE id == calls[c].arg
<1>1. LeftWith(c, Free)
  BY DoneLeaves DEF BoxBody, SendAnswered
<1>2. /\ OutAs("send")' = OutAs("send") \ {c}
      /\ \A d \in OutAs("send") \ {c} : calls'[d] = calls[d]
  BY <1>1, OutLeft DEF Free
<1>3. CallsShape' /\ UNCHANGED <<server, faults>> /\ c \in OutAs("send")
  BY <1>1 DEF LeftWith, SendAnswered, Only, Back, Ok, Failed, OutAs
<1>4. /\ BoxUi(ui') /\ ui'.draft = ui.draft /\ ui'.typed = ui.typed
      /\ ui'.failed = ui.failed \/ (ui'.failed = id /\ calls[c].at = "failed")
  BY DEF SendAnswered, Failed, Page, BoxBody, BoxUi, BoxFields
<1>5. ASSUME MessagesFit(ui, server) PROVE MessagesFit(ui, server)'
  <2>1. id \in 1..ui.typed /\ id # ui.draft /\ \A d \in OutAs("send") \ {c} : calls[d].arg # id
    BY <1>3, <1>5 DEF MessagesFit
  <2>2. calls[c].at = "failed" => ~InLog(server, id)
    BY <1>3, <1>5 DEF MessagesFit
  <2>3. CASE ui'.failed = ui.failed
    BY <1>2, <1>3, <1>4, <1>5, <2>3 DEF MessagesFit, InLog, OnceEach
  <2>4. CASE ui'.failed = id /\ calls[c].at = "failed"
    BY <1>2, <1>3, <1>4, <1>5, <2>1, <2>2, <2>4 DEF MessagesFit, InLog, OnceEach
  <2> QED BY <1>4, <2>3, <2>4
<1> QED BY <1>3, <1>4, <1>5 DEF BoxBody

LEMMA Footer ==
    ASSUME BoxBody, ReadOnlyFooter
    PROVE  BoxBody'
<1>1. BoxUi(ui') /\ ui'.draft = Nothing /\ ui'.failed = Nothing /\ ui'.typed = ui.typed
  BY DEF ReadOnlyFooter, Page, BoxBody, BoxUi, BoxFields
<1>2. UNCHANGED <<server, calls, faults>> /\ CallsShape' /\ OutAs("send")' = OutAs("send")
  BY DEF ReadOnlyFooter, Only, BoxBody, CallsShape, OutAs, Slots
<1>3. ASSUME MessagesFit(ui, server) PROVE MessagesFit(ui, server)'
  <2>1. \A c \in OutAs("send") : calls[c].arg # Nothing
    BY <1>3, ComposerAssumption DEF MessagesFit
  <2> QED BY <1>1, <1>2, <1>3, <2>1 DEF MessagesFit, InLog, OnceEach
<1> QED BY <1>1, <1>2, <1>3 DEF BoxBody

LEMMA BoxFails ==
    ASSUME BoxBody, NEW c \in Slots, Fail(c)
    PROVE  BoxBody'
<1>1. CallsShape /\ Posts(server)
  BY DEF BoxBody
<1>2. SettledAs(c, "failed", Nothing) /\ UNCHANGED ui /\ UNCHANGED server /\ faults' = faults + 1
  BY <1>1, FailSettles
<1> QED BY <1>1, <1>2, BoxSettles

LEMMA BoxKeeps ==
    ASSUME BoxBody, ComposerNext \/ Fails \/ UNCHANGED vars
    PROVE  BoxBody'
<1>1. CASE SendDraft
  BY <1>1, MessageGoesOut DEF SendDraft
<1>2. CASE RetrySend
  BY <1>2, MessageGoesOut DEF RetrySend
<1>3. CASE EndsWhileTyping
  BY <1>3, BoxSame DEF EndsWhileTyping, Elsewhere, BoxBody, Posts
<1>4. CASE Fails
  BY <1>4, BoxFails DEF Fails
<1>5. CASE UNCHANGED vars
  BY <1>5, BoxSame DEF vars, BoxBody
<1> QED BY <1>1, <1>2, <1>3, <1>4, <1>5, Drafts, Footer, BoxServes, BoxComesBack DEF ComposerNext

LEMMA BoxIsOnce ==
    ASSUME BoxBody, faults = 0
    PROVE  IsInjective(server.got) /\ ~Contains(server.got, ui.failed)
<1>1. MessagesFit(ui, server) /\ Posts(server)
  BY DEF BoxBody
<1>2. DOMAIN server.got = 1..Len(server.got)
  BY <1>1 DEF Posts
<1>3. IsInjective(server.got)
  BY <1>1, <1>2 DEF MessagesFit, OnceEach, IsInjective
<1>4. ~InLog(server, ui.failed)
  BY <1>1, ComposerAssumption DEF MessagesFit, InLog
<1> QED BY <1>2, <1>3, <1>4 DEF Contains, InLog
-----------------------------------------------------------------------------
(* The sidebar: one confirmed question is out at a time, the page is busy   *)
(* with it, and while nobody moves it says rightly whether its row is being *)
(* viewed.                                                                  *)

SideFields == {"list", "view", "confirm", "open", "busy", "editing", "moved"}
SideUi(u) ==
    /\ u = [f \in SideFields |-> u[f]]
    /\ u.view \in SideRows \cup {Nothing} /\ u.busy \in BOOLEAN /\ u.moved \in BOOLEAN
Asks(q) == q.x \in SideRows /\ q.kind \in {"end", "delete"}
SideBody ==
    /\ CallsShape /\ SideUi(ui)
    /\ ui.open => Asks(ui.confirm)
    /\ OutAs("confirm") # {} => ui.busy
    /\ \A c, d \in OutAs("confirm") : c = d
    /\ \A c \in OutAs("confirm") :
         Asks(calls[c].arg) /\ (~ui.moved => (calls[c].arg.viewed <=> ui.view = calls[c].arg.x))
SideInv == OnSide => SideBody

LEMMA SideStarts == SideInit => SideBody
<1> SUFFICES ASSUME SideInit PROVE SideBody
  OBVIOUS
<1>1. PICK state, held : /\ Opens("side", state, held, Request("list", Nothing))
                         /\ SideUi(state) /\ ~state.open
  <2>1. PICK v \in SideRows \cup {Nothing} :
          Opens("side",
                [list |-> Nothing, view |-> v, confirm |-> Nothing, open |-> FALSE,
                 busy |-> FALSE, editing |-> Nothing, moved |-> FALSE],
                [x \in SideRows |-> [status |-> "live", title |-> "old"]],
                Request("list", Nothing))
    BY DEF SideInit
  <2>2. PICK state : state = [list |-> Nothing, view |-> v, confirm |-> Nothing, open |-> FALSE,
                              busy |-> FALSE, editing |-> Nothing, moved |-> FALSE]
    OBVIOUS
  <2>3. SideUi(state) /\ ~state.open
    BY <2>2 DEF SideUi, SideFields
  <2> QED BY <2>1, <2>2, <2>3
<1>2. IsCall(Request("list", Nothing))
  BY DEF IsCall, Request
<1>3. /\ ui = state /\ CallsShape /\ calls[1] = Request("list", Nothing)
      /\ \A c \in Slots \ {1} : calls[c] = Free
  BY <1>1, <1>2, OpensWith
<1>4. OutAs("confirm") = {}
  BY <1>3 DEF OutAs, Request, Free
<1> QED BY <1>1, <1>3, <1>4 DEF SideBody

(* What the other steps leave alone of the page, and of what is asked.      *)
SideStill(u, v) ==
    /\ SideUi(v) /\ v.view = u.view /\ v.busy = u.busy /\ v.moved = u.moved
    /\ v.open => Asks(v.confirm)

LEMMA SideEdits ==
    ASSUME SideBody, SideStill(ui, ui'), OutAs("confirm")' = OutAs("confirm"), CallsShape',
           \A c \in OutAs("confirm") : calls'[c].arg = calls[c].arg
    PROVE  SideBody'
BY DEF SideBody, SideStill

LEMMA SideCallsSame == SideBody /\ UNCHANGED calls => CallsShape' /\ OutAs("confirm")' = OutAs("confirm")
BY DEF SideBody, CallsShape, OutAs, Slots

LEMMA SideMoves ==
    ASSUME SideBody, NEW v \in SideRows \cup {Nothing}, GoTo(v)
    PROVE  SideBody'
<1>1. UNCHANGED calls
  BY DEF GoTo, Only
<1>2. /\ SideUi(ui') /\ ui'.busy = ui.busy /\ ui'.open = ui.open /\ ui'.confirm = ui.confirm
      /\ ~ui'.moved => ~ui.busy
  BY DEF GoTo, Page, SideBody, SideUi, SideFields
<1>3. CallsShape' /\ OutAs("confirm")' = OutAs("confirm")
  BY <1>1, SideCallsSame
<1> QED BY <1>1, <1>2, <1>3 DEF SideBody

LEMMA SideAsks ==
    ASSUME SideBody, NEW kind \in {"end", "delete"}, NEW x, AskConfirm(kind, x) \/ CloseDialog \/ StartRename(x) \/ CancelRename
    PROVE  SideBody'
<1>1. UNCHANGED calls
  BY DEF AskConfirm, CloseDialog, StartRename, CancelRename, Only
<1>2. CASE AskConfirm(kind, x)
  <2>1. PICK q, open : q = [kind |-> kind, x |-> x] /\ open = (ui.confirm = Nothing)
    OBVIOUS
  <2>2. ui' = [[ui EXCEPT !.confirm = q] EXCEPT !.open = open]
    BY <1>2, <2>1 DEF AskConfirm, Page
  <2>3. Asks(q)
    BY <1>2, <2>1 DEF Asks, AskConfirm, Sections
  <2> QED BY <2>2, <2>3, <1>1, SideCallsSame, SideEdits DEF SideBody, SideStill, SideUi, SideFields
<1>3. CASE CloseDialog
  BY <1>3, <1>1, SideCallsSame, SideEdits DEF CloseDialog, Page, SideBody, SideStill, SideUi, SideFields
<1>4. CASE StartRename(x) \/ CancelRename
  BY <1>4, <1>1, SideCallsSame, SideEdits DEF StartRename, CancelRename, Page, SideBody, SideStill, SideUi, SideFields
<1> QED BY <1>2, <1>3, <1>4

(* Requests that are not a confirmed question.                              *)
LEMMA SideFetches ==
    ASSUME SideBody, SideStill(ui, ui'), NEW op, op # "confirm", NEW arg, Fetch(op, arg)
    PROVE  SideBody'
<1>1. PICK s, r : s \in Slots /\ TakenBy(s, r) /\ r = Request(op, arg)
  BY FetchTakes DEF SideBody
<1>2. r.op # "confirm"
  BY <1>1 DEF Request
<1>3. /\ OutAs("confirm")' = OutAs("confirm") \ {s} /\ s \notin OutAs("confirm")
      /\ \A c \in OutAs("confirm") \ {s} : calls'[c] = calls[c]
  BY <1>1, <1>2, OutTaken
<1>4. CallsShape'
  BY <1>1 DEF TakenBy
<1> QED BY <1>3, <1>4, SideEdits

LEMMA SidePolls ==
    ASSUME SideBody, PollSide \/ SaveRename
    PROVE  SideBody'
<1>1. CASE PollSide
  BY <1>1, SideFetches DEF PollSide, Only, SideBody, SideStill
<1>2. CASE SaveRename
  <2>1. SideStill(ui, ui')
    BY <1>2 DEF SaveRename, Page, SideBody, SideStill, SideUi, SideFields
  <2>2. (\E arg : Fetch("rename", arg)) \/ UNCHANGED calls
    BY <1>2 DEF SaveRename
  <2>3. CASE \E arg : Fetch("rename", arg)
    BY <2>1, <2>3, SideFetches
  <2>4. CASE UNCHANGED calls
    BY <2>1, <2>4, SideCallsSame, SideEdits
  <2> QED BY <2>2, <2>3, <2>4
<1> QED BY <1>1, <1>2

(* The question is sent by a page that is not busy, so alone, and with      *)
(* where the visitor is.                                                    *)
LEMMA SideConfirms ==
    ASSUME SideBody, DoConfirm
    PROVE  SideBody'
<1>1. PICK arg : arg = [kind |-> ui.confirm.kind, x |-> ui.confirm.x, viewed |-> ui.view = ui.confirm.x]
  OBVIOUS
<1>2. Asks(arg) /\ (arg.viewed <=> ui.view = arg.x)
  BY <1>1 DEF DoConfirm, SideBody, Asks
<1>3. PICK s, r : s \in Slots /\ TakenBy(s, r) /\ r = Request("confirm", arg)
  BY <1>1, FetchTakes DEF DoConfirm, SideBody
<1>4. OutAs("confirm") = {}
  BY DEF DoConfirm, SideBody
<1>5. r.op = "confirm" /\ r.arg = arg
  BY <1>3 DEF Request
<1>6. OutAs("confirm")' = {s}
  <2>1. OutAs("confirm")' = OutAs("confirm") \cup {s}
    BY <1>3, <1>5, OutTaken
  <2> QED BY <1>4, <2>1
<1>7. CallsShape' /\ calls'[s].arg = arg
  BY <1>3, <1>5 DEF TakenBy
<1>8. SideUi(ui') /\ ui'.view = ui.view /\ ui'.busy /\ ui'.open = ui.open /\ ui'.confirm = ui.confirm
  BY DEF DoConfirm, Page, SideBody, SideUi, SideFields
<1> QED BY <1>2, <1>6, <1>7, <1>8 DEF SideBody

LEMMA SideSettles ==
    ASSUME SideBody, NEW c \in Slots, NEW at, NEW got, SettledAs(c, at, got), UNCHANGED ui
    PROVE  SideBody'
<1>1. /\ OutAs("confirm")' = OutAs("confirm") /\ CallsShape'
      /\ \A d \in OutAs("confirm") : calls'[d].arg = calls[d].arg
  BY OutSettled DEF SettledAs
<1> QED BY <1>1, SideEdits DEF SideBody, SideStill

LEMMA SideServes ==
    ASSUME SideBody, NEW c \in Slots, ServeList(c) \/ ServeConfirm(c) \/ ServeRename(c)
    PROVE  SideBody'
<1>1. PICK got : Answer(c, got)
  BY DEF ServeList, ServeConfirm, ServeRename
<1>2. calls[c].op # "none" /\ UNCHANGED ui /\ CallsShape
  BY DEF ServeList, ServeConfirm, ServeRename, Sent, Only, SideBody
<1> QED BY <1>1, <1>2, AnswerSettles, SideSettles

LEMMA SideComesIn ==
    ASSUME SideBody, NEW c \in Slots, SideLoaded(c) \/ Renamed(c)
    PROVE  SideBody'
<1>1. LeftWith(c, Free)
  BY DoneLeaves DEF SideBody, SideLoaded, Renamed
<1>2. /\ OutAs("confirm")' = OutAs("confirm") \ {c}
      /\ \A d \in OutAs("confirm") \ {c} : calls'[d] = calls[d]
  BY <1>1, OutLeft DEF Free
<1>3. CallsShape' /\ c \notin OutAs("confirm")
  BY <1>1 DEF LeftWith, SideLoaded, Renamed, Back, Ok, Failed, OutAs
<1>4. SideStill(ui, ui')
  BY DEF SideLoaded, Renamed, PatchRow, Page, SideBody, SideStill, SideUi, SideFields
<1> QED BY <1>2, <1>3, <1>4, SideEdits

(* The page after an answer: the rows patched, who is viewed, and nothing   *)
(* asked any more.                                                          *)
LEMMA ConfirmedUi ==
    ASSUME SideBody, NEW c \in Slots, Confirmed(c)
    PROVE  /\ ui' = [f \in SideFields |-> ui'[f]]
           /\ ui'.view = (IF calls[c].got # Nothing /\ calls[c].arg.kind # "end" /\ calls[c].arg.viewed
                            THEN Nothing ELSE ui.view)
           /\ ~ui'.busy /\ ui'.busy \in BOOLEAN /\ ui'.moved = ui.moved /\ ~ui'.open
<1> DEFINE a == calls[c].arg
           done == IF calls[c].got = Nothing THEN ui
                   ELSE IF a.kind = "end" THEN PatchRow(ui, a.x, calls[c].got)
                   ELSE [DropRow(ui, a.x) EXCEPT !.view = IF a.viewed THEN Nothing ELSE @]
<1>1. PICK d : d = done
  OBVIOUS
<1>2. /\ d = [f \in SideFields |-> d[f]] /\ d.moved = ui.moved
      /\ d.view = (IF calls[c].got # Nothing /\ a.kind # "end" /\ a.viewed THEN Nothing ELSE ui.view)
  <2>1. CASE calls[c].got = Nothing
    BY <1>1, <2>1 DEF SideBody, SideUi
  <2>2. CASE calls[c].got # Nothing /\ a.kind = "end"
    BY <1>1, <2>2 DEF PatchRow, SideBody, SideUi, SideFields
  <2>3. CASE calls[c].got # Nothing /\ a.kind # "end"
    <3>1. PICK p : p = DropRow(ui, a.x)
      OBVIOUS
    <3>2. p = [f \in SideFields |-> p[f]] /\ p.moved = ui.moved /\ p.view = ui.view
      BY <3>1 DEF DropRow, SideBody, SideUi, SideFields
    <3>3. d = [p EXCEPT !.view = IF a.viewed THEN Nothing ELSE @]
      BY <1>1, <2>3, <3>1
    <3> QED BY <2>3, <3>2, <3>3 DEF SideFields
  <2> QED BY <2>1, <2>2, <2>3
<1>3. ui' = [d EXCEPT !.busy = FALSE, !.confirm = Nothing, !.open = FALSE]
  BY <1>1 DEF Confirmed, Page
<1> QED BY <1>2, <1>3 DEF SideFields

LEMMA SideSettled ==
    ASSUME SideBody, NEW c \in Slots, Confirmed(c)
    PROVE  SideBody'
<1>1. LeftWith(c, Free)
  BY DoneLeaves DEF SideBody, Confirmed
<1>2. OutAs("confirm")' = OutAs("confirm") \ {c}
  BY <1>1, OutLeft DEF Free
<1>3. CallsShape' /\ c \in OutAs("confirm")
  BY <1>1 DEF LeftWith, Confirmed, Back, Ok, Failed, OutAs
<1>4. OutAs("confirm")' = {}
  BY <1>2, <1>3 DEF SideBody
<1>5. SideUi(ui') /\ ~ui'.open
  BY ConfirmedUi DEF SideBody, SideUi
<1> QED BY <1>3, <1>4, <1>5 DEF SideBody

LEMMA SideFails ==
    ASSUME SideBody, NEW c \in Slots, Fail(c)
    PROVE  SideBody'
<1>1. CallsShape
  BY DEF SideBody
<1>2. SettledAs(c, "failed", Nothing) /\ UNCHANGED ui
  BY <1>1, FailSettles
<1> QED BY <1>2, SideSettles

LEMMA SideKeeps ==
    ASSUME SideBody, SideNext \/ Fails \/ UNCHANGED vars
    PROVE  SideBody'
<1>1. CASE Fails
  BY <1>1, SideFails DEF Fails
<1>2. CASE EndsElsewhere \/ UNCHANGED vars
  <2>1. ui' = ui /\ UNCHANGED calls
    BY <1>2 DEF EndsElsewhere, Elsewhere, vars
  <2> QED BY <2>1, SideCallsSame, SideEdits DEF SideBody, SideStill
<1> QED BY <1>1, <1>2, SideMoves, SideAsks, SidePolls, SideConfirms, SideServes, SideComesIn, SideSettled DEF SideNext

(* Whoever has not moved since leaves exactly the session that is deleted   *)
(* while they look at it.                                                   *)
LEMMA SideLeaves ==
    ASSUME SideBody, ~ui.moved, NEW c \in Slots, Confirmed(c)
    PROVE  ui'.view # ui.view <=> /\ calls[c].got # Nothing /\ calls[c].arg.kind = "delete"
                                  /\ ui.view = calls[c].arg.x
<1>1. c \in OutAs("confirm")
  BY DEF Confirmed, Back, Ok, Failed, OutAs
<1>2. Asks(calls[c].arg) /\ (calls[c].arg.viewed <=> ui.view = calls[c].arg.x)
  BY <1>1 DEF SideBody
<1>3. ui'.view = (IF calls[c].got # Nothing /\ calls[c].arg.kind # "end" /\ calls[c].arg.viewed
                    THEN Nothing ELSE ui.view)
  BY ConfirmedUi
<1> QED BY <1>2, <1>3, SideAssumption DEF Asks
-----------------------------------------------------------------------------
(* The bell: one request is out, in the first slot, and its answer is no    *)
(* older than the list and no newer than what the API holds.                *)

BellFields == {"items", "open", "path", "badge"}
BellUi(u) == u = [f \in BellFields |-> u[f]] /\ u.items.at \in Int
Newer(u, s, r) == r.op = "approvals" /\ r.at = "ok" => r.got.at \in Int /\ u.items.at <= r.got.at /\ r.got.at <= s.at
BellBody ==
    /\ CallsShape /\ BellUi(ui) /\ server.at \in Int /\ ui.items.at <= server.at
    /\ Newer(ui, server, calls[1])
    /\ \A c \in Slots \ {1} : calls[c] = Free
BellInv == OnBell => BellBody

LEMMA FirstSlot == 1 \in Slots
BY BrowserAssumption DEF Slots

LEMMA BellStarts == BellInit => BellBody
<1> SUFFICES ASSUME BellInit PROVE BellBody
  OBVIOUS
<1>1. PICK waits : waits = [at |-> 0, of |-> {}]
  OBVIOUS
<1>2. IsCall(Request("approvals", Nothing))
  BY DEF IsCall, Request
<1>3. /\ ui = [items |-> waits, open |-> FALSE, path |-> "home", badge |-> 0]
      /\ server = waits /\ CallsShape /\ calls[1] = Request("approvals", Nothing)
      /\ \A c \in Slots \ {1} : calls[c] = Free
  BY <1>1, <1>2, OpensWith DEF BellInit
<1> QED BY <1>1, <1>3 DEF BellBody, BellUi, BellFields, Newer, Request

(* load, whatever it aborts.                                                *)
LEMMA BellLoads ==
    ASSUME BellBody, LoadBell, BellUi(ui'), ui'.items = ui.items, UNCHANGED server
    PROVE  BellBody'
<1>1. PICK r : r = Request("approvals", Nothing)
  OBVIOUS
<1>2. calls' = [c \in Slots |-> IF c = 1 THEN r ELSE Free]
  BY <1>1 DEF LoadBell, NoCalls
<1>3. calls'[1] = r /\ \A c \in Slots \ {1} : calls'[c] = Free
  BY <1>2, FirstSlot
<1>4. r.at = "sent" /\ IsCall(r)
  BY <1>1 DEF Request, IsCall
<1>5. CallsShape'
  BY <1>2, <1>4 DEF CallsShape, IsCall
<1> QED BY <1>3, <1>4, <1>5 DEF BellBody, Newer

LEMMA BellEdits ==
    ASSUME BellBody, UNCHANGED calls, BellUi(ui'), ui'.items = ui.items,
           server'.at \in Int, server.at <= server'.at
    PROVE  BellBody'
<1>1. CallsShape' /\ calls' = calls
  BY DEF BellBody, CallsShape
<1>2. Newer(ui', server', calls[1])
  BY DEF BellBody, BellUi, Newer
<1> QED BY <1>1, <1>2 DEF BellBody, BellUi

LEMMA BellServes ==
    ASSUME BellBody, NEW c \in Slots, ServeApprovals(c)
    PROVE  BellBody' /\ UNCHANGED ui
<1>1. calls[c].op # "none" /\ CallsShape /\ UNCHANGED <<ui, server>> /\ calls[c] # Free
  BY DEF ServeApprovals, Sent, Only, BellBody, Free
<1>2. SettledAs(c, "ok", server)
  BY <1>1, AnswerSettles DEF ServeApprovals
<1>3. c = 1
  BY <1>1 DEF BellBody
<1>4. CallsShape' /\ calls'[1].got = server /\ \A d \in Slots \ {1} : calls'[d] = Free
  BY <1>2, <1>3 DEF SettledAs, Others, BellBody
<1> QED BY <1>1, <1>4 DEF BellBody, Newer

LEMMA BellRings ==
    ASSUME BellBody, NEW c \in Slots, BellAnswered(c)
    PROVE  BellBody' /\ ui'.items.at >= ui.items.at
<1>1. LeftWith(c, Free) /\ UNCHANGED server /\ calls[c] # Free
  BY DoneLeaves DEF BellBody, BellAnswered, Only, Back, Ok, Failed, Free
<1>2. c = 1
  BY <1>1 DEF BellBody
<1>3. CallsShape' /\ calls'[1] = Free /\ \A d \in Slots \ {1} : calls'[d] = Free
  BY <1>1, <1>2 DEF LeftWith, Others, BellBody
<1>4. BellUi(ui') /\ ui'.items.at <= server.at /\ ui'.items.at >= ui.items.at
  <2>1. CASE Ok(c, "approvals")
    <3>1. PICK got, badge : got = calls[c].got /\ badge = Cardinality(calls[c].got.of)
      OBVIOUS
    <3>2. got.at \in Int /\ ui.items.at <= got.at /\ got.at <= server.at
      BY <1>2, <2>1, <3>1 DEF Ok, BellBody, Newer
    <3>3. ui' = [ui EXCEPT !.items = got, !.badge = badge]
      BY <2>1, <3>1 DEF BellAnswered, Page
    <3> QED BY <3>2, <3>3 DEF BellBody, BellUi, BellFields
  <2>2. CASE ~Ok(c, "approvals")
    BY <2>2 DEF BellAnswered, Page, BellBody, BellUi
  <2> QED BY <2>1, <2>2
<1> QED BY <1>1, <1>3, <1>4 DEF BellBody, Newer, Free

LEMMA BellFails ==
    ASSUME BellBody, NEW c \in Slots, Fail(c)
    PROVE  BellBody' /\ UNCHANGED ui
<1>1. CallsShape
  BY DEF BellBody
<1>2. SettledAs(c, "failed", Nothing) /\ calls[c] # Free /\ UNCHANGED ui /\ UNCHANGED server
  BY <1>1, FailSettles
<1>3. c = 1
  BY <1>2 DEF BellBody
<1>4. CallsShape' /\ calls'[1].at = "failed" /\ \A d \in Slots \ {1} : calls'[d] = Free
  BY <1>2, <1>3 DEF SettledAs, Others, BellBody
<1> QED BY <1>2, <1>4 DEF BellBody, Newer

LEMMA BellKeeps ==
    ASSUME BellBody, BellNext \/ Fails \/ UNCHANGED vars
    PROVE  BellBody' /\ ui'.items.at >= ui.items.at
<1>0. ui.items.at \in Int
  BY DEF BellBody, BellUi
<1>1. CASE PollBell
  <2>1. ui' = ui /\ server' = server /\ LoadBell
    BY <1>1 DEF PollBell, Only
  <2> QED BY <1>0, <2>1, BellLoads DEF BellBody
<1>2. ASSUME NEW p, WalkTo(p) PROVE BellBody' /\ ui'.items.at >= ui.items.at
  <2>1. PICK n : n = Cardinality(ui.items.of)
    OBVIOUS
  <2>2. ui' = [ui EXCEPT !.path = p, !.badge = n] /\ server' = server /\ LoadBell
    BY <1>2, <2>1 DEF WalkTo, Page, Only
  <2>3. BellUi(ui') /\ ui'.items = ui.items
    BY <2>2 DEF BellBody, BellUi, BellFields
  <2> QED BY <1>0, <2>2, <2>3, BellLoads
<1>3. CASE ToggleBell
  <2>1. BellUi(ui') /\ ui'.items = ui.items /\ server' = server /\ UNCHANGED calls
    BY <1>3 DEF ToggleBell, Page, Only, BellBody, BellUi, BellFields
  <2> QED BY <1>0, <2>1, BellEdits DEF BellBody
<1>4. CASE PickApproval
  <2>1. BellUi(ui') /\ ui'.items = ui.items /\ server' = server /\ (UNCHANGED calls \/ LoadBell)
    BY <1>4 DEF PickApproval, Page, Only, BellBody, BellUi, BellFields
  <2> QED BY <1>0, <2>1, BellEdits, BellLoads DEF BellBody
<1>5. CASE AgentAsks
  <2>1. server'.at = server.at + 1 /\ ui' = ui /\ UNCHANGED calls
    BY <1>5 DEF AgentAsks, Elsewhere
  <2> QED BY <1>0, <2>1, BellEdits DEF BellBody
<1>6. CASE Fails
  BY <1>0, <1>6, BellFails DEF Fails
<1>7. CASE UNCHANGED vars
  <2>1. server' = server /\ ui' = ui /\ UNCHANGED calls
    BY <1>7 DEF vars
  <2> QED BY <1>0, <2>1, BellEdits DEF BellBody
<1>8. ASSUME NEW c \in Slots, ServeApprovals(c) PROVE BellBody' /\ ui'.items.at >= ui.items.at
  BY <1>0, <1>8, BellServes
<1> QED BY <1>1, <1>2, <1>3, <1>4, <1>5, <1>6, <1>7, <1>8, BellRings DEF BellNext
-----------------------------------------------------------------------------
(* The marks: what the API holds, and what is asked of it, are numbers.     *)

SeenFields == {"top", "visible", "timer", "badge", "onScreen"}
SeenUi(u) == u = [f \in SeenFields |-> u[f]] /\ u.top \in Int
Marked(s) == s = [log |-> s.log, seen |-> s.seen] /\ s.log \in Int /\ s.seen \in Int
SeenBody ==
    /\ CallsShape /\ SeenUi(ui) /\ Marked(server)
    /\ \A c \in OutAs("mark") : calls[c].arg \in Int
SeenInv == OnSeen => SeenBody

LEMMA SeenStarts == SeenInit => SeenBody
<1> SUFFICES ASSUME SeenInit PROVE SeenBody
  OBVIOUS
<1>1. PICK visible \in BOOLEAN, seen \in 0..1 :
        Opens("seen", [top |-> 0, visible |-> visible, timer |-> FALSE, badge |-> 0, onScreen |-> seen],
              [log |-> 2, seen |-> seen], Request("rows", Nothing))
  BY DEF SeenInit
<1>2. IsCall(Request("rows", Nothing))
  BY DEF IsCall, Request
<1>3. /\ ui = [top |-> 0, visible |-> visible, timer |-> FALSE, badge |-> 0, onScreen |-> seen]
      /\ server = [log |-> 2, seen |-> seen]
      /\ CallsShape /\ calls[1] = Request("rows", Nothing) /\ \A c \in Slots \ {1} : calls[c] = Free
  BY <1>1, <1>2, OpensWith
<1>4. OutAs("mark") = {}
  BY <1>3 DEF OutAs, Request, Free
<1> QED BY <1>3, <1>4 DEF SeenBody, SeenUi, SeenFields, Marked

LEMMA SeenEdits ==
    ASSUME SeenBody, UNCHANGED calls, SeenUi(ui'), Marked(server')
    PROVE  SeenBody'
BY DEF SeenBody, CallsShape, OutAs, Slots

LEMMA ShowingIs == \A u : SeenUi(u) => SeenUi(Showing(u)) /\ Showing(u).top = u.top
BY DEF Showing, SeenUi, SeenFields

LEMMA SeenFetches ==
    ASSUME SeenBody, SeenUi(ui'), UNCHANGED server, NEW op, NEW arg, Fetch(op, arg), op = "mark" => arg \in Int
    PROVE  SeenBody'
<1>1. PICK s, r : s \in Slots /\ TakenBy(s, r) /\ r = Request(op, arg)
  BY FetchTakes DEF SeenBody
<1>2. CallsShape' /\ (calls'[s].op = "mark" => calls'[s].arg \in Int) /\ \A c \in Slots \ {s} : calls'[c] = calls[c]
  BY <1>1 DEF TakenBy, Others, Request
<1> QED BY <1>2 DEF SeenBody, OutAs, Slots

LEMMA MarkKeeps ==
    ASSUME SeenBody, NEW u, SeenUi(u), Mark(u)
    PROVE  SeenBody' /\ UNCHANGED server
<1>1. ui' = u /\ UNCHANGED server /\ (UNCHANGED calls \/ Fetch("mark", u.top)) /\ u.top \in Int /\ Marked(server)
  BY DEF Mark, Page, Only, SeenUi, SeenBody
<1>2. CASE UNCHANGED calls
  BY <1>1, <1>2, SeenEdits
<1>3. CASE Fetch("mark", u.top)
  BY <1>1, <1>3, SeenFetches
<1> QED BY <1>1, <1>2, <1>3

LEMMA SeenSettles ==
    ASSUME SeenBody, NEW c \in Slots, NEW at, NEW got, SettledAs(c, at, got), UNCHANGED ui, Marked(server')
    PROVE  SeenBody'
<1>1. /\ OutAs("mark")' = OutAs("mark") /\ CallsShape'
      /\ \A d \in OutAs("mark") : calls'[d].arg = calls[d].arg
  BY OutSettled DEF SettledAs
<1> QED BY <1>1 DEF SeenBody

(* The mark the API keeps only rises.                                       *)
LEMMA MarkServed ==
    ASSUME SeenBody, NEW c \in Slots, ServeMark(c)
    PROVE  SeenBody' /\ server'.seen >= server.seen
<1>1. c \in OutAs("mark") /\ calls[c].op # "none" /\ UNCHANGED ui /\ CallsShape
  BY DEF ServeMark, Sent, OutAs, Only, SeenBody
<1>2. SettledAs(c, "ok", "seen")
  BY <1>1, AnswerSettles DEF ServeMark
<1>3. PICK seq : seq = calls[c].arg
  OBVIOUS
<1>4. seq \in Int /\ server.log \in Int /\ server.seen \in Int /\ server = [log |-> server.log, seen |-> server.seen]
  BY <1>1, <1>3 DEF SeenBody, Marked
<1>5. PICK n : n = (IF Latest(server, seq) > server.seen THEN Latest(server, seq) ELSE server.seen)
  OBVIOUS
<1>6. n \in Int /\ n >= server.seen
  BY <1>4, <1>5 DEF Latest
<1>7. server' = [server EXCEPT !.seen = n]
  BY <1>3, <1>5 DEF ServeMark, MarkSeen
<1>8. Marked(server') /\ server'.seen = n
  BY <1>4, <1>6, <1>7 DEF Marked
<1> QED BY <1>1, <1>2, <1>6, <1>8, SeenSettles

LEMMA SeenComesBack ==
    ASSUME SeenBody, NEW c \in Slots, MarkAnswered(c) \/ BadgeAnswered(c)
    PROVE  SeenBody' /\ UNCHANGED server
<1>1. LeftWith(c, Free) /\ UNCHANGED server
  BY DoneLeaves DEF SeenBody, MarkAnswered, BadgeAnswered, Only
<1>2. /\ CallsShape' /\ OutAs("mark")' = OutAs("mark") \ {c}
      /\ \A d \in OutAs("mark") \ {c} : calls'[d] = calls[d]
  BY <1>1, OutLeft DEF LeftWith, Free
<1>3. SeenUi(ui')
  BY DEF MarkAnswered, BadgeAnswered, Page, SeenBody, SeenUi, SeenFields
<1> QED BY <1>1, <1>2, <1>3 DEF SeenBody

LEMMA SeenKeeps ==
    ASSUME SeenBody, SeenNext \/ Fails \/ UNCHANGED vars
    PROVE  SeenBody' /\ server'.seen >= server.seen
<1>0. server.seen \in Int /\ SeenUi(ui) /\ Marked(server)
  BY DEF SeenBody, Marked
<1>1. CASE EventShown
  <2>1. PICK n : n = ui.top + 1
    OBVIOUS
  <2>2. PICK v : v = [ui EXCEPT !.top = n, !.timer = TRUE]
    OBVIOUS
  <2>3. n \in Int
    BY <1>0, <2>1 DEF SeenUi
  <2>4. SeenUi(v)
    BY <1>0, <2>2, <2>3 DEF SeenUi, SeenFields
  <2>5. ui' = Showing(v) /\ server' = server /\ UNCHANGED calls
    BY <1>1, <2>1, <2>2 DEF EventShown, Page, Only
  <2> QED BY <1>0, <2>4, <2>5, ShowingIs, SeenEdits
<1>2. CASE MarkTimer
  <2>1. PICK v : v = [ui EXCEPT !.timer = FALSE]
    OBVIOUS
  <2>2. SeenUi(v) /\ Mark(v)
    BY <1>0, <1>2, <2>1 DEF SeenUi, SeenFields, MarkTimer
  <2> QED BY <1>0, <2>2, MarkKeeps
<1>3. CASE ShowTab
  <2>1. PICK v : v = [ui EXCEPT !.visible = TRUE]
    OBVIOUS
  <2>2. PICK u : u = Showing(v)
    OBVIOUS
  <2>3. SeenUi(v)
    BY <1>0, <2>1 DEF SeenUi, SeenFields
  <2>4. SeenUi(u)
    BY <2>2, <2>3, ShowingIs
  <2>5. (ui' = u /\ server' = server /\ UNCHANGED calls) \/ Mark(u)
    BY <1>3, <2>1, <2>2 DEF ShowTab, Page, Only
  <2> QED BY <1>0, <2>4, <2>5, MarkKeeps, SeenEdits
<1>4. CASE HideTab
  <2>1. SeenUi(ui') /\ server' = server /\ UNCHANGED calls
    BY <1>0, <1>4 DEF HideTab, Page, Only, SeenUi, SeenFields
  <2> QED BY <1>0, <2>1, SeenEdits
<1>5. CASE PollBadge
  <2>1. ui' = ui /\ server' = server /\ Fetch("rows", Nothing)
    BY <1>5 DEF PollBadge, Only
  <2> QED BY <1>0, <2>1, SeenFetches
<1>6. CASE SessionGrows
  <2>1. server' = [server EXCEPT !.log = @ + 1] /\ ui' = ui /\ UNCHANGED calls
    BY <1>6 DEF SessionGrows, Elsewhere
  <2>2. Marked(server') /\ server'.seen = server.seen
    BY <1>0, <2>1 DEF Marked
  <2> QED BY <1>0, <2>1, <2>2, SeenEdits
<1>7. ASSUME NEW c \in Slots, ServeBadge(c) PROVE SeenBody' /\ server'.seen >= server.seen
  <2>1. calls[c].op # "none" /\ server' = server /\ UNCHANGED ui /\ CallsShape
    BY <1>7 DEF ServeBadge, Sent, Only, SeenBody
  <2>2. SettledAs(c, "ok", Unread(server))
    BY <1>7, <2>1, AnswerSettles DEF ServeBadge
  <2> QED BY <1>0, <2>1, <2>2, SeenSettles
<1>8. ASSUME NEW c \in Slots, Fail(c) PROVE SeenBody' /\ server'.seen >= server.seen
  <2>1. CallsShape
    BY DEF SeenBody
  <2>2. SettledAs(c, "failed", Nothing) /\ UNCHANGED ui /\ UNCHANGED server
    BY <1>8, <2>1, FailSettles
  <2> QED BY <1>0, <2>2, SeenSettles
<1>9. CASE UNCHANGED vars
  BY <1>0, <1>9, SeenEdits DEF vars
<1>10. ASSUME NEW c \in Slots, MarkAnswered(c) \/ BadgeAnswered(c)
       PROVE  SeenBody' /\ server'.seen >= server.seen
  BY <1>0, <1>10, SeenComesBack
<1>11. ASSUME NEW c \in Slots, ServeMark(c)
       PROVE  SeenBody' /\ server'.seen >= server.seen
  BY <1>11, MarkServed
<1> QED BY <1>1, <1>2, <1>3, <1>4, <1>5, <1>6, <1>7, <1>8, <1>9, <1>10, <1>11 DEF SeenNext, Fails
-----------------------------------------------------------------------------
(* The shell: every step that comes to another path closes the drawer.      *)

ShellFields == {"phase", "at", "narrow", "drawer", "menu", "leaving", "dialogs"}
ShellUi(u) == u = [f \in ShellFields |-> u[f]]
ShellInv == OnShell => ShellUi(ui)
Behind(u, v) == ShellUi(v) /\ (PathOf(v.at) # PathOf(u.at) => ~v.drawer)

LEMMA ShellStarts == ShellInit => ShellUi(ui)
BY DEF ShellInit, Opens, Loading, ShellUi, ShellFields

LEMMA LoadingIs == \A at, narrow : ShellUi(Loading(at, narrow)) /\ ~Loading(at, narrow).drawer
BY DEF Loading, ShellUi, ShellFields

LEMMA GoesBehind ==
    ASSUME NEW u, ShellUi(u), NEW place
    PROVE  Behind(u, Goes(u, place))
<1>1. PICK at, drawer : /\ at = Routed(place, server.cookie)
                        /\ drawer = (IF PathOf(at) = PathOf(u.at) THEN u.drawer ELSE FALSE)
  OBVIOUS
<1>2. PICK v : v = Goes(u, place)
  OBVIOUS
<1>3. v = [u EXCEPT !.at = at, !.drawer = drawer]
  BY <1>1, <1>2 DEF Goes
<1>4. ShellUi(v) /\ v.at = at /\ v.drawer = drawer
  BY <1>3 DEF ShellUi, ShellFields
<1> QED BY <1>1, <1>2, <1>4 DEF Behind

(* Dialogs come and go where the visitor is.                                *)
AtPlace(u, v) == ShellUi(v) /\ v.at = u.at

LEMMA DialogsStay ==
    ASSUME NEW u, ShellUi(u), NEW d
    PROVE  AtPlace(u, Opened(u, d)) /\ AtPlace(u, ClosedOne(u, d))
<1>1. AtPlace(u, Opened(u, d))
  BY DEF Opened, AtPlace, ShellUi, ShellFields
<1>2. PICK dialogs : ClosedOne(u, d) = [u EXCEPT !.dialogs = dialogs]
  BY DEF ClosedOne
<1> QED BY <1>1, <1>2 DEF AtPlace, ShellUi, ShellFields

LEMMA PlaceIsBehind == \A u, v : AtPlace(u, v) => Behind(u, v)
BY DEF AtPlace, Behind

LEMMA ShellSteps ==
    ASSUME ShellUi(ui), ShellNext \/ Fails \/ UNCHANGED vars
    PROVE  Behind(ui, ui')
<1>0. AtPlace(ui, ui)
  BY DEF AtPlace
<1>1. CASE ToggleDrawer \/ ToggleMenu \/ Escape \/ CloseTop
  <2>1. AtPlace(ui, ui')
    BY <1>1 DEF ToggleDrawer, ToggleMenu, Escape, CloseTop, Page, AtPlace, ShellUi, ShellFields
  <2> QED BY <2>1, PlaceIsBehind
<1>2. CASE Search
  <2>1. PICK u : u = [ui EXCEPT !.menu = FALSE]
    OBVIOUS
  <2>2. ShellUi(u) /\ u.at = ui.at
    BY <2>1 DEF ShellUi, ShellFields
  <2>3. ui' = Opened(u, "palette")
    BY <1>2, <2>1 DEF Search, Page
  <2>4. AtPlace(ui, ui')
    BY <2>2, <2>3, DialogsStay DEF AtPlace
  <2> QED BY <2>4, PlaceIsBehind
<1>3. CASE RunPalette
  <2>1. PICK menu : LET u == [ClosedOne(ui, "palette") EXCEPT !.menu = menu]
                    IN ui' = Opened(u, "help") \/ \E place \in Places : ui' = Goes(u, place)
    BY <1>3 DEF RunPalette, Page
  <2>2. PICK v : v = ClosedOne(ui, "palette")
    OBVIOUS
  <2>3. PICK u : u = [v EXCEPT !.menu = menu]
    OBVIOUS
  <2>4. AtPlace(ui, v)
    BY <2>2, DialogsStay
  <2>5. ShellUi(u) /\ u.at = ui.at
    BY <2>3, <2>4 DEF AtPlace, ShellUi, ShellFields
  <2>6. ui' = Opened(u, "help") \/ \E place \in Places : ui' = Goes(u, place)
    BY <2>1, <2>2, <2>3
  <2> QED BY <2>5, <2>6, DialogsStay, GoesBehind DEF AtPlace, Behind
<1>4. CASE SignOut
  <2>1. CASE ui' = [ui EXCEPT !.leaving = TRUE]
    BY <2>1, PlaceIsBehind DEF AtPlace, ShellUi, ShellFields
  <2>2. CASE ui' = ClosedOne(ui, "palette")
    BY <2>2, DialogsStay, PlaceIsBehind
  <2> QED BY <1>4, <2>1, <2>2 DEF SignOut, Page
<1>5. ASSUME NEW place, Walk(place) PROVE Behind(ui, ui')
  <2>1. PICK v : v = Goes(ui, place)
    OBVIOUS
  <2>2. ui' = [v EXCEPT !.menu = FALSE]
    BY <1>5, <2>1 DEF Walk, Page
  <2>3. Behind(ui, v)
    BY <2>1, GoesBehind
  <2>4. ShellUi(ui') /\ ui'.at = v.at /\ ui'.drawer = v.drawer
    BY <2>2, <2>3 DEF Behind, ShellUi, ShellFields
  <2> QED BY <2>3, <2>4 DEF Behind
<1>6. ASSUME NEW k \in {"K", "N", "?"}, Key(k) PROVE Behind(ui, ui')
  <2>1. ui' \in {ClosedOne(ui, "palette"), Opened(ui, "palette"), Opened(ui, "help"), Goes(ui, "new")}
    BY <1>6 DEF Key, Page
  <2> QED BY <2>1, DialogsStay, PlaceIsBehind, GoesBehind
<1>7. ASSUME NEW c \in Slots, ServeMe(c) \/ MeAnswered(c) \/ ServeLogout(c) \/ LogoutAnswered(c)
      PROVE  Behind(ui, ui')
  <2>1. CASE ServeMe(c) \/ ServeLogout(c)
    BY <1>0, <2>1, PlaceIsBehind DEF ServeMe, ServeLogout, Only
  <2>2. CASE MeAnswered(c)
    <3>1. AtPlace(ui, ui')
      BY <2>2 DEF MeAnswered, Page, AtPlace, ShellUi, ShellFields
    <3> QED BY <3>1, PlaceIsBehind
  <2>3. CASE LogoutAnswered(c)
    BY <2>3, LoadingIs DEF LogoutAnswered, Page, Behind
  <2> QED BY <1>7, <2>1, <2>2, <2>3
<1>8. CASE CookieChanges \/ Fails \/ UNCHANGED vars
  <2>1. ui' = ui
    BY <1>8 DEF CookieChanges, Elsewhere, Fails, Fail, vars
  <2> QED BY <1>0, <2>1, PlaceIsBehind
<1> QED BY <1>1, <1>2, <1>3, <1>4, <1>5, <1>6, <1>7, <1>8 DEF ShellNext
-----------------------------------------------------------------------------
(* The pages together: every step of a behaviour keeps the invariant of the *)
(* page it is on.                                                           *)

PageStepInv ==
    /\ ListInv /\ AppsInv /\ StripInv /\ BoxInv /\ AnswerInv
    /\ SideInv /\ BellInv /\ SeenInv /\ ShellInv

LEMMA ListHolds == /\ Init => ListInv
                   /\ ListInv /\ [Next]_vars => ListInv'
<1>1. Init => ListInv
  BY StartOn, ListStarts DEF ListInv
<1>2. ASSUME ListInv, [Next]_vars, OnList' PROVE ListBody'
  <2>1. OnList /\ ListBody
    BY <1>2, PagesStay DEF OnList, ListInv
  <2> QED BY <1>2, <2>1, StepOn, ListKeeps
<1> QED BY <1>1, <1>2 DEF ListInv

LEMMA AppsHold == /\ Init => AppsInv
                  /\ AppsInv /\ [Next]_vars => AppsInv'
<1>1. Init => AppsInv
  BY StartOn, AppsStarts DEF AppsInv
<1>2. ASSUME AppsInv, [Next]_vars, OnApps' PROVE AppsBody'
  <2>1. OnApps /\ AppsBody
    BY <1>2, PagesStay DEF OnApps, AppsInv
  <2> QED BY <1>2, <2>1, StepOn, AppsKeeps
<1> QED BY <1>1, <1>2 DEF AppsInv

LEMMA StripHolds == /\ Init => StripInv
                    /\ StripInv /\ [Next]_vars => StripInv'
<1>1. Init => StripInv
  BY StartOn, StripStarts DEF StripInv
<1>2. ASSUME StripInv, [Next]_vars, OnStrip' PROVE StripBody'
  <2>1. OnStrip /\ StripBody
    BY <1>2, PagesStay DEF OnStrip, StripInv
  <2> QED BY <1>2, <2>1, StepOn, StripKeeps
<1> QED BY <1>1, <1>2 DEF StripInv

LEMMA BoxHolds == /\ Init => BoxInv
                  /\ BoxInv /\ [Next]_vars => BoxInv'
<1>1. Init => BoxInv
  BY StartOn, BoxStarts DEF BoxInv
<1>2. ASSUME BoxInv, [Next]_vars, OnComposer' PROVE BoxBody'
  <2>1. OnComposer /\ BoxBody
    BY <1>2, PagesStay DEF OnComposer, BoxInv
  <2> QED BY <1>2, <2>1, StepOn, BoxKeeps
<1> QED BY <1>1, <1>2 DEF BoxInv

LEMMA SideHolds == /\ Init => SideInv
                   /\ SideInv /\ [Next]_vars => SideInv'
<1>1. Init => SideInv
  BY StartOn, SideStarts DEF SideInv
<1>2. ASSUME SideInv, [Next]_vars, OnSide' PROVE SideBody'
  <2>1. OnSide /\ SideBody
    BY <1>2, PagesStay DEF OnSide, SideInv
  <2> QED BY <1>2, <2>1, StepOn, SideKeeps
<1> QED BY <1>1, <1>2 DEF SideInv

LEMMA BellHolds == /\ Init => BellInv
                   /\ BellInv /\ [Next]_vars => BellInv'
<1>1. Init => BellInv
  BY StartOn, BellStarts DEF BellInv
<1>2. ASSUME BellInv, [Next]_vars, OnBell' PROVE BellBody'
  <2>1. OnBell /\ BellBody
    BY <1>2, PagesStay DEF OnBell, BellInv
  <2> QED BY <1>2, <2>1, StepOn, BellKeeps
<1> QED BY <1>1, <1>2 DEF BellInv

LEMMA SeenHolds == /\ Init => SeenInv
                   /\ SeenInv /\ [Next]_vars => SeenInv'
<1>1. Init => SeenInv
  BY StartOn, SeenStarts DEF SeenInv
<1>2. ASSUME SeenInv, [Next]_vars, OnSeen' PROVE SeenBody'
  <2>1. OnSeen /\ SeenBody
    BY <1>2, PagesStay DEF OnSeen, SeenInv
  <2> QED BY <1>2, <2>1, StepOn, SeenKeeps
<1> QED BY <1>1, <1>2 DEF SeenInv

LEMMA ShellHolds == /\ Init => ShellInv
                    /\ ShellInv /\ [Next]_vars => ShellInv'
<1>1. Init => ShellInv
  BY StartOn, ShellStarts DEF ShellInv
<1>2. ASSUME ShellInv, [Next]_vars, OnShell' PROVE ShellUi(ui')
  <2>1. OnShell /\ ShellUi(ui)
    BY <1>2, PagesStay DEF OnShell, ShellInv
  <2> QED BY <1>2, <2>1, StepOn, ShellSteps DEF Behind
<1> QED BY <1>1, <1>2 DEF ShellInv

LEMMA PageStepsHold == /\ Init => PageStepInv
                       /\ PageStepInv /\ [Next]_vars => PageStepInv'
BY ListHolds, AppsHold, StripHolds, BoxHolds, AnswersHold, SideHolds, BellHolds, SeenHolds, ShellHolds
   DEF PageStepInv

(* No key, blur, second click or reopened popover sends a thing twice: one  *)
(* rename of a row, one answer to a request, one removal of an item, one    *)
(* switch of the model and one copy of a message.                           *)
THEOREM OneRequestEachHolds == Spec => []OneRequestEach
<1>1. PageStepInv => OneRequestEach
  <2> SUFFICES ASSUME PageStepInv PROVE OneRequestEach
    OBVIOUS
  <2>1. OneRenamePerRow
    BY DEF PageStepInv, ListInv, ListBody, OneRenamePerRow
  <2>2. OneAnswer
    BY AnswersAreOne DEF PageStepInv
  <2>3. OneRemovalPerItem
    BY DEF PageStepInv, AppsInv, AppsBody, OneRemovalPerItem
  <2>4. OneSwitchOut
    BY StripIsOne DEF PageStepInv, StripInv, OneSwitchOut
  <2>5. SentOnce
    BY BoxIsOnce DEF PageStepInv, BoxInv, SentOnce
  <2> QED BY <2>1, <2>2, <2>3, <2>4, <2>5 DEF OneRequestEach
<1> QED BY <1>1, PageStepsHold, PTL DEF Spec

(* No answer, key or blur takes the visitor where they did not ask to go,   *)
(* saves what they escaped from or brings back what was settled: whoever    *)
(* deletes the session they look at, and nobody else, is taken off its      *)
(* page; an escaped title is not saved; an approval that was given does not *)
(* come back; a late mark makes nothing unread; the drawer stays behind.    *)
THEOREM StepsAreAlwaysAskedFor == Spec => StepsAreAskedFor
<1>1. SideInv /\ [Next]_vars =>
        [OnSide /\ ~ui.moved =>
           \A c \in Slots : Confirmed(c) =>
             (ui'.view # ui.view <=> /\ calls[c].got # Nothing /\ calls[c].arg.kind = "delete"
                                     /\ ui.view = calls[c].arg.x)]_vars
  BY SideLeaves DEF SideInv
<1>2. ListInv /\ [Next]_vars => [OnList /\ ui.field = Nothing => OutAs("title")' \subseteq OutAs("title")]_vars
  BY StepOn, ListKeeps DEF ListInv
<1>3. BellInv /\ [Next]_vars => [OnBell => ui'.items.at >= ui.items.at]_vars
  BY StepOn, BellKeeps DEF BellInv
<1>4. SeenInv /\ [Next]_vars => [OnSeen => server'.seen >= server.seen]_vars
  BY StepOn, SeenKeeps DEF SeenInv
<1>5. ShellInv /\ [Next]_vars => [OnShell /\ OnShell' /\ PathOf(ui'.at) # PathOf(ui.at) => ~ui'.drawer]_vars
  BY StepOn, ShellSteps DEF ShellInv, Behind
<1>6. Spec => LeavesTheDeleted
  BY <1>1, SideHolds, PTL DEF Spec, LeavesTheDeleted
<1>7. Spec => EscapedIsNotSaved
  BY <1>2, ListHolds, PTL DEF Spec, EscapedIsNotSaved
<1>8. Spec => BellNeverGoesBack
  BY <1>3, BellHolds, PTL DEF Spec, BellNeverGoesBack
<1>9. Spec => SeenNeverFalls
  BY <1>4, SeenHolds, PTL DEF Spec, SeenNeverFalls
<1>10. Spec => DrawerStaysBehind
  BY <1>5, ShellHolds, PTL DEF Spec, DrawerStaysBehind
<1> QED BY <1>6, <1>7, <1>8, <1>9, <1>10 DEF StepsAreAskedFor
=============================================================================
