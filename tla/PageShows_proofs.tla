-------------------------- MODULE PageShows_proofs --------------------------
(***************************************************************************)
(* Theorems about what the pages show, for any number of requests, faults  *)
(* and changes made elsewhere: that it is what the API holds once          *)
(* everything has come back, that it answers what was asked last, and that *)
(* it is where it is looked for.  Each page has an invariant of its own.   *)
(***************************************************************************)
EXTENDS PageSteps_proofs

-----------------------------------------------------------------------------
(* The pages, each with what its steps can be. *)

LEMMA TakesStep ==
    ASSUME [Next]_vars
    PROVE  /\ OnInvited => InvitedNext \/ Fails \/ UNCHANGED vars
           /\ OnBulk => BulkNext \/ Fails \/ UNCHANGED vars
           /\ OnNew => NewNext \/ Fails \/ UNCHANGED vars
           /\ OnTail => TailNext \/ Fails \/ UNCHANGED vars
           /\ OnLicences => LicencesNext \/ Fails \/ UNCHANGED vars
           /\ OnPush => PushNext \/ Fails \/ UNCHANGED vars
           /\ OnPalette => PaletteNext \/ Fails \/ UNCHANGED vars
           /\ OnTheme => ThemeNext \/ Fails \/ UNCHANGED vars
           /\ OnPopover => PopoverNext \/ Fails \/ UNCHANGED vars
           /\ OnMenu => MenuNext \/ Fails \/ UNCHANGED vars
           /\ OnLanding => LandingNext \/ Fails \/ UNCHANGED vars
BY DEF Next, Fails, ShareNext, InvitedNext, RowsNext, BulkNext, NewNext, AdminNext,
       SideNext, ListNext, FeedNext, SessNext, TranscriptNext, TailNext,
       AppsNext, LicencesNext, PushNext, PaletteNext, StripNext, BellNext,
       SeenNext, ThemeNext, ComposerNext, TypersNext, ShellNext, PopoverNext,
       MenuNext, LandingNext, OnShare, OnInvited, OnRows, OnBulk, OnNew,
       OnAdmin, OnSide, OnList, OnFeed, OnSession, OnTranscript, OnTail,
       OnApps, OnLicences, OnPush, OnPalette, OnStrip, OnBell, OnSeen,
       OnTheme, OnComposer, OnTypers, OnShell, OnPopover, OnMenu, OnLanding

LEMMA OpensOn ==
    ASSUME Init
    PROVE  /\ OnInvited => InvitedInit
           /\ OnBulk => BulkInit
           /\ OnNew => NewInit
           /\ OnTail => TailInit
           /\ OnLicences => LicencesInit
           /\ OnPush => PushInit
           /\ OnPalette => PaletteInit
           /\ OnTheme => ThemeInit
           /\ OnPopover => PopoverInit
           /\ OnMenu => MenuInit
           /\ OnLanding => LandingInit
BY DEF Init, Opens, ShareInit, InvitedInit, RowsInit, BulkInit, NewInit,
       AdminInit, SideInit, ListInit, FeedInit, SessInit, TranscriptInit,
       TailInit, AppsInit, LicencesInit, PushInit, PaletteInit, StripInit,
       BellInit, SeenInit, ThemeInit, ComposerInit, TypersInit, ShellInit,
       PopoverInit, MenuInit, LandingInit, OnInvited, OnBulk, OnNew, OnTail,
       OnLicences, OnPush, OnPalette, OnTheme, OnPopover, OnMenu, OnLanding
-----------------------------------------------------------------------------
(* The end of the transcript.  What follows it shows that it is pinned, and *)
(* between a commit, its effect and its scroll event the button is right,   *)
(* unless a jump is on its way down.                                        *)

TailFields == {"height", "top", "pinned", "ref", "effect", "event", "target"}
TailBody ==
    /\ ui = [f \in TailFields |-> ui[f]]
    /\ ui.height \in Nat /\ ui.top \in 0..Highest(ui.height)
    /\ ui.pinned \in BOOLEAN /\ ui.ref \in BOOLEAN /\ ui.effect \in BOOLEAN /\ ui.event \in BOOLEAN
    /\ ui.target # Nothing => ui.target \in 0..Highest(ui.height)
    /\ ui.ref => ui.pinned
    /\ (~ui.effect /\ ~ui.event) =>
         \/ ui.pinned <=> AtBottom(ui)
         \/ ui.target # Nothing /\ ui.pinned /\ ui.top < ui.target
TailInv == OnTail => TailBody

(* Scrolling, and what it leaves. *)
LEMMA TailScrolls ==
    ASSUME ui = [f \in TailFields |-> ui[f]], ui.height \in Nat, ui.top \in 0..Highest(ui.height),
           ui.event \in BOOLEAN, NEW top \in 0..Highest(ui.height), NEW v, v = Scrolled(ui, top)
    PROVE  /\ v = [f \in TailFields |-> v[f]] /\ v.height = ui.height /\ v.top = top
           /\ v.pinned = ui.pinned /\ v.ref = ui.ref /\ v.effect = ui.effect /\ v.target = ui.target
           /\ v.event \in BOOLEAN /\ (v.event <=> ui.event \/ top # ui.top)
BY DEF Scrolled, TailFields

LEMMA TailStarts == TailInit => TailBody
<1> SUFFICES ASSUME TailInit PROVE TailBody
  OBVIOUS
<1> USE DEF TailFields
<1>1. PICK h \in {1, 4}, live \in BOOLEAN, linked \in BOOLEAN :
        LET u == [height |-> h, top |-> 0, pinned |-> TRUE, ref |-> TRUE, effect |-> TRUE,
                  event |-> FALSE, target |-> Nothing]
            v == IF linked THEN [Scrolled(u, Highest(h) \div 2) EXCEPT !.ref = FALSE]
                 ELSE IF live THEN ToBottom(u)
                 ELSE [u EXCEPT !.ref = FALSE]
        IN Opens("tail", [v EXCEPT !.pinned = v.ref \/ AtBottom(v)], live, Free)
  BY DEF TailInit
<1>2. PICK u : u = [height |-> h, top |-> 0, pinned |-> TRUE, ref |-> TRUE, effect |-> TRUE,
                    event |-> FALSE, target |-> Nothing]
  OBVIOUS
<1>3. PICK v : v = (IF linked THEN [Scrolled(u, Highest(h) \div 2) EXCEPT !.ref = FALSE]
                    ELSE IF live THEN ToBottom(u)
                    ELSE [u EXCEPT !.ref = FALSE])
  OBVIOUS
<1>4. ui = [v EXCEPT !.pinned = v.ref \/ AtBottom(v)]
  BY <1>1, <1>2, <1>3 DEF Opens
<1>5. Highest(h) \in Nat /\ Highest(h) \div 2 \in 0..Highest(h)
  BY DEF Highest, VIEW
<1>6. /\ v = [f \in TailFields |-> v[f]] /\ v.height = h /\ v.top \in 0..Highest(h) /\ v.effect = TRUE
      /\ v.ref \in BOOLEAN /\ v.event \in BOOLEAN /\ v.target = Nothing
  <2>1. CASE linked
    <3>1. PICK top : top = Highest(h) \div 2
      OBVIOUS
    <3>2. v = [Scrolled(u, top) EXCEPT !.ref = FALSE]
      BY <1>3, <2>1, <3>1
    <3>3. v = [height |-> h, top |-> top, pinned |-> TRUE, ref |-> FALSE, effect |-> TRUE,
               event |-> FALSE \/ top # 0, target |-> Nothing]
      BY <1>2, <3>2 DEF Scrolled
    <3> QED BY <1>5, <3>1, <3>3
  <2>2. CASE ~linked /\ live
    <3>1. PICK top : top = Highest(h)
      OBVIOUS
    <3>2. v = Scrolled(u, top)
      BY <1>2, <1>3, <2>2, <3>1 DEF ToBottom
    <3>3. v = [height |-> h, top |-> top, pinned |-> TRUE, ref |-> TRUE, effect |-> TRUE,
               event |-> FALSE \/ top # 0, target |-> Nothing]
      BY <1>2, <3>2 DEF Scrolled
    <3> QED BY <1>5, <3>1, <3>3
  <2>3. CASE ~linked /\ ~live
    <3>1. v = [u EXCEPT !.ref = FALSE] /\ 0 \in 0..Highest(h)
      BY <1>3, <1>5, <2>3
    <3> QED BY <1>2, <3>1
  <2> QED BY <2>1, <2>2, <2>3
<1>7. /\ ui = [f \in TailFields |-> ui[f]] /\ ui.height = h /\ ui.top \in 0..Highest(h) /\ ui.effect = TRUE
      /\ ui.ref = v.ref /\ ui.event \in BOOLEAN /\ ui.target = Nothing /\ ui.pinned = (v.ref \/ AtBottom(v))
  BY <1>4, <1>6
<1>8. ui.pinned \in BOOLEAN /\ ui.ref \in BOOLEAN /\ (ui.ref => ui.pinned)
  BY <1>6, <1>7
<1>9. ui.height \in Nat /\ ui.top \in 0..Highest(ui.height)
  BY <1>7
<1> HIDE DEF TailFields
<1> QED BY <1>7, <1>8, <1>9 DEF TailBody

(* A step that leaves the gap below, or has an effect or an event to come.  *)
LEMMA TailLeaves ==
    ASSUME ui' = [f \in TailFields |-> ui'[f]], ui'.height \in Nat, ui'.top \in 0..Highest(ui'.height),
           NEW pinned \in BOOLEAN, NEW ref \in BOOLEAN, NEW effect \in BOOLEAN, NEW event \in BOOLEAN,
           ui'.pinned = pinned, ui'.ref = ref, ui'.effect = effect, ui'.event = event,
           ref => pinned, ui'.target # Nothing => ui'.target \in 0..Highest(ui'.height),
           \/ effect \/ event \/ (pinned <=> ui'.height - ui'.top - 2 < 2)
           \/ ui'.target # Nothing /\ pinned /\ ui'.top < ui'.target
    PROVE  TailBody'
BY DEF TailBody, AtBottom, VIEW

LEMMA TailKeeps ==
    ASSUME TailBody, TailNext \/ Fails \/ UNCHANGED vars
    PROVE  TailBody'
<1> USE DEF TailFields, Page
<1>1. ASSUME NEW d \in {1, 2}, Grows(d) PROVE TailBody'
  <2>1. ui' = [[ui EXCEPT !.height = @ + d] EXCEPT !.effect = TRUE]
    BY <1>1 DEF Grows
  <2>2. /\ ui' = [f \in TailFields |-> ui'[f]] /\ ui'.height = ui.height + d /\ ui'.top = ui.top
        /\ ui'.pinned = ui.pinned /\ ui'.ref = ui.ref /\ ui'.effect = TRUE /\ ui'.event = ui.event
        /\ ui'.target = ui.target
    BY <2>1 DEF TailBody
  <2>3. /\ ui'.height \in Nat /\ ui'.top \in 0..Highest(ui'.height)
        /\ ui'.target # Nothing => ui'.target \in 0..Highest(ui'.height)
    BY <2>2 DEF TailBody, Highest, VIEW
  <2> QED BY <2>2, <2>3 DEF TailBody
<1>2. CASE FollowEffect
  <2>1. CASE ui.ref
    <3>1. PICK v : v = Scrolled(ui, Highest(ui.height))
      OBVIOUS
    <3>2. Highest(ui.height) \in 0..Highest(ui.height)
      BY DEF TailBody, Highest, VIEW
    <3>3. /\ v = [f \in TailFields |-> v[f]] /\ v.height = ui.height /\ v.top = Highest(ui.height)
          /\ v.pinned = ui.pinned /\ v.ref = ui.ref /\ v.target = ui.target /\ v.event \in BOOLEAN
      BY <3>1, <3>2, TailScrolls DEF TailBody
    <3>4. ui' = [v EXCEPT !.effect = FALSE]
      BY <1>2, <2>1, <3>1 DEF FollowEffect, ToBottom
    <3>5. /\ ui' = [f \in TailFields |-> ui'[f]] /\ ui'.height = ui.height /\ ui'.top = Highest(ui.height)
          /\ ui'.pinned = TRUE /\ ui'.ref = TRUE /\ ui'.effect = FALSE /\ ui'.event = v.event
          /\ ui'.target = ui.target
      BY <2>1, <3>3, <3>4 DEF TailBody
    <3>6. ui'.height - ui'.top - 2 < 2
      BY <3>5 DEF TailBody, Highest, VIEW
    <3> QED BY <3>2, <3>3, <3>5, <3>6, TailLeaves DEF TailBody
  <2>2. CASE ~ui.ref
    <3>0. AtBottom(ui) \in BOOLEAN
      BY DEF AtBottom
    <3>1. PICK at : at = AtBottom(ui) /\ at \in BOOLEAN
      BY <3>0
    <3>2. ui' = [[ui EXCEPT !.pinned = at] EXCEPT !.effect = FALSE]
      BY <1>2, <2>2, <3>1 DEF FollowEffect
    <3>3. /\ ui' = [f \in TailFields |-> ui'[f]] /\ ui'.height = ui.height /\ ui'.top = ui.top
          /\ ui'.pinned = at /\ ui'.ref = FALSE /\ ui'.effect = FALSE /\ ui'.event = ui.event
          /\ ui'.target = ui.target
      BY <2>2, <3>2 DEF TailBody
    <3>4. (at <=> ui'.height - ui'.top - 2 < 2)
      BY <3>1, <3>3 DEF AtBottom, VIEW
    <3> QED BY <3>1, <3>3, <3>4, TailLeaves DEF TailBody
  <2> QED BY <2>1, <2>2
<1>3. CASE OnScroll
  <2>0. AtBottom(ui) \in BOOLEAN
    BY DEF AtBottom
  <2>1. PICK at : at = AtBottom(ui) /\ at \in BOOLEAN
    BY <2>0
  <2>2. ui' = [[[ui EXCEPT !.event = FALSE] EXCEPT !.ref = at] EXCEPT !.pinned = at]
    BY <1>3, <2>1 DEF OnScroll
  <2>3. /\ ui' = [f \in TailFields |-> ui'[f]] /\ ui'.height = ui.height /\ ui'.top = ui.top
        /\ ui'.pinned = at /\ ui'.ref = at /\ ui'.effect = ui.effect /\ ui'.event = FALSE
        /\ ui'.target = ui.target
    BY <2>2 DEF TailBody
  <2>4. (at <=> ui'.height - ui'.top - 2 < 2)
    BY <2>1, <2>3 DEF AtBottom, VIEW
  <2> QED BY <2>1, <2>3, <2>4, TailLeaves DEF TailBody
<1>4. CASE Jump
  <2>1. PICK end : end = Highest(ui.height)
    OBVIOUS
  <2>2. ui' = [ui EXCEPT !.ref = TRUE, !.pinned = TRUE, !.target = end]
    BY <1>4, <2>1 DEF Jump
  <2>3. /\ ui' = [f \in TailFields |-> ui'[f]] /\ ui'.height = ui.height /\ ui'.top = ui.top
        /\ ui'.pinned = TRUE /\ ui'.ref = TRUE /\ ui'.effect = ui.effect /\ ui'.event = ui.event
        /\ ui'.target = end
    BY <2>2 DEF TailBody
  <2>4. end \in 0..Highest(ui'.height) /\ end \in Nat /\ (ui'.height - ui'.top - 2 < 2 \/ ui'.top < end)
    BY <2>1, <2>3 DEF TailBody, Highest, VIEW
  <2>5. end # Nothing
    BY <2>4, ComposerAssumption
  <2> QED BY <2>3, <2>4, <2>5, TailLeaves DEF TailBody
<1>5. CASE Glide
  <2>1. CASE ui.top >= ui.target
    <3>1. ui' = [ui EXCEPT !.target = Nothing] /\ ui.target \in Nat
      BY <1>5, <2>1 DEF Glide, TailBody, Highest, VIEW
    <3>2. /\ ui' = [f \in TailFields |-> ui'[f]] /\ ui'.height = ui.height /\ ui'.top = ui.top
          /\ ui'.pinned = ui.pinned /\ ui'.ref = ui.ref /\ ui'.effect = ui.effect /\ ui'.event = ui.event
          /\ ui'.target = Nothing
      BY <3>1 DEF TailBody
    <3>3. ui.effect \/ ui.event \/ (ui.pinned <=> ui'.height - ui'.top - 2 < 2)
      BY <2>1, <3>1, <3>2 DEF TailBody, AtBottom, VIEW
    <3> QED BY <3>2, <3>3, TailLeaves DEF TailBody
  <2>2. CASE ~(ui.top >= ui.target)
    <3>1. PICK top : top = ui.top + 1
      OBVIOUS
    <3>2. ui' = Scrolled(ui, top)
      BY <1>5, <2>2, <3>1 DEF Glide
    <3>3. ui.target # Nothing /\ top \in 0..Highest(ui.height) /\ top # ui.top
      BY <1>5, <2>2, <3>1 DEF Glide, TailBody, Highest, VIEW
    <3>4. /\ ui' = [f \in TailFields |-> ui'[f]] /\ ui'.height = ui.height /\ ui'.top = top
          /\ ui'.pinned = ui.pinned /\ ui'.ref = ui.ref /\ ui'.effect = ui.effect /\ ui'.event = TRUE
          /\ ui'.target = ui.target
      BY <3>2, <3>3, TailScrolls DEF TailBody
    <3> QED BY <3>3, <3>4, TailLeaves DEF TailBody
  <2> QED BY <2>1, <2>2
<1>6. ASSUME NEW top \in 0..MaxHeight, ReaderScrolls(top) PROVE TailBody'
  <2>1. PICK v : v = Scrolled(ui, top)
    OBVIOUS
  <2>2. ui' = [v EXCEPT !.target = Nothing] /\ top \in 0..Highest(ui.height) /\ top # ui.top
    BY <1>6, <2>1 DEF ReaderScrolls
  <2>3. /\ v = [f \in TailFields |-> v[f]] /\ v.height = ui.height /\ v.top = top
        /\ v.pinned = ui.pinned /\ v.ref = ui.ref /\ v.effect = ui.effect /\ v.event = TRUE
    BY <2>1, <2>2, TailScrolls DEF TailBody
  <2> QED BY <2>2, <2>3 DEF TailBody
<1>7. CASE Fails \/ UNCHANGED vars
  BY <1>7 DEF Fails, Fail, vars, TailBody, AtBottom
<1> QED BY <1>1, <1>2, <1>3, <1>4, <1>5, <1>6, <1>7 DEF TailNext

LEMMA TailHolds ==
    /\ Init => TailInv
    /\ TailInv /\ [Next]_vars => TailInv'
    /\ TailInv => PillMeansMore /\ FollowIsKept
<1>1. Init => TailInv
  BY OpensOn, TailStarts DEF TailInv
<1>2. TailInv /\ [Next]_vars => TailInv'
  BY TakesStep, TailKeeps, PagesStay DEF TailInv, OnTail
<1>3. TailInv => PillMeansMore /\ FollowIsKept
  <2> SUFFICES ASSUME TailInv, OnTail, Still PROVE (ui.pinned <=> AtBottom(ui)) /\ (ui.ref => AtBottom(ui))
    BY DEF PillMeansMore, FollowIsKept
  <2>1. /\ ui.pinned \in BOOLEAN /\ ui.effect \in BOOLEAN /\ ui.event \in BOOLEAN
        /\ ~ui.effect /\ ~ui.event /\ ui.target = Nothing /\ (ui.ref => ui.pinned)
    BY DEF TailInv, TailBody, Still
  <2> QED BY <2>1 DEF TailInv, TailBody
<1> QED BY <1>1, <1>2, <1>3
-----------------------------------------------------------------------------
(* A popover is where it was placed last, by what it measured then; its     *)
(* focus is at its anchor, in it or elsewhere.                              *)

PopoverFields == {"open", "screen", "anchor", "h", "at", "measured", "focus"}
PopoverBody ==
    /\ ui = [f \in PopoverFields |-> ui[f]]
    /\ ui.screen \in Screens /\ ui.anchor \in Anchors(ui.screen) /\ ui.h \in Heights(ui.screen)
    /\ ui.open \in BOOLEAN /\ ui.measured \in BOOLEAN
    /\ ui.focus \in {"anchor", "inside", "elsewhere"}
    /\ ui.at = Nothing <=> ~ui.open
    /\ ui.measured => ui.open /\ ui.at = Place(ui.anchor, ui.h, ui.screen)
PopoverInv == OnPopover => PopoverBody

LEMMA PopoverStarts == PopoverInit => PopoverBody
<1> SUFFICES ASSUME PopoverInit PROVE PopoverBody
  OBVIOUS
<1>0. PICK screen \in Screens : \E a \in Anchors(screen) :
        ui = [open |-> FALSE, screen |-> screen, anchor |-> a, h |-> 1, at |-> Nothing,
              measured |-> FALSE, focus |-> "anchor"]
  BY DEF PopoverInit, Opens
<1>1. PICK a \in Anchors(screen) :
        ui = [open |-> FALSE, screen |-> screen, anchor |-> a, h |-> 1, at |-> Nothing,
              measured |-> FALSE, focus |-> "anchor"]
  BY <1>0
<1>2. 1 \in Heights(screen)
  BY DEF Heights, Screens, MARGIN
<1> QED BY <1>1, <1>2 DEF PopoverBody, PopoverFields

(* Where it is put, and that this is in view. *)
LEMMA PlaceIsThere ==
    ASSUME NEW screen \in Screens, NEW a \in Anchors(screen), NEW h \in Heights(screen) \cup {0}
    PROVE  /\ Place(a, h, screen) # Nothing
           /\ (InView(a, screen) /\ h # 0) =>
                /\ Place(a, h, screen).top >= 0 /\ Place(a, h, screen).top + h <= screen.h
                /\ Place(a, h, screen).left >= 0 /\ Place(a, h, screen).left + WIDTH <= screen.w
<1>1. screen.h \in {8, 12} /\ screen.w \in {9, 12} /\ h \in 0..(screen.h - 4)
  BY DEF Screens, Heights, MARGIN
<1>2. a.bottom \in 0..(screen.h + 1) /\ a.right \in {1, screen.w}
  BY DEF Anchors
<1>3. Left(a, screen) \in 0..(screen.w - WIDTH)
  BY <1>1, <1>2 DEF Left, Larger, Smaller, WIDTH, MARGIN
<1>4. Top(a, h, screen) \in Int
  BY <1>1, <1>2 DEF Top, Larger, Smaller, MARGIN, GAP
<1>5. ASSUME InView(a, screen), h # 0 PROVE Top(a, h, screen) >= 0 /\ Top(a, h, screen) + h <= screen.h
  <2>1. a.bottom \in 1..screen.h /\ h >= 1
    BY <1>1, <1>5 DEF InView
  <2> QED BY <1>1, <2>1 DEF Top, Larger, Smaller, MARGIN, GAP
<1>6. Place(a, h, screen) = [left |-> Left(a, screen), top |-> Top(a, h, screen)]
  BY DEF Place
<1>7. screen.w - WIDTH \in Int
  BY <1>1 DEF WIDTH
<1>8. Left(a, screen) >= 0 /\ Left(a, screen) + WIDTH <= screen.w
  BY <1>1, <1>3 DEF WIDTH
<1> QED BY <1>3, <1>4, <1>5, <1>6, <1>7, <1>8, PopoverAssumption

LEMMA PopoverKeeps ==
    ASSUME PopoverBody, PopoverNext \/ Fails \/ UNCHANGED vars
    PROVE  PopoverBody'
<1> USE DEF PopoverFields, Page
<1>1. CASE OpenPopover
  <2>1. PICK h \in Heights(ui.screen) :
          ui' = [ui EXCEPT !.open = TRUE, !.h = h, !.at = Place(ui.anchor, 0, ui.screen),
                           !.measured = FALSE, !.focus = "inside"]
    BY <1>1 DEF OpenPopover
  <2>2. PICK at : at = Place(ui.anchor, 0, ui.screen)
    OBVIOUS
  <2>3. at # Nothing
    BY <2>2, PlaceIsThere DEF PopoverBody
  <2> QED BY <2>1, <2>2, <2>3 DEF PopoverBody
<1>2. CASE Refills
  <2>1. PICK h \in Heights(ui.screen) : ui' = [ui EXCEPT !.h = h, !.measured = FALSE]
    BY <1>2 DEF Refills
  <2> QED BY <2>1 DEF PopoverBody
<1>3. CASE Scrolls
  <2>1. PICK a \in Anchors(ui.screen) :
          ui' = (IF ui.open THEN [ui EXCEPT !.anchor = a, !.at = Place(a, ui.h, ui.screen), !.measured = TRUE]
                 ELSE [ui EXCEPT !.anchor = a])
    BY <1>3 DEF Scrolls
  <2>2. PICK at : at = Place(a, ui.h, ui.screen)
    OBVIOUS
  <2>3. at # Nothing
    BY <2>2, PlaceIsThere DEF PopoverBody
  <2>4. CASE ui.open
    <3>1. ui' = [ui EXCEPT !.anchor = a, !.at = at, !.measured = TRUE]
      BY <2>1, <2>2, <2>4
    <3>2. /\ ui' = [f \in PopoverFields |-> ui'[f]] /\ ui'.anchor = a /\ ui'.at = at /\ ui'.measured = TRUE
          /\ ui'.open = ui.open /\ ui'.h = ui.h /\ ui'.screen = ui.screen /\ ui'.focus = ui.focus
      BY <3>1 DEF PopoverBody
    <3> QED BY <2>2, <2>3, <2>4, <3>2 DEF PopoverBody
  <2>5. CASE ~ui.open
    BY <2>1, <2>5 DEF PopoverBody
  <2> QED BY <2>4, <2>5
<1>4. ASSUME NEW focus \in {"anchor", "inside", "elsewhere"}, ui' = Closed(focus) PROVE PopoverBody'
  <2>1. PICK to : to = IF focus \in {"inside", "nobody"} THEN "anchor" ELSE focus
    OBVIOUS
  <2>2. ui' = [ui EXCEPT !.open = FALSE, !.at = Nothing, !.measured = FALSE, !.focus = to]
    BY <1>4, <2>1 DEF Closed
  <2> QED BY <2>1, <2>2 DEF PopoverBody
<1>5. CASE EscapePopover \/ PressOutside \/ PressAnchor
  <2>1. \E focus \in {"anchor", "inside", "elsewhere"} : ui' = Closed(focus)
    BY <1>5 DEF EscapePopover, PressOutside, PressAnchor, PopoverBody
  <2> QED BY <1>4, <2>1
<1>6. CASE TabOut
  <2>1. CASE ui' = Closed("elsewhere")
    BY <1>4, <2>1
  <2>2. CASE ui' = [ui EXCEPT !.focus = "anchor"]
    BY <2>2 DEF PopoverBody
  <2> QED BY <1>6, <2>1, <2>2 DEF TabOut
<1>7. CASE Fails \/ UNCHANGED vars
  BY <1>7 DEF Fails, Fail, vars, PopoverBody
<1> QED BY <1>1, <1>2, <1>3, <1>5, <1>6, <1>7 DEF PopoverNext

LEMMA PopoverHolds ==
    /\ Init => PopoverInv
    /\ PopoverInv /\ [Next]_vars => PopoverInv'
    /\ PopoverInv => PopoverStaysInView /\ FocusIsHandedBack
<1>1. Init => PopoverInv
  BY OpensOn, PopoverStarts DEF PopoverInv
<1>2. PopoverInv /\ [Next]_vars => PopoverInv'
  BY TakesStep, PopoverKeeps, PagesStay DEF PopoverInv, OnPopover
<1>3. PopoverInv => PopoverStaysInView /\ FocusIsHandedBack
  <2> SUFFICES ASSUME PopoverInv, OnPopover PROVE PopoverStaysInView /\ FocusIsHandedBack
    BY DEF PopoverStaysInView, FocusIsHandedBack
  <2>1. ui.h # 0
    BY DEF PopoverInv, PopoverBody, Heights
  <2> QED BY <2>1, PlaceIsThere DEF PopoverInv, PopoverBody, PopoverStaysInView, FocusIsHandedBack
<1> QED BY <1>1, <1>2, <1>3
-----------------------------------------------------------------------------
(* The menu: open, with its items, the focus is on one of them.             *)

MenuFields == {"open", "items", "focus", "gone", "ran"}
MenuBody ==
    /\ ui = [f \in MenuFields |-> ui[f]]
    /\ ui.items \in 2..3 /\ ui.open \in BOOLEAN /\ ui.gone \in BOOLEAN
    /\ ui.focus \in Int
    /\ ui.open /\ ~ui.gone => ui.focus \in MenuItems
MenuInv == OnMenu => MenuBody

LEMMA MenuStarts == MenuInit => MenuBody
BY DEF MenuInit, Opens, MenuBody, MenuFields, AtTrigger

(* Round and round, the focus goes to an item. *)
LEMMA GoesRound ==
    ASSUME ui.items \in 2..3, NEW n \in (-1)..3
    PROVE  Go(n) \in MenuItems
<1>1. (n + ui.items) % ui.items \in 0..(ui.items - 1)
  OBVIOUS
<1> QED BY <1>1 DEF Go, MenuItems

LEMMA MenuKeeps ==
    ASSUME MenuBody, MenuNext \/ Fails \/ UNCHANGED vars
    PROVE  MenuBody'
<1> USE DEF MenuFields, Page, MenuItems, AtTrigger, AtNothing, AtOther
<1>1. CASE OpenMenu
  <2>1. ui' = [ui EXCEPT !.open = TRUE, !.focus = 1, !.gone = FALSE, !.ran = Nothing]
    BY <1>1 DEF OpenMenu
  <2>2. /\ ui' = [f \in MenuFields |-> ui'[f]] /\ ui'.items = ui.items /\ ui'.focus = 1
        /\ ui'.open = TRUE /\ ui'.gone = FALSE
    BY <2>1 DEF MenuBody
  <2>3. ui'.items \in 2..3 /\ ui'.focus \in 1..ui'.items /\ ui'.focus \in Int
    BY <2>2 DEF MenuBody
  <2> HIDE DEF MenuFields
  <2> QED BY <2>2, <2>3 DEF MenuBody
<1>2. ASSUME NEW focus \in Int, ui' = [Leaves(ui) EXCEPT !.focus = focus] PROVE MenuBody'
  BY <1>2 DEF Leaves, MenuBody
<1>3. ASSUME NEW focus \in MenuItems, ui' = [ui EXCEPT !.focus = focus] PROVE MenuBody'
  BY <1>3 DEF MenuBody
<1>4. ASSUME NEW k \in {"ArrowDown", "ArrowUp", "Home", "End", "Escape", "Tab"}, MenuKey(k) PROVE MenuBody'
  <2>1. ui.focus \in 1..ui.items /\ ui.items \in 2..3
    BY <1>4 DEF MenuKey, MenuBody
  <2>2. /\ Go(ui.focus - 1 + 1) \in MenuItems /\ Go(ui.focus - 1 - 1) \in MenuItems
        /\ Go(0) \in MenuItems /\ Go(ui.items - 1) \in MenuItems
    BY <2>1, GoesRound
  <2>3. \/ \E focus \in MenuItems : ui' = [ui EXCEPT !.focus = focus]
        \/ \E focus \in Int : ui' = [Leaves(ui) EXCEPT !.focus = focus]
    <3> DEFINE i == ui.focus - 1
    <3>1. \/ ui' = [ui EXCEPT !.focus = Go(i + 1)] \/ ui' = [ui EXCEPT !.focus = Go(i - 1)]
          \/ ui' = [ui EXCEPT !.focus = Go(0)] \/ ui' = [ui EXCEPT !.focus = Go(ui.items - 1)]
          \/ ui' = [Leaves(ui) EXCEPT !.focus = AtTrigger] \/ ui' = [Leaves(ui) EXCEPT !.focus = AtOther]
      <4> HIDE DEF AtTrigger, AtOther
      <4> QED BY <1>4 DEF MenuKey
    <3>2. AtTrigger \in Int /\ AtOther \in Int
      OBVIOUS
    <3> HIDE DEF MenuItems, AtTrigger, AtOther
    <3> QED BY <2>2, <3>1, <3>2
  <2> QED BY <1>2, <1>3, <2>3
<1>5. CASE PressOutsideMenu
  BY <1>2, <1>5 DEF PressOutsideMenu
<1>6. ASSUME NEW i \in 1..3, SelectItem(i) PROVE MenuBody'
  <2>1. PICK left : left = Leaves(ui)
    OBVIOUS
  <2>2. ui' = [left EXCEPT !.focus = 0, !.ran = i]
    BY <1>6, <2>1 DEF SelectItem
  <2>3. left = [f \in MenuFields |-> left[f]] /\ left.items = ui.items /\ left.open = FALSE /\ left.gone = ui.gone
    BY <2>1 DEF Leaves, MenuBody
  <2>4. ui' = [f \in MenuFields |-> ui'[f]]
    BY <2>2, <2>3
  <2>5. ui'.items = ui.items /\ ui'.focus = 0 /\ ui'.gone = ui.gone
    BY <2>2, <2>3
  <2>6. ui'.open = FALSE
    BY <2>2, <2>3
  <2>7. ui'.items \in 2..3 /\ ui'.gone \in BOOLEAN /\ ui'.focus \in Int
    BY <2>5 DEF MenuBody
  <2> QED BY <2>4, <2>6, <2>7 DEF MenuBody
<1>7. CASE ItemGoes
  <2>1. PICK gone, focus :
          /\ gone = (ui.gone \/ (ui.open /\ ui.focus = 2))
          /\ focus = IF ~ui.open \/ ui.focus \notin 2..3 THEN ui.focus
                     ELSE IF ui.focus = 2 THEN AtNothing ELSE 2
    OBVIOUS
  <2>2. ui' = [ui EXCEPT !.items = 2, !.gone = gone, !.focus = focus]
    BY <1>7, <2>1 DEF ItemGoes, MenuBody
  <2>3. /\ ui' = [f \in MenuFields |-> ui'[f]] /\ ui'.items = 2 /\ ui'.gone = gone /\ ui'.focus = focus
        /\ ui'.open = ui.open
    BY <2>2 DEF MenuBody
  <2>4. gone \in BOOLEAN /\ focus \in Int /\ (ui.open /\ ~gone => focus \in 1..2)
    BY <1>7, <2>1 DEF MenuBody, ItemGoes
  <2> QED BY <2>3, <2>4 DEF MenuBody
<1>8. CASE Fails \/ UNCHANGED vars
  BY <1>8 DEF Fails, Fail, vars, MenuBody
<1> QED BY <1>1, <1>4, <1>5, <1>6, <1>7, <1>8 DEF MenuNext

LEMMA MenuHolds ==
    /\ Init => MenuInv
    /\ MenuInv /\ [Next]_vars => MenuInv'
    /\ MenuInv => KeysStayInTheMenu
<1>1. Init => MenuInv
  BY OpensOn, MenuStarts DEF MenuInv
<1>2. MenuInv /\ [Next]_vars => MenuInv'
  BY TakesStep, MenuKeeps, PagesStay DEF MenuInv, OnMenu
<1>3. MenuInv => KeysStayInTheMenu
  BY DEF MenuInv, MenuBody, KeysStayInTheMenu
<1> QED BY <1>1, <1>2, <1>3

(* What is on the screen stays where it is looked for: the end of the       *)
(* transcript, the popover, the focus.                                      *)
THEOREM ScreenAlwaysKeepsUp == Spec => []ScreenKeepsUp
<1> DEFINE Inv == TailInv /\ PopoverInv /\ MenuInv
<1>1. Init => Inv
  BY TailHolds, PopoverHolds, MenuHolds
<1>2. Inv /\ [Next]_vars => Inv'
  BY TailHolds, PopoverHolds, MenuHolds
<1>3. Inv => ScreenKeepsUp
  BY TailHolds, PopoverHolds, MenuHolds DEF ScreenKeepsUp
<1> QED BY <1>1, <1>2, <1>3, PTL DEF Spec
-----------------------------------------------------------------------------
(* The theme.  Once mounted, the palette is the mode's on this system, and  *)
(* the page listens to the system for "system" only; a choice that is       *)
(* queued is the stored one.                                                *)

ThemeFields == {"mode", "applied", "resolved", "listens", "queued"}
ThemeUi(u) ==
    /\ u = [f \in ThemeFields |-> u[f]]
    /\ u.mode \in Modes /\ u.applied \in Palettes /\ u.resolved \in Palettes
    /\ u.listens \in BOOLEAN /\ u.queued \in Modes \cup {"mount", Nothing}
Stored(s) == s = [saved |-> s.saved, os |-> s.os] /\ s.saved \in Modes \cup {Nothing} /\ s.os \in Palettes
ThemeFits(u, s) ==
    /\ u.queued = "mount" => ~u.listens
    /\ u.queued # "mount" =>
         /\ u.applied = Resolve(u.mode, s.os) /\ u.resolved = u.applied
         /\ u.listens <=> u.mode = "system"
    /\ u.queued \in Modes => u.queued = Saved(s)
ThemeBody ==
    /\ ThemeUi(ui) /\ Stored(server) /\ ThemeFits(ui, server) /\ faults \in Nat
    /\ faults = 0 /\ ui.queued = Nothing => ui.mode = Saved(server)
ThemeInv == OnTheme => ThemeBody

LEMMA Resolved == \A mode \in Modes, os \in Palettes : Resolve(mode, os) \in Palettes
BY DEF Resolve

LEMMA SavedIsMode == \A s : Stored(s) => Saved(s) \in Modes
BY DEF Saved, Stored, Modes

(* A page that loads, and the effect of a mode. *)
LEMMA ThemeLoads ==
    ASSUME NEW s, Stored(s), NEW u, u = Loads(s)
    PROVE  ThemeUi(u) /\ ThemeFits(u, s) /\ u.queued = "mount"
<1>1. PICK at : at = Resolve(Saved(s), s.os) /\ at \in Palettes
  BY SavedIsMode, Resolved DEF Stored
<1>2. u = [mode |-> "system", applied |-> at, resolved |-> "dark", listens |-> FALSE, queued |-> "mount"]
  BY <1>1 DEF Loads
<1>3. ThemeUi(u)
  BY <1>1, <1>2 DEF ThemeUi, ThemeFields, Modes, Palettes
<1> QED BY <1>2, <1>3 DEF ThemeFits, Modes, Palettes

LEMMA ThemeTakes ==
    ASSUME ThemeUi(ui), Stored(server), NEW mode \in Modes, NEW u, u = Takes(ui, mode)
    PROVE  /\ ThemeUi(u) /\ u.mode = mode /\ u.applied = Resolve(mode, server.os) /\ u.resolved = u.applied
           /\ u.queued = Nothing /\ (u.listens <=> u.mode = "system")
<1>1. PICK at, on : at = Resolve(mode, server.os) /\ at \in Palettes /\ on = (mode = "system") /\ on \in BOOLEAN
  BY Resolved DEF Stored
<1>2. u = [ui EXCEPT !.mode = mode, !.applied = at, !.resolved = at, !.listens = on, !.queued = Nothing]
  BY <1>1 DEF Takes
<1>3. /\ u = [f \in ThemeFields |-> u[f]] /\ u.mode = mode /\ u.applied = at /\ u.resolved = at
      /\ u.listens = on /\ u.queued = Nothing
  BY <1>2 DEF ThemeUi, ThemeFields
<1> QED BY <1>1, <1>3 DEF ThemeUi

LEMMA ThemeStarts == ThemeInit => ThemeBody
<1> SUFFICES ASSUME ThemeInit PROVE ThemeBody
  OBVIOUS
<1>1. PICK s : Stored(s) /\ ui = Loads(s) /\ server = s /\ faults = 0
  BY DEF ThemeInit, Opens, Stored
<1> QED BY <1>1, ThemeLoads, ThemeAssumption DEF ThemeBody

LEMMA ThemeKeeps ==
    ASSUME ThemeBody, ThemeNext \/ Fails \/ UNCHANGED vars
    PROVE  ThemeBody'
<1>1. CASE Mounts
  <2>1. PICK u : u = Takes(ui, "system")
    OBVIOUS
  <2>2. ui' = [u EXCEPT !.queued = Saved(server)] /\ server' = server /\ faults' = faults
    BY <1>1, <2>1 DEF Mounts, Page, Only
  <2>3. /\ ThemeUi(u) /\ u.mode = "system" /\ u.applied = Resolve("system", server.os) /\ u.resolved = u.applied
        /\ (u.listens <=> u.mode = "system")
    BY <2>1, ThemeTakes DEF ThemeBody, Modes
  <2>4. Saved(server) \in Modes /\ "mount" \notin Modes
    BY SavedIsMode DEF ThemeBody, Modes, Palettes
  <2>5. /\ ui' = [f \in ThemeFields |-> ui'[f]] /\ ui'.mode = u.mode /\ ui'.applied = u.applied
        /\ ui'.resolved = u.resolved /\ ui'.listens = u.listens /\ ui'.queued = Saved(server)
    BY <2>2, <2>3 DEF ThemeUi, ThemeFields
  <2>6. ThemeUi(ui')
    BY <2>3, <2>4, <2>5 DEF ThemeUi
  <2>7. ThemeFits(ui', server)
    BY <2>3, <2>4, <2>5 DEF ThemeFits
  <2> QED BY <2>2, <2>4, <2>5, <2>6, <2>7, ThemeAssumption DEF ThemeBody
<1>2. ASSUME NEW mode \in Modes, ui' = Takes(ui, mode), Stored(server'), server'.os = server.os, faults' \in Nat,
             faults' = 0 => mode = Saved(server')
      PROVE  ThemeBody'
  <2>1. /\ ThemeUi(ui') /\ ui'.mode = mode /\ ui'.applied = Resolve(mode, server'.os) /\ ui'.resolved = ui'.applied
        /\ ui'.queued = Nothing /\ (ui'.listens <=> ui'.mode = "system")
    BY <1>2, ThemeTakes DEF ThemeBody
  <2>2. ThemeFits(ui', server')
    BY <2>1, ThemeAssumption DEF ThemeFits
  <2> QED BY <1>2, <2>1, <2>2 DEF ThemeBody
<1>3. CASE TakesSaved
  <2>1. /\ ui.queued \in Modes /\ ui' = Takes(ui, ui.queued) /\ server' = server /\ faults' = faults
    BY <1>3 DEF TakesSaved, Page, Only
  <2> QED BY <1>2, <2>1 DEF ThemeBody, ThemeFits
<1>4. CASE SetMode
  <2>1. PICK mode \in Modes : mode = NextMode[ui.mode]
    BY DEF ThemeBody, ThemeUi, NextMode, Modes, Palettes
  <2>2. ui' = Takes(ui, mode)
    BY <1>4, <2>1 DEF SetMode, Page
  <2>3. CASE server' = [server EXCEPT !.saved = mode] /\ faults' = faults
    <3>1. Stored(server') /\ server'.os = server.os /\ Saved(server') = mode
      BY <2>3, ThemeAssumption DEF ThemeBody, Stored, Saved
    <3> QED BY <1>2, <2>2, <2>3, <3>1 DEF ThemeBody
  <2>4. CASE server' = server /\ faults' = faults + 1
    BY <1>2, <2>2, <2>4 DEF ThemeBody
  <2> QED BY <1>4, <2>1, <2>3, <2>4 DEF SetMode
<1>5. CASE ReloadTheme
  <2>1. ui' = Loads(server) /\ server' = server /\ faults' = faults
    BY <1>5 DEF ReloadTheme, Page, Only
  <2> QED BY <2>1, ThemeLoads, ThemeAssumption DEF ThemeBody
<1>6. CASE SystemTurns
  <2>1. PICK os \in Palettes :
          /\ server' = [server EXCEPT !.os = os] /\ faults' = faults
          /\ ui' = IF ui.listens THEN [ui EXCEPT !.applied = os, !.resolved = os] ELSE ui
    BY <1>6 DEF SystemTurns, Page
  <2>2. Stored(server') /\ server'.os = os /\ Saved(server') = Saved(server)
    BY <2>1 DEF ThemeBody, Stored, Saved
  <2>3. CASE ui.listens
    <3>1. /\ ui' = [f \in ThemeFields |-> ui'[f]] /\ ui'.mode = ui.mode /\ ui'.applied = os
          /\ ui'.resolved = os /\ ui'.listens = ui.listens /\ ui'.queued = ui.queued
      BY <2>1, <2>3 DEF ThemeBody, ThemeUi, ThemeFields
    <3>2. ThemeUi(ui')
      BY <3>1 DEF ThemeBody, ThemeUi
    <3>3. ui.queued # "mount" /\ ui.mode = "system"
      BY <2>3 DEF ThemeBody, ThemeFits
    <3>4. Resolve(ui.mode, os) = os
      BY <3>3 DEF Resolve, Palettes
    <3>5. ThemeFits(ui', server')
      BY <2>2, <2>3, <3>1, <3>3, <3>4 DEF ThemeBody, ThemeFits
    <3> QED BY <2>1, <2>2, <3>1, <3>2, <3>5 DEF ThemeBody
  <2>4. CASE ~ui.listens
    <3>1. ui' = ui
      BY <2>1, <2>4
    <3>2. ui.queued # "mount" => ui.mode \in Palettes
      BY <2>4 DEF ThemeBody, ThemeUi, ThemeFits, Modes
    <3>3. ui.queued # "mount" => Resolve(ui.mode, os) = Resolve(ui.mode, server.os)
      BY <3>2 DEF Resolve
    <3>4. ThemeFits(ui', server')
      BY <2>2, <3>1, <3>3 DEF ThemeBody, ThemeFits
    <3> QED BY <2>1, <2>2, <3>1, <3>4 DEF ThemeBody
  <2> QED BY <2>3, <2>4
<1>7. CASE Fails
  <2>1. ui' = ui /\ server' = server /\ faults' = faults + 1
    BY <1>7 DEF Fails, Fail
  <2> QED BY <2>1 DEF ThemeBody
<1>8. CASE UNCHANGED vars
  <2>1. ui' = ui /\ server' = server /\ faults' = faults
    BY <1>8 DEF vars
  <2> QED BY <2>1 DEF ThemeBody
<1> QED BY <1>1, <1>3, <1>4, <1>5, <1>6, <1>7, <1>8 DEF ThemeNext

LEMMA ThemeHolds ==
    /\ Init => ThemeInv
    /\ ThemeInv /\ [Next]_vars => ThemeInv'
    /\ ThemeInv => PaletteFitsTheMode /\ ThemeTypeOK
<1>1. Init => ThemeInv
  BY OpensOn, ThemeStarts DEF ThemeInv
<1>2. ThemeInv /\ [Next]_vars => ThemeInv'
  BY TakesStep, ThemeKeeps, PagesStay DEF ThemeInv, OnTheme
<1>3. ThemeInv => PaletteFitsTheMode /\ ThemeTypeOK
  BY ThemeAssumption DEF ThemeInv, ThemeBody, ThemeUi, ThemeFits, PaletteFitsTheMode, ThemeTypeOK
<1> QED BY <1>1, <1>2, <1>3
-----------------------------------------------------------------------------
(* The people invited.  Without a crossing one request is out at a time;    *)
(* without a failure the card lists the grants before it is served and, its *)
(* answer applied, after.                                                   *)

InvitedFields == {"grants", "email", "inviting", "crossed"}
InvitedUi(u) ==
    /\ u = [f \in InvitedFields |-> u[f]]
    /\ u.grants \subseteq Grants /\ u.email \in Invitees \cup {Nothing}
    /\ u.inviting \in BOOLEAN /\ u.crossed \in BOOLEAN
Granted(s) ==
    /\ s = [grants |-> s.grants, next |-> s.next]
    /\ s.grants \subseteq Grants /\ s.next \in 1..(MaxGrants + 1)
Invites(a) == a = [who |-> a.who, id |-> a.id, role |-> a.role] /\ a.who \in Invitees /\ a.role \in GrantRoles
GrantCall(r) ==
    /\ r.op \in GrantOps /\ r.at \in {"sent", "ok", "failed"}
    /\ r.op = "invite" => Invites(r.arg)
    /\ r.op = "invite" /\ r.at = "sent" => server.next <= MaxGrants
    /\ r.at = "ok" => r.got \subseteq Grants
GrantComes(r) ==
    /\ r.at # "failed"
    /\ r.at = "sent" /\ r.op # "shares" => ui.grants = server.grants
    /\ r.at = "ok" => server.grants = Listed(r.op, r.arg, r.got)
InvitedBody ==
    /\ CallsShape /\ InvitedUi(ui) /\ Granted(server) /\ faults \in Nat
    /\ \A c \in Slots : Out(c) => GrantCall(calls[c])
    /\ \A c \in OutAs("invite") : ui.inviting /\ \A d \in OutAs("invite") : c = d
    /\ ~ui.crossed => \A c, d \in Slots : Out(c) /\ Out(d) => c = d
    /\ ~ui.crossed /\ faults = 0 =>
         /\ (\A c \in Slots : ~Out(c)) => ui.grants = server.grants
         /\ \A c \in Slots : Out(c) => GrantComes(calls[c])
InvitedInv == OnInvited => InvitedBody

LEMMA InvitedStarts == InvitedInit => InvitedBody
<1> SUFFICES ASSUME InvitedInit PROVE InvitedBody
  OBVIOUS
<1>1. PICK g \in SUBSET {[who |-> e, id |-> 1, role |-> "viewer"] : e \in Invitees} :
        Opens("invited",
              [grants |-> {}, email |-> Nothing, inviting |-> FALSE, crossed |-> FALSE],
              [grants |-> g, next |-> 2], Request("shares", Nothing))
  BY DEF InvitedInit
<1>2. IsCall(Request("shares", Nothing))
  BY DEF IsCall, Request
<1>3. /\ ui = [grants |-> {}, email |-> Nothing, inviting |-> FALSE, crossed |-> FALSE]
      /\ server = [grants |-> g, next |-> 2] /\ CallsShape /\ 1 \in Slots
      /\ calls[1] = Request("shares", Nothing) /\ \A c \in Slots \ {1} : calls[c] = Free
  BY <1>1, <1>2, OpensWith
<1>4. g \subseteq Grants /\ 2 \in 1..(MaxGrants + 1)
  BY InvitedAssumption DEF Grants, GrantRoles
<1>5. InvitedUi(ui) /\ Granted(server) /\ faults = 0
  <2>1. InvitedUi(ui)
    BY <1>3 DEF InvitedUi, InvitedFields
  <2>2. Granted(server)
    BY <1>3, <1>4 DEF Granted
  <2>3. faults = 0
    BY <1>1 DEF Opens
  <2> QED BY <2>1, <2>2, <2>3
<1>6. GrantCall(calls[1]) /\ GrantComes(calls[1]) /\ Out(1)
  BY <1>3 DEF GrantCall, GrantComes, GrantOps, Request, Out, Free
<1>7. OutAs("invite") = {} /\ \A c \in Slots \ {1} : ~Out(c)
  BY <1>3 DEF OutAs, Out, Request, Free
<1> QED BY <1>3, <1>5, <1>6, <1>7 DEF InvitedBody

LEMMA EmailTyped ==
    ASSUME InvitedBody, NEW e \in Invitees, TypeEmail(e)
    PROVE  InvitedBody'
<1>1. ui' = [ui EXCEPT !.email = e] /\ UNCHANGED <<server, calls, faults>>
  BY DEF TypeEmail, Page, Only
<1>2. InvitedUi(ui') /\ ui'.grants = ui.grants /\ ui'.crossed = ui.crossed /\ ui'.inviting = ui.inviting
  BY <1>1 DEF InvitedBody, InvitedUi, InvitedFields
<1>3. /\ \A r : GrantCall(r)' <=> GrantCall(r)
      /\ \A r : GrantComes(r)' <=> GrantComes(r)
  BY <1>1, <1>2 DEF GrantCall, GrantComes, Listed
<1> QED BY <1>1, <1>2, <1>3 DEF InvitedBody, CallsShape, Slots, OutAs, Out

(* An invitation or a removal is sent.                                      *)
LEMMA GrantSent ==
    ASSUME InvitedBody, NEW op \in {"invite", "revoke"}, NEW a, Grant(op, a),
           op = "invite" => Invites(a) /\ ~ui.inviting /\ server.next <= MaxGrants
    PROVE  InvitedBody'
<1>1. PICK inviting, crossed :
        /\ inviting = (ui.inviting \/ op = "invite") /\ inviting \in BOOLEAN
        /\ crossed = (ui.crossed \/ \E d \in Slots : calls[d].op \in GrantOps) /\ crossed \in BOOLEAN
  OBVIOUS
<1>2. ui' = [ui EXCEPT !.inviting = inviting, !.crossed = crossed] /\ UNCHANGED <<server, faults>>
  BY <1>1 DEF Grant, Page, Only, InvitedBody, InvitedUi, InvitedFields
<1>3. ui' = [f \in InvitedFields |-> ui'[f]] /\ ui'.grants = ui.grants /\ ui'.email = ui.email /\ ui'.inviting = inviting /\ ui'.crossed = crossed
  BY <1>2 DEF InvitedBody, InvitedUi, InvitedFields
<1>4. InvitedUi(ui')
  BY <1>1, <1>3 DEF InvitedBody, InvitedUi
<1>5. PICK s \in Slots : TakenBy(s, Request(op, a))
  BY FetchTakes DEF Grant, InvitedBody
<1>6. GrantCall(calls[s])'
  BY <1>2, <1>5 DEF GrantCall, TakenBy, Request, GrantOps
<1>7. \A c \in Slots \ {s} : calls'[c] = calls[c] /\ (Out(c)' <=> Out(c)) /\ (GrantCall(calls[c])' <=> GrantCall(calls[c]))
  BY <1>2, <1>5 DEF TakenBy, Others, Out, GrantCall
<1>8. \A c \in Slots : Out(c)' => GrantCall(calls[c])'
  BY <1>6, <1>7 DEF InvitedBody
<1>9. CallsShape' /\ Out(s)' /\ ~Out(s) /\ s \notin OutAs("invite")
  BY <1>5 DEF TakenBy, Out, Request, Free, OutAs
<1>10. OutAs("invite")' = IF op = "invite" THEN OutAs("invite") \cup {s} ELSE OutAs("invite")
  BY <1>5, <1>9 DEF TakenBy, Others, Request, OutAs
<1>11. \A c \in OutAs("invite")' : ui'.inviting /\ \A d \in OutAs("invite")' : c = d
  <2>1. CASE op = "invite"
    <3>1. OutAs("invite") = {}
      BY <2>1 DEF InvitedBody
    <3> QED BY <1>1, <1>3, <1>10, <2>1, <3>1
  <2>2. CASE op # "invite"
    <3>1. ui.inviting => ui'.inviting
      BY <1>1, <1>3
    <3> QED BY <1>10, <2>2, <3>1 DEF InvitedBody
  <2> QED BY <2>1, <2>2
<1>12. ASSUME ~ui'.crossed PROVE ~ui.crossed /\ \A c \in Slots : ~Out(c)
  <2>1. ~ui.crossed /\ \A d \in Slots : calls[d].op \notin GrantOps
    BY <1>1, <1>3, <1>12
  <2> QED BY <2>1 DEF InvitedBody, GrantCall
<1>13. ASSUME ~ui'.crossed, faults' = 0 PROVE GrantComes(calls[s])'
  <2>1. ui.grants = server.grants
    BY <1>2, <1>12, <1>13 DEF InvitedBody
  <2> QED BY <1>2, <1>3, <1>5, <2>1 DEF GrantComes, TakenBy, Request
<1> QED BY <1>2, <1>4, <1>7, <1>8, <1>9, <1>11, <1>12, <1>13 DEF InvitedBody
(* The API serves it. *)
LEMMA GrantServed ==
    ASSUME InvitedBody, NEW c \in Slots, ServeGrants(c)
    PROVE  InvitedBody'
<1> DEFINE a == calls[c].arg
<1>1. calls[c].op \in GrantOps /\ calls[c].at = "sent" /\ Out(c) /\ UNCHANGED <<ui, faults>>
  BY DEF ServeGrants, Only, Out, Free, GrantOps
<1>2. PICK got :
        /\ Granted(server') /\ got \subseteq Grants /\ Answer(c, got)
        /\ calls[c].op # "invite" => server'.next = server.next
        /\ calls[c].op # "shares" /\ ui.grants = server.grants => server'.grants = Listed(calls[c].op, a, got)
        /\ calls[c].op = "shares" => server' = server /\ got = server.grants
  <2>1. CASE calls[c].op = "invite"
    <3>1. PICK g : g = [a EXCEPT !.id = GrantOf(a.who)]
      OBVIOUS
    <3>2. Invites(a) /\ server.next \in 1..MaxGrants
      BY <1>1, <2>1, InvitedAssumption DEF InvitedBody, GrantCall, Granted
    <3>3. GrantOf(a.who) \in 1..MaxGrants
      <4>1. CASE {x \in server.grants : x.who = a.who} = {}
        BY <3>2, <4>1 DEF GrantOf
      <4>2. CASE {x \in server.grants : x.who = a.who} # {}
        <5>1. PICK x \in Grants : GrantOf(a.who) = x.id
          BY <4>2 DEF GrantOf, InvitedBody, Granted
        <5> QED BY <5>1 DEF Grants
      <4> QED BY <4>1, <4>2
    <3>4. g \in Grants
      BY <3>1, <3>2, <3>3 DEF Invites, Grants
    <3>5. PICK next : next = (IF g.id = server.next THEN server.next + 1 ELSE server.next) /\ next \in 1..(MaxGrants + 1)
      BY <3>2, InvitedAssumption
    <3>6. /\ server' = [server EXCEPT !.grants = {x \in server.grants : x.who # a.who} \cup {g}, !.next = next]
          /\ Answer(c, {g})
      BY <2>1, <3>1, <3>5 DEF ServeGrants, InvitedBody, Granted
    <3>7. server' = [grants |-> {x \in server.grants : x.who # a.who} \cup {g}, next |-> next]
      BY <3>6 DEF InvitedBody, Granted
    <3>8. Granted(server')
      BY <3>4, <3>5, <3>7 DEF InvitedBody, Granted
    <3>9. ui.grants = server.grants => server'.grants = Listed(calls[c].op, a, {g})
      BY <2>1, <3>7 DEF Listed
    <3> QED BY <2>1, <3>4, <3>6, <3>8, <3>9
  <2>2. CASE calls[c].op = "revoke"
    <3>1. server' = [server EXCEPT !.grants = {x \in server.grants : x.id # a.id}] /\ Answer(c, {})
      BY <2>2 DEF ServeGrants, InvitedBody, Granted
    <3>2. server' = [grants |-> {x \in server.grants : x.id # a.id}, next |-> server.next]
      BY <3>1 DEF InvitedBody, Granted
    <3>3. Granted(server')
      BY <3>2 DEF InvitedBody, Granted
    <3>4. ui.grants = server.grants => server'.grants = Listed(calls[c].op, a, {})
      BY <2>2, <3>2 DEF Listed
    <3> QED BY <2>2, <3>1, <3>2, <3>3, <3>4
  <2>3. CASE calls[c].op = "shares"
    <3>1. Answer(c, server.grants) /\ server' = server
      BY <2>3 DEF ServeGrants
    <3> QED BY <2>3, <3>1 DEF InvitedBody, Granted
  <2> QED BY <1>1, <2>1, <2>2, <2>3 DEF GrantOps
<1>3. SettledAs(c, "ok", got)
  BY <1>1, <1>2, AnswerSettles DEF InvitedBody, GrantOps
<1>4. CallsShape' /\ \A d \in Slots \ {c} : calls'[d] = calls[d] /\ (Out(d)' <=> Out(d))
  BY <1>3 DEF SettledAs, Others, Out
<1>5. /\ calls'[c].op = calls[c].op /\ calls'[c].arg = calls[c].arg
      /\ calls'[c].at = "ok" /\ calls'[c].got = got /\ Out(c)'
  BY <1>1, <1>3 DEF SettledAs, Out, Free, GrantOps
<1>6. OutAs("invite")' = OutAs("invite")
  BY <1>4, <1>5 DEF OutAs, Slots
<1>7. \A d \in Slots : Out(d)' => GrantCall(calls[d])'
  <2>1. GrantCall(calls[c])'
    BY <1>1, <1>2, <1>5 DEF InvitedBody, GrantCall
  <2>2. ASSUME NEW d \in Slots \ {c}, Out(d)' PROVE GrantCall(calls[d])'
    <3>1. GrantCall(calls[d])
      BY <1>4, <2>2 DEF InvitedBody
    <3>2. calls[d].op = "invite" => calls[c].op # "invite"
      BY <2>2 DEF InvitedBody, OutAs
    <3>3. calls[d].op = "invite" => server'.next = server.next
      BY <1>2, <3>2
    <3>4. calls'[d] = calls[d]
      BY <1>4
    <3> QED BY <3>1, <3>3, <3>4 DEF GrantCall
  <2> QED BY <2>1, <2>2
<1>8. ASSUME ~ui'.crossed PROVE \A d, e \in Slots : Out(d)' /\ Out(e)' => d = e
  BY <1>1, <1>4, <1>5, <1>8 DEF InvitedBody
<1>9. ASSUME ~ui'.crossed, faults' = 0
      PROVE  Out(c)' /\ \A d \in Slots : Out(d)' => GrantComes(calls[d])'
  <2>1. ~ui.crossed /\ faults = 0 /\ \A d \in Slots : Out(d)' => d = c
    BY <1>1, <1>5, <1>8, <1>9
  <2>2. GrantComes(calls[c])
    BY <1>1, <2>1 DEF InvitedBody
  <2>3. server'.grants = Listed(calls[c].op, a, got)
    BY <1>1, <1>2, <2>2 DEF GrantComes, Listed
  <2>4. ui' = ui
    BY <1>1
  <2>5. (server.grants = Listed(calls[c].op, calls[c].arg, calls[c].got))'
    BY <1>5, <2>3, <2>4 DEF Listed
  <2> QED BY <1>5, <2>1, <2>5 DEF GrantComes
<1>10. InvitedUi(ui') /\ faults' \in Nat /\ ui'.inviting = ui.inviting
  BY <1>1 DEF InvitedBody
<1> QED BY <1>2, <1>4, <1>6, <1>7, <1>8, <1>9, <1>10 DEF InvitedBody

LEMMA GrantReceived ==
    ASSUME InvitedBody, NEW c \in Slots, GrantsAnswered(c)
    PROVE  InvitedBody'
<1> DEFINE ok == calls[c].at = "ok"
           invite == calls[c].op = "invite"
<1>1. /\ calls[c].op \in GrantOps /\ calls[c].at \in {"ok", "failed"} /\ Out(c) /\ Done(c)
      /\ UNCHANGED <<server, faults>>
  BY DEF GrantsAnswered, Only, Out, Free, GrantOps
<1>2. LeftWith(c, Free)
  BY <1>1, DoneLeaves DEF InvitedBody
<1>3. PICK inviting, email, grants :
        /\ inviting = (ui.inviting /\ ~invite) /\ inviting \in BOOLEAN
        /\ email = IF ok /\ invite THEN Nothing ELSE ui.email
        /\ grants = IF ok THEN Listed(calls[c].op, calls[c].arg, calls[c].got) ELSE ui.grants
  OBVIOUS
<1>4. ui' = [ui EXCEPT !.inviting = inviting, !.email = email, !.grants = grants]
  BY <1>3 DEF GrantsAnswered, Page, InvitedBody, InvitedUi, InvitedFields
<1>5. /\ ui' = [f \in InvitedFields |-> ui'[f]] /\ ui'.grants = grants /\ ui'.email = email
      /\ ui'.inviting = inviting /\ ui'.crossed = ui.crossed
  BY <1>4 DEF InvitedBody, InvitedUi, InvitedFields
<1>6. grants \subseteq Grants
  <2>1. ok => calls[c].got \subseteq Grants
    BY <1>1 DEF InvitedBody, GrantCall
  <2> QED BY <1>1, <1>3, <2>1 DEF Listed, InvitedBody, InvitedUi, GrantOps
<1>7. InvitedUi(ui')
  BY <1>3, <1>5, <1>6 DEF InvitedBody, InvitedUi
<1>8. /\ CallsShape' /\ ~Out(c)' /\ OutAs("invite")' = OutAs("invite") \ {c}
      /\ \A d \in Slots \ {c} : calls'[d] = calls[d] /\ (Out(d)' <=> Out(d))
  BY <1>2, OutLeft DEF LeftWith, Others, Out, Free
<1>9. \A d \in Slots : Out(d)' => GrantCall(calls[d])'
  BY <1>1, <1>8 DEF InvitedBody, GrantCall
<1>10. \A d \in OutAs("invite")' : ui'.inviting /\ \A e \in OutAs("invite")' : d = e
  <2>1. CASE invite
    <3>1. OutAs("invite") = {c}
      BY <2>1 DEF InvitedBody, OutAs
    <3> QED BY <1>8, <3>1
  <2>2. CASE ~invite
    <3>1. ui.inviting => ui'.inviting
      BY <1>3, <1>5, <2>2
    <3> QED BY <1>8, <3>1 DEF InvitedBody
  <2> QED BY <2>1, <2>2
<1>11. ASSUME ~ui'.crossed PROVE \A d \in Slots : ~Out(d)'
  BY <1>1, <1>5, <1>8, <1>11 DEF InvitedBody
<1>12. ASSUME ~ui'.crossed, faults' = 0 PROVE ui'.grants = server'.grants
  <2>1. GrantComes(calls[c])
    BY <1>1, <1>5, <1>12 DEF InvitedBody
  <2> QED BY <1>1, <1>3, <1>5, <2>1 DEF GrantComes
<1> QED BY <1>1, <1>7, <1>8, <1>9, <1>10, <1>11, <1>12 DEF InvitedBody

LEMMA GrantFails ==
    ASSUME InvitedBody, NEW c \in Slots, Fail(c)
    PROVE  InvitedBody'
<1>1. CallsShape
  BY DEF InvitedBody
<1>2. /\ SettledAs(c, "failed", Nothing) /\ Out(c) /\ faults' = faults + 1
      /\ ui' = ui /\ server' = server
  BY <1>1, FailSettles DEF Out
<1>3. CallsShape' /\ \A d \in Slots \ {c} : calls'[d] = calls[d] /\ (Out(d)' <=> Out(d))
  BY <1>2 DEF SettledAs, Others, Out
<1>4. /\ calls'[c].op = calls[c].op /\ calls'[c].arg = calls[c].arg /\ calls'[c].at = "failed"
      /\ GrantCall(calls[c])
  BY <1>2 DEF SettledAs, InvitedBody
<1>5. OutAs("invite")' = OutAs("invite")
  BY <1>2, OutSettled
<1>6. GrantCall(calls[c])'
  BY <1>4 DEF GrantCall
<1>7. \A d \in Slots : Out(d)' => GrantCall(calls[d])'
  BY <1>2, <1>3, <1>6 DEF InvitedBody, GrantCall
<1>8. ~ui'.crossed => \A d, e \in Slots : Out(d)' /\ Out(e)' => d = e
  BY <1>2, <1>3 DEF InvitedBody
<1>9. faults' \in Nat /\ faults' # 0
  BY <1>2 DEF InvitedBody
<1> QED BY <1>2, <1>3, <1>5, <1>7, <1>8, <1>9 DEF InvitedBody

LEMMA InvitedKeeps ==
    ASSUME InvitedBody, InvitedNext \/ Fails \/ UNCHANGED vars
    PROVE  InvitedBody'
<1>1. ASSUME NEW r \in GrantRoles, Invite(r) PROVE InvitedBody'
  <2>1. PICK a : a = [who |-> ui.email, id |-> 0, role |-> r]
    OBVIOUS
  <2>2. Grant("invite", a) /\ ~ui.inviting /\ server.next <= MaxGrants /\ ui.email \in Invitees
    BY <1>1, <2>1 DEF Invite, InvitedBody, InvitedUi
  <2>3. Invites(a)
    BY <2>1, <2>2 DEF Invites
  <2> QED BY <2>2, <2>3, GrantSent
<1>2. ASSUME NEW g \in ui.grants, Revoke(g) PROVE InvitedBody'
  BY <1>2, GrantSent DEF Revoke
<1>3. CASE UNCHANGED vars
  <2>1. UNCHANGED <<ui, server, calls, faults>>
    BY <1>3 DEF vars
  <2> QED BY <2>1 DEF InvitedBody, InvitedUi, Granted, GrantCall, GrantComes, Listed, CallsShape, OutAs, Out, Slots
<1> QED BY <1>1, <1>2, <1>3, EmailTyped, GrantServed, GrantReceived, GrantFails DEF InvitedNext, Fails

LEMMA InvitedHolds ==
    /\ Init => InvitedInv
    /\ InvitedInv /\ [Next]_vars => InvitedInv'
    /\ InvitedInv => CardListsTheGrants /\ InvitedTypeOK
<1>1. Init => InvitedInv
  BY OpensOn, InvitedStarts DEF InvitedInv
<1>2. InvitedInv /\ [Next]_vars => InvitedInv'
  BY TakesStep, InvitedKeeps, PagesStay DEF InvitedInv, OnInvited
<1>3. InvitedInv => CardListsTheGrants /\ InvitedTypeOK
  BY DEF InvitedInv, InvitedBody, InvitedUi, Granted, CardListsTheGrants, InvitedTypeOK, Quiet, Out
<1> QED BY <1>1, <1>2, <1>3
-----------------------------------------------------------------------------
(* What a step on one slot does to the others, and to who is out. *)

LEMMA TakenOut ==
    ASSUME NEW s, NEW r, TakenBy(s, r), r # Free
    PROVE  /\ CallsShape' /\ s \in Slots /\ calls'[s] = r /\ Out(s)' /\ ~Out(s)
           /\ \A d \in Slots \ {s} : calls'[d] = calls[d] /\ (Out(d)' <=> Out(d))
BY DEF TakenBy, Others, Out

LEMMA SettledOut ==
    ASSUME NEW c \in Slots, NEW at, NEW got, SettledAs(c, at, got), calls[c].op # "none"
    PROVE  /\ CallsShape' /\ Out(c)' /\ Out(c)
           /\ calls'[c].op = calls[c].op /\ calls'[c].arg = calls[c].arg
           /\ calls'[c].at = at /\ calls'[c].got = got
           /\ \A d \in Slots \ {c} : calls'[d] = calls[d] /\ (Out(d)' <=> Out(d))
BY DEF SettledAs, Others, Out, Free

LEMMA LeftOut ==
    ASSUME NEW c \in Slots, NEW r, LeftWith(c, r)
    PROVE  /\ CallsShape' /\ calls'[c] = r /\ (Out(c)' <=> r # Free)
           /\ \A d \in Slots \ {c} : calls'[d] = calls[d] /\ (Out(d)' <=> Out(d))
BY DEF LeftWith, Others, Out

LEMMA QuietIs == Quiet <=> \A c \in Slots : ~Out(c)
BY DEF Quiet, Out
-----------------------------------------------------------------------------
(* Several rows at once.  Until two runs cross, or a load fails, one thing  *)
(* is out at a time: a run, the load that follows it, or nothing, and then  *)
(* the rows are the API's.                                                  *)

BulkFields == {"rows", "selecting", "selected", "busy", "report", "confirm", "crossed"}
Reports(p) == p.failed \subseteq Rows /\ p.selecting \in BOOLEAN
BulkUi(u) ==
    /\ u = [f \in BulkFields |-> u[f]]
    /\ u.rows \in [Rows -> RowStates] /\ u.selected \subseteq Rows /\ u.confirm \subseteq Rows
    /\ u.selecting \in BOOLEAN /\ u.busy \in BOOLEAN /\ u.crossed \in BOOLEAN
    /\ u.report # Nothing => Reports(u.report)
Splits(g) == g = [done |-> g.done, failed |-> g.failed] /\ g.done \subseteq Rows /\ g.failed \subseteq Rows
BulkCall(r) ==
    /\ r.op \in {"run", "load"}
    /\ r.op = "run" => /\ r.arg.targets \subseteq Rows /\ r.arg.selecting \in BOOLEAN
                       /\ r.got # Nothing => Splits(r.got)
    /\ r.op = "load" => r.at \in {"sent", "ok", "failed"} /\ (r.at = "ok" => r.got \in [Rows -> RowStates])
BulkBody ==
    /\ CallsShape /\ BulkUi(ui) /\ server \in [Rows -> RowStates]
    /\ \A c \in Slots : Out(c) => BulkCall(calls[c])
    /\ ~ui.crossed =>
         /\ \A c, d \in Slots : Out(c) /\ Out(d) => c = d
         /\ (\A c \in Slots : ~Out(c)) => ui.rows = server
         /\ \A c \in Slots : Ok(c, "load") => calls[c].got = server
BulkInv == OnBulk => BulkBody

LEMMA BulkStarts == BulkInit => BulkBody
<1> SUFFICES ASSUME BulkInit PROVE BulkBody
  OBVIOUS
<1>1. PICK rows : rows = [r \in Rows |-> "plain"]
  OBVIOUS
<1>2. Opens("bulk",
            [rows |-> rows, selecting |-> FALSE, selected |-> {}, busy |-> FALSE,
             report |-> Nothing, confirm |-> {}, crossed |-> FALSE],
            rows, Free)
  BY <1>1 DEF BulkInit
<1>3. /\ ui = [rows |-> rows, selecting |-> FALSE, selected |-> {}, busy |-> FALSE,
               report |-> Nothing, confirm |-> {}, crossed |-> FALSE]
      /\ server = rows /\ CallsShape /\ calls[1] = Free /\ \A c \in Slots \ {1} : calls[c] = Free
  BY <1>2, OpensWith DEF IsCall
<1>4. rows \in [Rows -> RowStates]
  BY <1>1 DEF RowStates
<1>5. BulkUi(ui) /\ ui.rows = rows
  BY <1>3, <1>4 DEF BulkUi, BulkFields
<1>6. \A c \in Slots : ~Out(c) /\ ~Ok(c, "load")
  BY <1>3 DEF Out, Ok, Free
<1> QED BY <1>3, <1>4, <1>5, <1>6 DEF BulkBody

(* What only the page sees. *)
LEMMA BulkEdits ==
    ASSUME BulkBody, BulkUi(ui'), ui'.rows = ui.rows, ui'.crossed = ui.crossed, UNCHANGED <<server, calls>>
    PROVE  BulkBody'
BY DEF BulkBody, CallsShape, Slots, Out, Ok

(* A run is sent. *)
LEMMA RunSent ==
    ASSUME BulkBody, NEW kind, NEW targets \in SUBSET Rows, NEW selecting \in BOOLEAN,
           Run(kind, targets, selecting)
    PROVE  BulkBody'
<1>1. PICK a : a = [kind |-> kind, targets |-> targets, selecting |-> selecting]
  OBVIOUS
<1>2. PICK r : r = [op |-> "run", arg |-> a, at |-> "each", got |-> Nothing]
  OBVIOUS
<1>3. Requests("run", a) = r
  BY <1>2 DEF Requests, Request
<1>4. CallsShape /\ Start(r) /\ server' = server
  BY <1>1, <1>3 DEF Run, BulkBody, Only
<1>5. IsCall(r) /\ r # Free
  BY <1>2 DEF IsCall, Free
<1>6. PICK s \in Slots : TakenBy(s, r)
  BY <1>4, <1>5, StartEffect DEF TakenBy, Others
<1>7. /\ CallsShape' /\ calls'[s] = r /\ Out(s)' /\ ~Out(s)
      /\ \A d \in Slots \ {s} : calls'[d] = calls[d] /\ (Out(d)' <=> Out(d))
  BY <1>5, <1>6, TakenOut
<1>8. PICK crossed \in BOOLEAN : crossed <=> ~Quiet
  OBVIOUS
<1>9. ~ui.crossed /\ ui' = [ui EXCEPT !.busy = TRUE, !.confirm = {}, !.crossed = crossed]
  BY <1>8 DEF Run, Page, BulkBody, BulkUi, BulkFields
<1>10. BulkUi(ui') /\ ui'.crossed = crossed
  BY <1>8, <1>9 DEF BulkBody, BulkUi, BulkFields
<1>11. BulkCall(r)
  BY <1>1, <1>2 DEF BulkCall
<1>12. ~crossed => \A d \in Slots \ {s} : ~Out(d)'
  BY <1>7, <1>8, QuietIs
<1>13. ~crossed => \A d \in Slots : ~Ok(d, "load")'
  BY <1>2, <1>7, <1>12 DEF Out, Ok, Free
<1> QED BY <1>4, <1>7, <1>10, <1>11, <1>12, <1>13 DEF BulkBody, BulkCall

LEMMA TurnedRows ==
    ASSUME BulkBody, NEW kind, NEW r \in Rows
    PROVE  Turned(kind, r) \in [Rows -> RowStates]
<1>1. \A s \in RowStates : [server EXCEPT ![r] = s] \in [Rows -> RowStates]
  BY DEF BulkBody
<1> QED BY <1>1 DEF Turned, RowStates

(* One target of a run settles. *)
LEMMA OneSettles ==
    ASSUME BulkBody, NEW c \in Slots, NEW r \in Rows, NEW how \in {"done", "failed"}, Each(c, "run"),
           Settle(c, r, how), ui' = ui, server' \in [Rows -> RowStates]
    PROVE  BulkBody'
<1>1. calls[c].op = "run" /\ calls[c].at = "each" /\ Out(c)
  BY DEF Each, Out, Free
<1>2. Settled(c) = [done |-> Settled(c).done, failed |-> Settled(c).failed]
      /\ Settled(c).done \subseteq Rows /\ Settled(c).failed \subseteq Rows
  BY <1>1 DEF Settled, BulkBody, BulkCall, Splits
<1>3. PICK g : g = [Settled(c) EXCEPT ![how] = @ \cup {r}]
  OBVIOUS
<1>4. Splits(g)
  BY <1>2, <1>3 DEF Splits
<1>5. PICK at : at = IF g.done \cup g.failed = calls[c].arg.targets THEN "ok" ELSE calls[c].at
  OBVIOUS
<1>6. calls' = [calls EXCEPT ![c].got = g, ![c].at = at]
  BY <1>3, <1>5 DEF Settle, BulkBody, CallsShape
<1>7. calls[c] = [op |-> calls[c].op, arg |-> calls[c].arg, at |-> calls[c].at, got |-> calls[c].got]
  BY <1>1 DEF BulkBody, CallsShape, IsCall, Free
<1>8. calls'[c] = [op |-> "run", arg |-> calls[c].arg, at |-> at, got |-> g]
      /\ (\A d \in Slots \ {c} : calls'[d] = calls[d]) /\ calls' = [d \in Slots |-> calls'[d]]
  BY <1>1, <1>6, <1>7 DEF BulkBody, CallsShape
<1>9. CallsShape'
  BY <1>8 DEF BulkBody, CallsShape, IsCall, Slots
<1>10. Out(c)' /\ \A d \in Slots \ {c} : Out(d)' <=> Out(d)
  BY <1>8 DEF Out, Free
<1>11. BulkCall(calls'[c])
  BY <1>1, <1>4, <1>8 DEF BulkCall, BulkBody
<1>12. ASSUME ~ui.crossed PROVE \A d \in Slots : ~Ok(d, "load")'
  <2>1. \A d \in Slots \ {c} : ~Out(d)
    BY <1>1, <1>12 DEF BulkBody
  <2> QED BY <1>8, <2>1 DEF Ok, Out, Free
<1> QED BY <1>1, <1>8, <1>9, <1>10, <1>11, <1>12 DEF BulkBody, BulkCall

LEMMA RunReturns ==
    ASSUME BulkBody, NEW c \in Slots, RunAnswered(c)
    PROVE  BulkBody'
<1>1. calls[c].op = "run" /\ calls[c].at = "ok" /\ Out(c) /\ ThenFetch(c, "load", Nothing) /\ server' = server
  BY DEF RunAnswered, Ok, Out, Free, Only
<1>2. PICK r : r = [op |-> "load", arg |-> Nothing, at |-> "sent", got |-> Nothing]
  OBVIOUS
<1>3. LeftWith(c, r)
  BY <1>1, <1>2, ThenFetchLeaves DEF Request, BulkBody
<1>4. /\ CallsShape' /\ calls'[c] = r /\ Out(c)'
      /\ \A d \in Slots \ {c} : calls'[d] = calls[d] /\ (Out(d)' <=> Out(d))
  BY <1>2, <1>3, LeftOut DEF Free
<1>5. PICK bad : bad = Settled(c).failed
  OBVIOUS
<1>6. bad \subseteq Rows /\ calls[c].arg.selecting \in BOOLEAN
  BY <1>1, <1>5 DEF Settled, BulkBody, BulkCall, Splits
<1>7. PICK report, selecting, selected :
        /\ report = IF bad = {} THEN Nothing
                    ELSE [kind |-> calls[c].arg.kind, failed |-> bad, selecting |-> calls[c].arg.selecting]
        /\ selecting = (ui.selecting /\ ~(calls[c].arg.selecting /\ bad = {})) /\ selecting \in BOOLEAN
        /\ selected = IF calls[c].arg.selecting THEN bad ELSE ui.selected
  OBVIOUS
<1>8. ui' = [ui EXCEPT !.busy = FALSE, !.report = report, !.selecting = selecting, !.selected = selected]
  BY <1>5, <1>7 DEF RunAnswered, Page, BulkBody, BulkUi, BulkFields
<1>9. report # Nothing => Reports(report)
  BY <1>6, <1>7 DEF Reports
<1>10. selected \subseteq Rows
  BY <1>6, <1>7 DEF BulkBody, BulkUi
<1>11. BulkUi(ui') /\ ui'.crossed = ui.crossed
  BY <1>7, <1>8, <1>9, <1>10 DEF BulkBody, BulkUi, BulkFields
<1>12. BulkCall(r)
  BY <1>2 DEF BulkCall
<1>13. ASSUME ~ui.crossed PROVE \A d \in Slots : ~Ok(d, "load")'
  <2>1. \A d \in Slots \ {c} : ~Out(d)
    BY <1>1, <1>13 DEF BulkBody
  <2> QED BY <1>2, <1>4, <2>1 DEF Ok, Out, Free
<1> QED BY <1>1, <1>4, <1>11, <1>12, <1>13 DEF BulkBody, BulkCall

LEMMA LoadServed ==
    ASSUME BulkBody, NEW c \in Slots, ServeLoad(c)
    PROVE  BulkBody'
<1>1. calls[c].op = "load" /\ calls[c].op # "none" /\ Answer(c, server) /\ UNCHANGED <<ui, server>>
  BY DEF ServeLoad, Sent, Only
<1>2. SettledAs(c, "ok", server)
  BY <1>1, AnswerSettles DEF BulkBody
<1>3. /\ CallsShape' /\ Out(c)' /\ Out(c) /\ calls'[c].op = "load"
      /\ calls'[c].at = "ok" /\ calls'[c].got = server
      /\ \A d \in Slots \ {c} : calls'[d] = calls[d] /\ (Out(d)' <=> Out(d))
  BY <1>1, <1>2, SettledOut
<1>4. BulkCall(calls'[c])
  BY <1>3 DEF BulkCall, BulkBody
<1> QED BY <1>1, <1>3, <1>4 DEF BulkBody, BulkCall, Ok

LEMMA LoadReturns ==
    ASSUME BulkBody, NEW c \in Slots, LoadAnswered(c)
    PROVE  BulkBody'
<1>1. calls[c].op = "load" /\ Out(c) /\ Done(c) /\ server' = server
  BY DEF LoadAnswered, Back, Ok, Failed, Out, Free, Only
<1>2. LeftWith(c, Free)
  BY <1>1, DoneLeaves DEF BulkBody
<1>3. /\ CallsShape' /\ ~Out(c)'
      /\ \A d \in Slots \ {c} : calls'[d] = calls[d] /\ (Out(d)' <=> Out(d))
  BY <1>2, LeftOut
<1>4. calls'[c] = Free
  BY <1>3 DEF Out
<1>5. CASE Ok(c, "load")
  <2>1. ui' = [ui EXCEPT !.rows = calls[c].got]
    BY <1>5 DEF LoadAnswered, Page
  <2>2. calls[c].got \in [Rows -> RowStates]
    BY <1>1, <1>5 DEF BulkBody, BulkCall, Ok
  <2>3. BulkUi(ui') /\ ui'.rows = calls[c].got /\ ui'.crossed = ui.crossed
    BY <2>1, <2>2 DEF BulkBody, BulkUi, BulkFields
  <2>4. ~ui.crossed => ui'.rows = server
    BY <1>5, <2>3 DEF BulkBody
  <2> QED BY <1>1, <1>3, <1>4, <2>3, <2>4 DEF BulkBody, BulkCall, Ok, Free
<1>6. CASE ~Ok(c, "load")
  <2>1. ui' = [ui EXCEPT !.crossed = TRUE]
    BY <1>6 DEF LoadAnswered, Page
  <2>2. BulkUi(ui') /\ ui'.crossed = TRUE
    BY <2>1 DEF BulkBody, BulkUi, BulkFields
  <2> QED BY <1>1, <1>3, <2>2 DEF BulkBody, BulkCall
<1> QED BY <1>5, <1>6

LEMMA BulkFails ==
    ASSUME BulkBody, NEW c \in Slots, Fail(c)
    PROVE  BulkBody'
<1>1. /\ SettledAs(c, "failed", Nothing) /\ Out(c) /\ UNCHANGED <<ui, server>>
  BY FailSettles DEF Out, BulkBody
<1>2. calls[c].op # "none"
  BY <1>1 DEF BulkBody, BulkCall
<1>3. /\ CallsShape' /\ Out(c)' /\ Out(c)
      /\ calls'[c].op = calls[c].op /\ calls'[c].arg = calls[c].arg
      /\ calls'[c].at = "failed" /\ calls'[c].got = Nothing
      /\ \A d \in Slots \ {c} : calls'[d] = calls[d] /\ (Out(d)' <=> Out(d))
  BY <1>1, <1>2, SettledOut
<1>4. BulkCall(calls'[c])
  BY <1>1, <1>3 DEF BulkCall, BulkBody
<1> QED BY <1>1, <1>3, <1>4 DEF BulkBody, BulkCall, Ok

LEMMA BulkKeeps ==
    ASSUME BulkBody, BulkNext \/ Fails \/ UNCHANGED vars
    PROVE  BulkBody'
<1> USE DEF Page, Only
<1>0. Present \subseteq Rows /\ OwnedSelected \subseteq Rows
  BY DEF Present, OwnedSelected
<1>1. CASE ToggleSelecting
  <2>1. ui' = [ui EXCEPT !.selecting = ~@, !.selected = {}] /\ UNCHANGED <<server, calls>>
    BY <1>1 DEF ToggleSelecting
  <2>2. BulkUi(ui') /\ ui'.rows = ui.rows /\ ui'.crossed = ui.crossed
    BY <2>1 DEF BulkBody, BulkUi, BulkFields
  <2> QED BY <2>1, <2>2, BulkEdits
<1>2. ASSUME NEW r \in Rows, Toggle(r) PROVE BulkBody'
  <2>1. PICK selected : selected = (IF r \in ui.selected THEN ui.selected \ {r} ELSE ui.selected \cup {r})
    OBVIOUS
  <2>2. ui' = [ui EXCEPT !.selected = selected] /\ UNCHANGED <<server, calls>> /\ selected \subseteq Rows
    BY <1>2, <2>1 DEF Toggle, BulkBody, BulkUi, BulkFields
  <2>3. BulkUi(ui') /\ ui'.rows = ui.rows /\ ui'.crossed = ui.crossed
    BY <2>2 DEF BulkBody, BulkUi, BulkFields
  <2> QED BY <2>2, <2>3, BulkEdits
<1>3. CASE SelectAll
  <2>1. ui' = [ui EXCEPT !.selected = Present] /\ UNCHANGED <<server, calls>>
    BY <1>3 DEF SelectAll
  <2>2. BulkUi(ui') /\ ui'.rows = ui.rows /\ ui'.crossed = ui.crossed
    BY <1>0, <2>1 DEF BulkBody, BulkUi, BulkFields
  <2> QED BY <2>1, <2>2, BulkEdits
<1>4. CASE PublishSelected
  BY <1>0, <1>4, RunSent DEF PublishSelected
<1>5. ASSUME NEW targets \in SUBSET Rows, AskDelete(targets) PROVE BulkBody'
  <2>1. ui' = [ui EXCEPT !.confirm = targets] /\ UNCHANGED <<server, calls>>
    BY <1>5 DEF AskDelete
  <2>2. BulkUi(ui') /\ ui'.rows = ui.rows /\ ui'.crossed = ui.crossed
    BY <2>1 DEF BulkBody, BulkUi, BulkFields
  <2> QED BY <2>1, <2>2, BulkEdits
<1>6. CASE CancelDelete
  <2>1. ui' = [ui EXCEPT !.confirm = {}] /\ UNCHANGED <<server, calls>>
    BY <1>6 DEF CancelDelete
  <2>2. BulkUi(ui') /\ ui'.rows = ui.rows /\ ui'.crossed = ui.crossed
    BY <2>1 DEF BulkBody, BulkUi, BulkFields
  <2> QED BY <2>1, <2>2, BulkEdits
<1>7. CASE DeleteForever
  BY <1>7, RunSent DEF DeleteForever, BulkBody, BulkUi
<1>8. CASE Retry
  BY <1>8, RunSent DEF Retry, BulkBody, BulkUi, Reports
<1>9. CASE Dismiss
  <2>1. ui' = [ui EXCEPT !.report = Nothing] /\ UNCHANGED <<server, calls>>
    BY <1>9 DEF Dismiss
  <2>2. BulkUi(ui') /\ ui'.rows = ui.rows /\ ui'.crossed = ui.crossed
    BY <2>1 DEF BulkBody, BulkUi, BulkFields
  <2> QED BY <2>1, <2>2, BulkEdits
<1>10. ASSUME NEW c \in Slots, NEW r \in Rows, ServeOne(c, r) PROVE BulkBody'
  <2>1. Each(c, "run") /\ ui' = ui
    BY <1>10 DEF ServeOne, Awaited
  <2>2. PICK how \in {"done", "failed"} : Settle(c, r, how) /\ server' \in [Rows -> RowStates]
    <3>1. Settle(c, r, "done") \/ Settle(c, r, "failed")
      BY <1>10 DEF ServeOne
    <3> QED BY <1>10, <3>1, TurnedRows DEF ServeOne
  <2> QED BY <2>1, <2>2, OneSettles
<1>11. ASSUME NEW c \in Slots, NEW r \in Rows, FailOne(c, r) PROVE BulkBody'
  <2>1. Each(c, "run") /\ ui' = ui /\ Settle(c, r, "failed") /\ server' \in [Rows -> RowStates]
    BY <1>11, TurnedRows DEF FailOne, Awaited, BulkBody
  <2> QED BY <2>1, OneSettles
<1>12. CASE UNCHANGED vars
  <2>1. UNCHANGED <<ui, server, calls>>
    BY <1>12 DEF vars
  <2> QED BY <2>1, BulkEdits DEF BulkBody
<1> QED BY <1>1, <1>2, <1>3, <1>4, <1>5, <1>6, <1>7, <1>8, <1>9, <1>10, <1>11, <1>12,
           RunReturns, LoadServed, LoadReturns, BulkFails DEF BulkNext, Fails

LEMMA BulkHolds ==
    /\ Init => BulkInv
    /\ BulkInv /\ [Next]_vars => BulkInv'
    /\ BulkInv => BulkRowsAreCurrent /\ BulkTypeOK
<1>1. Init => BulkInv
  BY OpensOn, BulkStarts DEF BulkInv
<1>2. BulkInv /\ [Next]_vars => BulkInv'
  BY TakesStep, BulkKeeps, PagesStay DEF BulkInv, OnBulk
<1>3. BulkInv => BulkRowsAreCurrent /\ BulkTypeOK
  BY QuietIs DEF BulkInv, BulkBody, BulkUi, Reports, BulkRowsAreCurrent, BulkTypeOK
<1> QED BY <1>1, <1>2, <1>3
-----------------------------------------------------------------------------
(* Notifications.  Where nothing failed, a new subscription has its endpoint *)
(* at the API or on its way there, and a page that does not know that it has   *)
(* none is still looking.                                                   *)

PushFields == {"notif", "sub", "needsPush", "had"}
PushUi(u) ==
    /\ u = [f \in PushFields |-> u[f]]
    /\ u.notif \in {"default", "granted", "denied"} /\ u.sub \in BOOLEAN
    /\ u.needsPush \in BOOLEAN /\ u.had \in BOOLEAN
PushCall(r) == r.op \in {"key", "endpoint"} /\ (r.op = "key" => r.arg \in {"enable", "look"})
PushFits ==
    /\ \A c \in Slots : calls[c].op # "none" => calls[c].at # "failed"
    /\ ui.sub => ui.had \/ server \/ \E c \in Slots : Sent(c, "endpoint")
    /\ \A c \in Slots : Ok(c, "endpoint") => server
    /\ ui.notif = "granted" /\ ~ui.needsPush => ui.sub \/ \E c \in Slots : calls[c].op = "key"
PushBody ==
    /\ CallsShape /\ PushUi(ui) /\ server \in BOOLEAN /\ faults \in Nat
    /\ \A c \in Slots : Out(c) => PushCall(calls[c])
    /\ faults = 0 => PushFits
PushInv == OnPush => PushBody

LEMMA PushStarts == PushInit => PushBody
<1> SUFFICES ASSUME PushInit PROVE PushBody
  OBVIOUS
<1>1. PICK granted \in BOOLEAN, sub \in BOOLEAN, stored \in BOOLEAN :
        /\ sub => granted
        /\ Opens("push", [notif |-> IF granted THEN "granted" ELSE "default", sub |-> sub,
                          needsPush |-> FALSE, had |-> sub],
                 stored, IF granted THEN Request("key", "look") ELSE Free)
  BY DEF PushInit
<1>2. PICK first : first = (IF granted THEN Request("key", "look") ELSE Free)
  OBVIOUS
<1>3. PICK notif : notif = (IF granted THEN "granted" ELSE "default")
  OBVIOUS
<1>4. IsCall(first)
  BY <1>2 DEF IsCall, Request
<1>5. /\ ui = [notif |-> notif, sub |-> sub, needsPush |-> FALSE, had |-> sub]
      /\ server = stored /\ CallsShape /\ 1 \in Slots /\ calls[1] = first /\ \A c \in Slots \ {1} : calls[c] = Free
  BY <1>1, <1>2, <1>3, <1>4, OpensWith
<1>6. PushUi(ui) /\ server \in BOOLEAN /\ faults = 0
  BY <1>1, <1>3, <1>5 DEF PushUi, PushFields, Opens
<1>7. \A c \in Slots : Out(c) => c = 1 /\ granted
  BY <1>2, <1>5 DEF Out
<1>8. \A c \in Slots : Out(c) => PushCall(calls[c])
  BY <1>2, <1>5, <1>7 DEF PushCall, Request
<1>9. PushFits
  <2>1. \A c \in Slots : calls[c].op # "none" => calls[c].at # "failed" /\ calls[c].op = "key"
    BY <1>2, <1>5 DEF Request, Free
  <2>2. ui.notif = "granted" => calls[1].op = "key"
    BY <1>2, <1>3, <1>5 DEF Request
  <2>3. ui.sub => ui.had
    BY <1>5
  <2> QED BY <1>5, <2>1, <2>2, <2>3 DEF PushFits, Ok
<1> QED BY <1>5, <1>6, <1>8, <1>9 DEF PushBody

LEMMA PushKeeps ==
    ASSUME PushBody, PushNext \/ Fails \/ UNCHANGED vars
    PROVE  PushBody'
<1> USE DEF Page, Only
<1>1. ASSUME NEW answer \in {"granted", "denied"}, TurnOn(answer) PROVE PushBody'
  <2>1. PICK arg : arg = (IF answer = "granted" THEN "enable" ELSE "look")
    OBVIOUS
  <2>2. PICK r : r = [op |-> "key", arg |-> arg, at |-> "sent", got |-> Nothing]
    OBVIOUS
  <2>3. PICK s \in Slots : TakenBy(s, r)
    BY <1>1, <2>1, <2>2, FetchTakes DEF TurnOn, PushBody, Request
  <2>4. /\ CallsShape' /\ calls'[s] = r /\ Out(s)' /\ ~Out(s)
        /\ \A d \in Slots \ {s} : calls'[d] = calls[d] /\ (Out(d)' <=> Out(d))
    BY <2>2, <2>3, TakenOut DEF Free
  <2>5. /\ PushUi(ui') /\ ui'.sub = ui.sub /\ ui'.needsPush = ui.needsPush /\ ui'.had = ui.had /\ UNCHANGED <<server, faults>>
    <3>1. CASE answer = "granted"
      BY <1>1, <3>1 DEF TurnOn, PushBody
    <3>2. CASE answer = "denied"
      BY <1>1, <3>2 DEF TurnOn, PushBody, PushUi, PushFields
    <3> QED BY <1>1, <3>1, <3>2 DEF TurnOn
  <2>6. \A c \in Slots : Out(c)' => PushCall(calls'[c])
    BY <2>1, <2>2, <2>4 DEF PushBody, PushCall
  <2>7. ASSUME PushFits PROVE PushFits'
    <3>1. \A c \in Slots : calls'[c].op # "none" => calls'[c].at # "failed"
      BY <2>2, <2>4, <2>7 DEF PushFits
    <3>2. \A c \in Slots : Sent(c, "endpoint") => Sent(c, "endpoint")'
      BY <2>4 DEF Sent, Out, Free
    <3>3. \A c \in Slots : Ok(c, "endpoint")' => Ok(c, "endpoint")
      BY <2>2, <2>4 DEF Ok
    <3>4. calls'[s].op = "key"
      BY <2>2, <2>4
    <3>5. ui'.sub => ui'.had \/ server' \/ \E c \in Slots : Sent(c, "endpoint")'
      BY <2>5, <2>7, <3>2 DEF PushFits
    <3> QED BY <2>5, <2>7, <3>1, <3>3, <3>4, <3>5 DEF PushFits, Slots
  <2> QED BY <2>4, <2>5, <2>6, <2>7 DEF PushBody, PushCall
<1>2. ASSUME NEW c \in Slots, ServeKey(c) \/ ServeEndpoint(c) PROVE PushBody'
  <2>1. PICK got : Answer(c, got) /\ UNCHANGED <<ui, faults>>
    BY <1>2 DEF ServeKey, ServeEndpoint
  <2>2. /\ calls[c].op \in {"key", "endpoint"} /\ calls[c].op # "none"
        /\ calls[c].op = "endpoint" => server' = TRUE
        /\ server' = server \/ server' = TRUE
    BY <1>2 DEF ServeKey, ServeEndpoint, Sent
  <2>3. SettledAs(c, "ok", got)
    BY <2>1, <2>2, AnswerSettles DEF PushBody
  <2>4. /\ CallsShape' /\ Out(c)' /\ Out(c)
        /\ calls'[c].op = calls[c].op /\ calls'[c].arg = calls[c].arg
        /\ calls'[c].at = "ok" /\ calls'[c].got = got
        /\ \A d \in Slots \ {c} : calls'[d] = calls[d] /\ (Out(d)' <=> Out(d))
    BY <2>2, <2>3, SettledOut
  <2>5. \A d \in Slots : Out(d)' => PushCall(calls'[d])
    BY <2>2, <2>4 DEF PushBody, PushCall
  <2>6. ASSUME PushFits PROVE PushFits'
    <3>1. \A d \in Slots : /\ calls'[d].op # "none" => calls'[d].at # "failed"
                           /\ calls'[d].op = calls[d].op
      BY <2>4, <2>6 DEF PushFits
    <3>2. \A d \in Slots : Sent(d, "endpoint") => Sent(d, "endpoint")' \/ server' = TRUE
      BY <2>2, <2>4 DEF Sent
    <3>3. server => server' = TRUE
      BY <2>2 DEF PushBody
    <3>4. \A d \in Slots : Ok(d, "endpoint")' => server' = TRUE
      BY <2>2, <2>4, <2>6, <3>3 DEF Ok, PushFits
    <3>5. ui.sub => ui.had \/ server' \/ \E d \in Slots : Sent(d, "endpoint")'
      BY <2>6, <3>2, <3>3 DEF PushFits
    <3> QED BY <2>1, <2>6, <3>1, <3>4, <3>5 DEF PushFits, Slots
  <2>7. server' \in BOOLEAN
    BY <2>2 DEF PushBody
  <2> QED BY <2>1, <2>4, <2>5, <2>6, <2>7 DEF PushBody, PushCall
<1>3. ASSUME NEW c \in Slots, SubscribeDone(c) PROVE PushBody'
  <2>1. PICK ok \in BOOLEAN : ok = Ok(c, "key")
    BY DEF Ok
  <2>2. PICK r : r = (IF ok THEN Request("endpoint", Nothing) ELSE Request("key", "look"))
    OBVIOUS
  <2>3. /\ calls[c].op = "key" /\ (~ok => calls[c].at = "failed") /\ UNCHANGED <<server, faults>>
        /\ ui' = IF ok THEN [ui EXCEPT !.sub = TRUE] ELSE [ui EXCEPT !.notif = "granted"]
    BY <1>3, <2>1 DEF SubscribeDone, Back, Ok, Failed
  <2>4. LeftWith(c, r)
    <3>1. CallsShape
      BY DEF PushBody
    <3>2. ok => ThenFetch(c, "endpoint", Nothing)
      BY <1>3, <2>1 DEF SubscribeDone
    <3>3. ~ok => ThenFetch(c, "key", "look")
      BY <1>3, <2>1 DEF SubscribeDone
    <3> QED BY <2>2, <3>1, <3>2, <3>3, ThenFetchLeaves
  <2>5. r # Free /\ PushCall(r) /\ (ok => r.op = "endpoint" /\ r.at = "sent") /\ IsCall(r)
    BY <2>2 DEF Request, Free, PushCall, IsCall
  <2>6. /\ CallsShape' /\ calls'[c] = r /\ Out(c)'
        /\ \A d \in Slots \ {c} : calls'[d] = calls[d] /\ (Out(d)' <=> Out(d))
    BY <2>4, <2>5, LeftOut
  <2>7. PushUi(ui') /\ (ok => ui'.sub = TRUE)
    BY <2>1, <2>3 DEF PushBody, PushUi, PushFields
  <2>8. ASSUME PushFits PROVE PushFits'
    <3>1. ok
      BY <2>3, <2>8 DEF PushFits
    <3>2. Sent(c, "endpoint")'
      BY <2>5, <2>6, <3>1 DEF Sent
    <3>3. \A d \in Slots : calls'[d].op # "none" => calls'[d].at # "failed"
      BY <2>5, <2>6, <2>8, <3>1 DEF PushFits
    <3>4. \A d \in Slots : Ok(d, "endpoint")' => server'
      BY <2>3, <2>5, <2>6, <2>8, <3>1 DEF PushFits, Ok
    <3> QED BY <2>7, <3>1, <3>2, <3>3, <3>4 DEF PushFits, Slots
  <2> QED BY <2>3, <2>5, <2>6, <2>7, <2>8 DEF PushBody, PushCall
<1>4. ASSUME NEW c \in Slots, EndpointSaved(c) PROVE PushBody'
  <2>1. PICK r : r = [op |-> "key", arg |-> "look", at |-> "sent", got |-> Nothing]
    OBVIOUS
  <2>2. LeftWith(c, r)
    BY <1>4, <2>1, ThenFetchLeaves DEF EndpointSaved, PushBody, Request
  <2>3. /\ CallsShape' /\ calls'[c] = r /\ Out(c)'
        /\ \A d \in Slots \ {c} : calls'[d] = calls[d] /\ (Out(d)' <=> Out(d))
    BY <2>1, <2>2, LeftOut DEF Free
  <2>4. /\ calls[c].op = "endpoint" /\ calls[c].at \in {"ok", "failed"} /\ UNCHANGED <<server, faults>>
        /\ ui' = [ui EXCEPT !.notif = "granted"]
    BY <1>4 DEF EndpointSaved, Back, Ok, Failed
  <2>5. PushUi(ui') /\ ui'.sub = ui.sub
    BY <2>4 DEF PushBody, PushUi, PushFields
  <2>6. PushCall(r)
    BY <2>1 DEF PushCall
  <2>7. ASSUME PushFits PROVE PushFits'
    <3>1. server
      BY <2>4, <2>7 DEF PushFits, Ok
    <3>2. calls'[c].op = "key"
      BY <2>1, <2>3
    <3>3. \A d \in Slots : calls'[d].op # "none" => calls'[d].at # "failed"
      BY <2>1, <2>3, <2>7 DEF PushFits
    <3> QED BY <2>4, <3>1, <3>2, <3>3 DEF PushFits, Slots
  <2> QED BY <2>3, <2>4, <2>5, <2>6, <2>7 DEF PushBody, PushCall
<1>5. ASSUME NEW c \in Slots, PushLooked(c) PROVE PushBody'
  <2>1. PICK needs \in BOOLEAN : needs = (Ok(c, "key") /\ ~ui.sub)
    OBVIOUS
  <2>2. /\ calls[c].op = "key" /\ calls[c].at \in {"ok", "failed"} /\ UNCHANGED <<server, faults>>
        /\ ui' = [ui EXCEPT !.needsPush = needs] /\ Done(c)
    BY <1>5, <2>1 DEF PushLooked, Back, Ok, Failed
  <2>3. LeftWith(c, Free)
    BY <2>2, DoneLeaves DEF PushBody
  <2>4. /\ CallsShape' /\ calls'[c] = Free /\ ~Out(c)'
        /\ \A d \in Slots \ {c} : calls'[d] = calls[d] /\ (Out(d)' <=> Out(d))
    BY <2>3, LeftOut
  <2>5. PushUi(ui') /\ ui'.sub = ui.sub /\ ui'.needsPush = needs /\ ui'.notif = ui.notif /\ ui'.had = ui.had
    BY <2>2 DEF PushBody, PushUi, PushFields
  <2>6. ASSUME PushFits PROVE PushFits'
    <3>1. Ok(c, "key")
      BY <2>2, <2>6 DEF PushFits, Ok
    <3>2. ~ui'.needsPush => ui'.sub
      BY <2>1, <2>5, <3>1
    <3>3. \A d \in Slots : calls'[d].op # "none" => calls'[d].at # "failed"
      BY <2>4, <2>6 DEF PushFits, Free
    <3>4. \A d \in Slots : /\ Sent(d, "endpoint") => Sent(d, "endpoint")'
                           /\ Ok(d, "endpoint")' => Ok(d, "endpoint")
      BY <2>2, <2>4 DEF Sent, Ok, Free
    <3>5. ui'.sub => ui'.had \/ server' \/ \E d \in Slots : Sent(d, "endpoint")'
      BY <2>2, <2>5, <2>6, <3>4 DEF PushFits
    <3> QED BY <2>2, <2>6, <3>2, <3>3, <3>4, <3>5 DEF PushFits, Slots
  <2> QED BY <2>2, <2>4, <2>5, <2>6 DEF PushBody, PushCall
<1>6. ASSUME NEW c \in Slots, Fail(c) PROVE PushBody'
  <2>1. SettledAs(c, "failed", Nothing) /\ Out(c) /\ UNCHANGED <<ui, server>> /\ faults' = faults + 1
    BY <1>6, FailSettles DEF Out, PushBody
  <2>2. calls[c].op # "none"
    BY <2>1 DEF PushBody, PushCall
  <2>3. /\ CallsShape' /\ calls'[c].op = calls[c].op /\ calls'[c].arg = calls[c].arg
        /\ \A d \in Slots \ {c} : calls'[d] = calls[d] /\ (Out(d)' <=> Out(d))
    BY <2>1, <2>2, SettledOut
  <2>4. faults' \in Nat /\ faults' # 0
    BY <2>1 DEF PushBody
  <2> QED BY <2>1, <2>3, <2>4 DEF PushBody, PushCall
<1>7. CASE UNCHANGED vars
  <2>1. UNCHANGED <<ui, server, calls, faults>>
    BY <1>7 DEF vars
  <2> QED BY <2>1 DEF PushBody, PushUi, PushCall, PushFits, CallsShape, Slots, Out, Sent, Ok
<1> QED BY <1>1, <1>2, <1>3, <1>4, <1>5, <1>6, <1>7 DEF PushNext, Fails

LEMMA PushHolds ==
    /\ Init => PushInv
    /\ PushInv /\ [Next]_vars => PushInv'
    /\ PushInv => /\ PushIsStored
                  /\ OnPush => ui.notif \in {"default", "granted", "denied"} /\ server \in BOOLEAN
<1>1. Init => PushInv
  BY OpensOn, PushStarts DEF PushInv
<1>2. PushInv /\ [Next]_vars => PushInv'
  BY TakesStep, PushKeeps, PagesStay DEF PushInv, OnPush
<1>3. ASSUME PushInv, OnPush, Quiet, faults = 0, ui.notif = "granted", ~ui.needsPush PROVE server \/ ui.had
  <2>1. PushBody /\ PushFits
    BY <1>3 DEF PushInv, PushBody
  <2>2. \A c \in Slots : ~Sent(c, "endpoint") /\ calls[c].op # "key"
    BY <1>3 DEF Quiet, Sent, Free
  <2> QED BY <1>3, <2>1, <2>2 DEF PushFits
<1> QED BY <1>1, <1>2, <1>3 DEF PushIsStored, PushInv, PushBody, PushUi
-----------------------------------------------------------------------------
(* Licences.  Until two changes overlap, a request fails or the poller      *)
(* revokes a key, one thing is out at a time: a change that has not been    *)
(* served, or was refused, finds plan and list as the API has them, and     *)
(* each half of a load is the API's.                                        *)

PlanFields == {"list", "plan", "loadErr", "busy", "pop", "crossed"}
PopIs(p) ==
    /\ p = [open |-> p.open, busy |-> p.busy, err |-> p.err]
    /\ p.open \in Items \cup {Nothing} /\ p.busy \subseteq Items /\ p.err \subseteq Items
PlanUi(u) ==
    /\ u = [f \in PlanFields |-> u[f]] /\ PopIs(u.pop)
    /\ u.list = Nothing \/ u.list \subseteq Items
    /\ u.loadErr \in BOOLEAN /\ u.busy \in BOOLEAN /\ u.crossed \in BOOLEAN
Half(g) == g = [plan |-> g.plan, list |-> g.list] /\ (g.list = Nothing \/ g.list \subseteq Items)
PlanCall(r) ==
    /\ r.op \in {"load", "add", "remove"}
    /\ r.op # "load" => r.arg \in Items
    /\ r.op = "load" => /\ r.got # Nothing => Half(r.got)
                        /\ r.at = "ok" => Half(r.got) /\ r.got.list # Nothing
Current(u, s) == u.plan = Plan(s) /\ u.list = Kept(s)
HalfCurrent(g) == g.plan \in {Nothing, Plan(server)} /\ g.list \in {Nothing, Kept(server)}
PlanComes(r) ==
    /\ r.at # "failed"
    /\ r.op = "load" => /\ r.got # Nothing => HalfCurrent(r.got)
                        /\ r.at = "ok" => Current(r.got, server)
    /\ r.op # "load" /\ (r.at = "sent" \/ r.got = Nothing) => Current(ui, server)
Alone == ~ui.crossed /\ faults = 0 /\ outside = 0
PlanBody ==
    /\ CallsShape /\ PlanUi(ui) /\ server \in [Items -> {"none", "active", "revoked"}]
    /\ faults \in Nat /\ outside \in Nat
    /\ \A c \in Slots : Out(c) => PlanCall(calls[c])
    /\ Alone =>
         /\ \A c, d \in Slots : Out(c) /\ Out(d) => c = d
         /\ (\A c \in Slots : ~Out(c)) => Current(ui, server)
         /\ \A c \in Slots : Out(c) => PlanComes(calls[c])
PlanInv == OnLicences => PlanBody

LEMMA PlanStarts == LicencesInit => PlanBody
<1> SUFFICES ASSUME LicencesInit PROVE PlanBody
  OBVIOUS
<1>1. PICK r : r = [op |-> "load", arg |-> [of |-> "open", k |-> 1], at |-> "each", got |-> Nothing]
  OBVIOUS
<1>2. Requests("load", [of |-> "open", k |-> 1]) = r /\ IsCall(r)
  BY <1>1 DEF Requests, Request, IsCall
<1>3. PICK held : held = [k \in Items |-> IF k = 1 THEN "active" ELSE "none"]
  OBVIOUS
<1>4. PICK pop : pop = [open |-> Nothing, busy |-> {}, err |-> {}]
  OBVIOUS
<1>5. /\ ui = [list |-> Nothing, plan |-> Nothing, loadErr |-> FALSE, busy |-> FALSE,
               pop |-> pop, crossed |-> FALSE]
      /\ server = held /\ CallsShape /\ 1 \in Slots /\ calls[1] = r /\ \A c \in Slots \ {1} : calls[c] = Free
  BY <1>2, <1>3, <1>4, OpensWith DEF LicencesInit, Popovers
<1>6. PopIs(pop)
  BY <1>4 DEF PopIs
<1>7. PlanUi(ui)
  BY <1>5, <1>6 DEF PlanUi, PlanFields
<1>8. held \in [Items -> {"none", "active", "revoked"}]
  BY <1>3
<1>9. faults = 0 /\ outside = 0
  BY DEF LicencesInit, Opens
<1>10. PlanCall(r) /\ PlanComes(r)
  BY <1>1 DEF PlanCall, PlanComes
<1>11. Out(1) /\ \A c \in Slots \ {1} : ~Out(c)
  BY <1>1, <1>5 DEF Out, Free
<1> QED BY <1>5, <1>7, <1>8, <1>9, <1>10, <1>11 DEF PlanBody

(* A step that leaves the requests, the plan and the list alone. *)
LEMMA PlanEdits ==
    ASSUME PlanBody, PlanUi(ui'), ui'.list = ui.list, ui'.plan = ui.plan, ui'.crossed = ui.crossed,
           UNCHANGED <<server, calls, faults, outside>>
    PROVE  PlanBody'
BY DEF PlanBody, CallsShape, Slots, Out, Alone, PlanComes, Current, HalfCurrent, PlanCall

(* What else a request leaves: the others. *)
LEMMA PlanTaken ==
    ASSUME PlanBody, NEW op \in {"add", "remove"}, NEW k \in Items, Fetch(op, k),
           PlanUi(ui'), ui'.list = ui.list, ui'.plan = ui.plan, ~ui.crossed,
           ui'.crossed <=> ~Quiet, UNCHANGED <<server, faults, outside>>
    PROVE  PlanBody'
<1>1. PICK r : r = [op |-> op, arg |-> k, at |-> "sent", got |-> Nothing]
  OBVIOUS
<1>2. PICK s \in Slots : TakenBy(s, r)
  BY <1>1, FetchTakes DEF PlanBody, Request
<1>3. /\ CallsShape' /\ calls'[s] = r /\ Out(s)' /\ ~Out(s)
      /\ \A d \in Slots \ {s} : calls'[d] = calls[d] /\ (Out(d)' <=> Out(d))
  BY <1>1, <1>2, TakenOut DEF Free
<1>4. PlanCall(r)
  BY <1>1 DEF PlanCall
<1>5. \A d \in Slots : Out(d)' => PlanCall(calls'[d])
  BY <1>3, <1>4 DEF PlanBody
<1>6. ASSUME Alone'
      PROVE  /\ Current(ui, server)' /\ \A d \in Slots : Out(d)' => d = s
  <2>1. Alone /\ \A d \in Slots : ~Out(d)
    BY <1>6, QuietIs DEF Alone
  <2>2. Current(ui, server)
    BY <2>1 DEF PlanBody
  <2> QED BY <1>3, <2>1, <2>2 DEF Current
<1>7. PlanComes(calls[s])' <=> Current(ui, server)'
  BY <1>1, <1>3 DEF PlanComes
<1> QED BY <1>3, <1>5, <1>6, <1>7 DEF PlanBody, PlanCall, Slots

(* A request that settles, and is what it should be. *)
LEMMA PlanSettles ==
    ASSUME PlanBody, NEW c \in Slots, NEW r, CallsShape', calls'[c] = r, r # Free, Out(c), Others(c),
           PlanCall(r), Alone' => Alone, Alone => PlanComes(calls[c])',
           UNCHANGED ui, server' \in [Items -> {"none", "active", "revoked"}],
           faults' \in Nat, outside' \in Nat
    PROVE  PlanBody'
<1>1. Out(c)' /\ \A d \in Slots \ {c} : calls'[d] = calls[d] /\ (Out(d)' <=> Out(d))
  BY DEF Out, Others
<1>2. \A d \in Slots : Out(d)' => PlanCall(calls'[d])
  BY <1>1 DEF PlanBody
<1>3. ASSUME Alone' PROVE \A d \in Slots : Out(d)' => d = c
  BY <1>1, <1>3 DEF PlanBody
<1> QED BY <1>1, <1>2, <1>3 DEF PlanBody, PlanCall, Slots

(* The half that is missing is served.                                      *)
LEMMA HalfServed ==
    ASSUME PlanBody, NEW c \in Slots, NEW half \in {"plan", "list"}, ServeHalf(c, half)
    PROVE  PlanBody'
<1>1. calls[c].op = "load" /\ calls[c].at = "each" /\ Out(c)
  BY DEF ServeHalf, Each, Out, Free
<1>2. PICK had : had = IF calls[c].got = Nothing THEN [plan |-> Nothing, list |-> Nothing] ELSE calls[c].got
  OBVIOUS
<1>3. Half(had)
  BY <1>1, <1>2 DEF PlanBody, PlanCall, Half
<1>4. PICK now : now = [had EXCEPT ![half] = IF half = "plan" THEN Plan(server) ELSE Kept(server)]
  OBVIOUS
<1>5. PICK at : at = IF Nothing \in {now.plan, now.list} THEN calls[c].at ELSE "ok"
  OBVIOUS
<1>6. calls' = [calls EXCEPT ![c].got = now, ![c].at = at] /\ UNCHANGED <<ui, server, faults, outside>>
  BY <1>2, <1>4, <1>5 DEF ServeHalf, Only, PlanBody, CallsShape
<1>7. Half(now) /\ (now.plan = had.plan \/ now.plan = Plan(server)) /\ (now.list = had.list \/ now.list = Kept(server))
  <2>1. CASE half = "plan"
    BY <1>3, <1>4, <2>1 DEF Half
  <2>2. CASE half = "list"
    <3>1. Kept(server) \subseteq Items
      BY DEF Kept
    <3>2. now = [plan |-> had.plan, list |-> Kept(server)]
      BY <1>3, <1>4, <2>2 DEF Half
    <3> QED BY <3>1, <3>2 DEF Half
  <2> QED BY <2>1, <2>2
<1>8. calls[c] = [op |-> calls[c].op, arg |-> calls[c].arg, at |-> calls[c].at, got |-> calls[c].got]
  BY <1>1 DEF PlanBody, CallsShape, IsCall, Free
<1>9. PICK r : r = [op |-> "load", arg |-> calls[c].arg, at |-> at, got |-> now]
  OBVIOUS
<1>10. calls'[c] = r /\ Others(c) /\ calls' = [d \in Slots |-> calls'[d]]
  BY <1>1, <1>6, <1>8, <1>9 DEF PlanBody, CallsShape, Others
<1>11. CallsShape' /\ r # Free
  BY <1>9, <1>10 DEF PlanBody, CallsShape, IsCall, Slots, Others, Free
<1>12. PlanCall(r)
  BY <1>1, <1>5, <1>7, <1>9 DEF PlanCall
<1>13. ASSUME Alone PROVE PlanComes(calls[c])'
  <2>1. had.plan \in {Nothing, Plan(server)} /\ had.list \in {Nothing, Kept(server)}
    BY <1>1, <1>2, <1>13 DEF PlanBody, PlanComes, HalfCurrent
  <2>2. HalfCurrent(now)'
    BY <1>6, <1>7, <2>1 DEF HalfCurrent
  <2>3. at = "ok" => now.plan # Nothing /\ now.list # Nothing
    BY <1>1, <1>5
  <2>4. at = "ok" => Current(now, server)'
    BY <2>2, <2>3 DEF HalfCurrent, Current
  <2>5. at # "failed" /\ r.op = "load" /\ r.at = at /\ r.got = now
    BY <1>1, <1>5, <1>9
  <2> QED BY <1>10, <2>2, <2>4, <2>5 DEF PlanComes
<1> QED BY <1>1, <1>6, <1>10, <1>11, <1>12, <1>13, PlanSettles DEF PlanBody, Alone

(* An add or a removal is served, or refused.                               *)
LEMMA ChangeServed ==
    ASSUME PlanBody, NEW c \in Slots, ServeAdd(c) \/ DeleteLicence(c)
    PROVE  PlanBody'
<1>1. /\ calls[c].op \in {"add", "remove"} /\ calls[c].op # "none" /\ calls[c].at = "sent" /\ Out(c)
      /\ UNCHANGED <<ui, faults, outside>>
  BY DEF ServeAdd, DeleteLicence, Sent, Out, Free, Only
<1>2. calls[c].arg \in Items
  BY <1>1 DEF PlanBody, PlanCall
<1>3. PICK got :
        /\ Answer(c, got) /\ server' \in [Items -> {"none", "active", "revoked"}]
        /\ got = Nothing => server' = server
  <2>1. CASE ServeAdd(c)
    <3>1. Plan([server EXCEPT ![calls[c].arg] = "active"]) # Nothing
      BY SettingsAssumption DEF Plan
    <3> QED BY <1>2, <2>1, <3>1 DEF ServeAdd, PlanBody
  <2>2. CASE DeleteLicence(c)
    BY <1>2, <2>2, SettingsAssumption DEF DeleteLicence, PlanBody
  <2> QED BY <2>1, <2>2
<1>4. SettledAs(c, "ok", got)
  BY <1>1, <1>3, AnswerSettles DEF PlanBody
<1>5. /\ CallsShape' /\ Out(c)' /\ Others(c)
      /\ calls'[c].op = calls[c].op /\ calls'[c].arg = calls[c].arg
      /\ calls'[c].at = "ok" /\ calls'[c].got = got
  BY <1>1, <1>4, SettledOut DEF SettledAs
<1>6. PlanCall(calls'[c])
  BY <1>1, <1>2, <1>5 DEF PlanCall
<1>7. ASSUME Alone PROVE PlanComes(calls[c])'
  <2>1. Current(ui, server)
    BY <1>1, <1>7 DEF PlanBody, PlanComes
  <2>2. got = Nothing => Current(ui, server)'
    BY <1>1, <1>3, <2>1 DEF Current
  <2> QED BY <1>1, <1>5, <2>2 DEF PlanComes
<1> QED BY <1>1, <1>3, <1>5, <1>6, <1>7, PlanSettles DEF PlanBody, Alone, Out

(* What comes back leaves its slot, or loads. *)
LEMMA PlanLoads ==
    ASSUME PlanBody, NEW c \in Slots, Out(c), NEW of, NEW k,
           calls' = [calls EXCEPT ![c] = Requests("load", [of |-> of, k |-> k])],
           UNCHANGED <<ui, server, faults, outside>>
    PROVE  PlanBody'
<1>1. PICK r : r = [op |-> "load", arg |-> [of |-> of, k |-> k], at |-> "each", got |-> Nothing]
  OBVIOUS
<1>2. Requests("load", [of |-> of, k |-> k]) = r /\ IsCall(r) /\ r # Free
  BY <1>1 DEF Requests, Request, IsCall, Free
<1>3. CallsShape' /\ calls'[c] = r /\ Others(c)
  BY <1>2 DEF PlanBody, CallsShape, Others, Slots
<1>4. PlanCall(r)
  BY <1>1 DEF PlanCall
<1>5. PlanComes(calls[c])'
  BY <1>1, <1>3 DEF PlanComes
<1> QED BY <1>2, <1>3, <1>4, <1>5, PlanSettles DEF PlanBody, Alone

LEMMA PlanLeft ==
    ASSUME PlanBody, NEW c \in Slots, Out(c), Done(c), PlanUi(ui'), ui'.crossed = ui.crossed,
           Alone => Current(ui', server'), UNCHANGED <<server, faults, outside>>
    PROVE  PlanBody'
<1>1. LeftWith(c, Free)
  BY DoneLeaves DEF PlanBody
<1>2. /\ CallsShape' /\ calls'[c] = Free /\ ~Out(c)'
      /\ \A d \in Slots \ {c} : calls'[d] = calls[d] /\ (Out(d)' <=> Out(d))
  BY <1>1, LeftOut
<1>3. Alone' => \A d \in Slots : ~Out(d)'
  BY <1>2 DEF PlanBody, Alone
<1>4. \A d \in Slots : Out(d)' => PlanCall(calls'[d])
  BY <1>2 DEF PlanBody
<1>5. Alone' => Current(ui, server)'
  BY DEF Alone, Current
<1> QED BY <1>2, <1>3, <1>4, <1>5 DEF PlanBody, PlanCall, Slots

LEMMA RelistIs ==
    ASSUME NEW p, PlanUi(p), NEW list \in SUBSET Items, NEW u, u = Relist(p, list)
    PROVE  PlanUi(u) /\ u.list = list /\ u.crossed = p.crossed /\ u.plan = p.plan
<1>1. PICK pop : pop = [open |-> IF p.pop.open \in list THEN p.pop.open ELSE Nothing,
                        busy |-> p.pop.busy \cap list, err |-> p.pop.err \cap list]
  OBVIOUS
<1>2. PopIs(pop)
  BY <1>1 DEF PopIs, PlanUi
<1>3. u = [p EXCEPT !.list = list, !.pop = pop]
  BY <1>1 DEF Relist, PlanUi, PlanFields
<1> QED BY <1>2, <1>3 DEF PlanUi, PlanFields

LEMMA TurnedDownIs ==
    ASSUME NEW p, PlanUi(p), NEW k \in Items, NEW u, u = TurnedDown(p, k)
    PROVE  PlanUi(u) /\ u.list = p.list /\ u.crossed = p.crossed /\ u.plan = p.plan
<1>1. CASE k \notin OfList(p)
  BY <1>1 DEF TurnedDown
<1>2. CASE k \in OfList(p)
  <2>1. PICK pop : pop = [open |-> IF p.pop.open = k THEN Nothing ELSE p.pop.open,
                          busy |-> p.pop.busy \ {k}, err |-> p.pop.err \cup {k}]
    OBVIOUS
  <2>2. PopIs(pop)
    BY <2>1 DEF PopIs, PlanUi
  <2>3. u = [p EXCEPT !.pop = pop]
    BY <1>2, <2>1 DEF TurnedDown, PlanUi, PlanFields
  <2> QED BY <2>2, <2>3 DEF PlanUi, PlanFields
<1> QED BY <1>1, <1>2

LEMMA PlanReturns ==
    ASSUME PlanBody, NEW c \in Slots, LicencesLoaded(c)
    PROVE  PlanBody'
<1>1. calls[c].op = "load" /\ Out(c) /\ Done(c) /\ UNCHANGED <<server, faults, outside>> /\ calls[c].at \in {"ok", "failed"}
  BY DEF LicencesLoaded, Back, Ok, Failed, Out, Free, Only
<1>2. PICK a, v :
        /\ a = calls[c].arg
        /\ v = IF Ok(c, "load") THEN [Relist(ui, calls[c].got.list) EXCEPT !.plan = calls[c].got.plan]
               ELSE LoadFails
  OBVIOUS
<1>3. PlanUi(v) /\ v.crossed = ui.crossed /\ (Ok(c, "load") => v.plan = calls[c].got.plan /\ v.list = calls[c].got.list)
  <2>1. CASE Ok(c, "load")
    <3>1. calls[c].got.list \in SUBSET Items
      BY <1>1, <2>1 DEF PlanBody, PlanCall, Half, Ok
    <3>2. PICK w : w = Relist(ui, calls[c].got.list)
      OBVIOUS
    <3>3. PlanUi(w) /\ w.list = calls[c].got.list /\ w.crossed = ui.crossed
      BY <3>1, <3>2, RelistIs DEF PlanBody
    <3>4. v = [w EXCEPT !.plan = calls[c].got.plan]
      BY <1>2, <2>1, <3>2
    <3> QED BY <3>3, <3>4 DEF PlanUi, PlanFields
  <2>2. CASE ~Ok(c, "load")
    <3>1. PICK pop : pop = [open |-> Nothing, busy |-> {}, err |-> {}]
      OBVIOUS
    <3>2. PopIs(pop)
      BY <3>1 DEF PopIs
    <3>3. v = [ui EXCEPT !.loadErr = TRUE, !.pop = pop]
      BY <1>2, <2>2, <3>1 DEF LoadFails, Popovers
    <3> QED BY <2>2, <3>2, <3>3 DEF PlanUi, PlanFields, PlanBody
  <2> QED BY <2>1, <2>2
<1>4. ui' = [v EXCEPT !.busy = @ /\ a.of # "add",
                      !.pop.busy = IF a.of = "remove" THEN @ \ {a.k} ELSE @]
  BY <1>2 DEF LicencesLoaded, Page
<1>5. PICK busy, held, pop :
        /\ busy = (v.busy /\ a.of # "add") /\ busy \in BOOLEAN
        /\ held = IF a.of = "remove" THEN v.pop.busy \ {a.k} ELSE v.pop.busy
        /\ pop = [v.pop EXCEPT !.busy = held]
  OBVIOUS
<1>6. PopIs(pop)
  BY <1>3, <1>5 DEF PlanUi, PopIs
<1>7. ui' = [v EXCEPT !.busy = busy, !.pop = pop]
  BY <1>3, <1>4, <1>5 DEF PlanUi, PlanFields
<1>8. PlanUi(ui') /\ ui'.crossed = v.crossed /\ ui'.plan = v.plan /\ ui'.list = v.list
  BY <1>3, <1>5, <1>6, <1>7 DEF PlanUi, PlanFields
<1>9. ASSUME Alone PROVE Current(ui', server')
  <2>1. PlanComes(calls[c])
    BY <1>1, <1>9 DEF PlanBody
  <2>2. Ok(c, "load") /\ Current(calls[c].got, server)
    BY <1>1, <2>1 DEF PlanComes, Ok
  <2> QED BY <1>1, <1>3, <1>8, <2>2 DEF Current
<1> QED BY <1>1, <1>3, <1>8, <1>9, PlanLeft

LEMMA ChangeReturns ==
    ASSUME PlanBody, NEW c \in Slots, KeyAdded(c) \/ Removed(c)
    PROVE  PlanBody'
<1>1. /\ calls[c].op \in {"add", "remove"} /\ Out(c) /\ calls[c].arg \in Items
      /\ UNCHANGED <<server, faults, outside>>
  BY DEF KeyAdded, Removed, Back, Ok, Failed, Out, Free, Only, PlanBody, PlanCall
<1>2. CASE calls[c].got # Nothing
  BY <1>1, <1>2, PlanLoads DEF KeyAdded, Removed
<1>3. CASE calls[c].got = Nothing
  <2>1. Alone => Current(ui, server)
    BY <1>1, <1>3 DEF PlanBody, PlanComes
  <2>2. PlanUi(ui') /\ ui'.crossed = ui.crossed /\ ui'.plan = ui.plan /\ ui'.list = ui.list /\ Done(c)
    <3>1. CASE KeyAdded(c)
      BY <1>3, <3>1 DEF KeyAdded, Page, PlanBody, PlanUi, PlanFields
    <3>2. CASE Removed(c)
      BY <1>1, <1>3, <3>2, TurnedDownIs DEF Removed, Page, PlanBody
    <3> QED BY <3>1, <3>2
  <2>3. Alone => Current(ui', server')
    BY <1>1, <2>1, <2>2 DEF Current
  <2> QED BY <1>1, <2>2, <2>3, PlanLeft
<1> QED BY <1>2, <1>3

LEMMA PlanFails ==
    ASSUME PlanBody, NEW c \in Slots, Fail(c)
    PROVE  PlanBody'
<1>1. /\ SettledAs(c, "failed", Nothing) /\ Out(c) /\ UNCHANGED <<ui, server, outside>> /\ faults' = faults + 1
  BY FailSettles DEF Out, PlanBody, Fail
<1>2. calls[c].op # "none" /\ PlanCall(calls[c])
  BY <1>1 DEF PlanBody, PlanCall
<1>3. /\ CallsShape' /\ Out(c)' /\ Others(c)
      /\ calls'[c].op = calls[c].op /\ calls'[c].arg = calls[c].arg
      /\ calls'[c].at = "failed" /\ calls'[c].got = Nothing
  BY <1>1, <1>2, SettledOut DEF SettledAs
<1>4. PlanCall(calls'[c])
  BY <1>2, <1>3 DEF PlanCall
<1>5. faults' \in Nat /\ ~Alone'
  BY <1>1 DEF PlanBody, Alone
<1>6. \A d \in Slots \ {c} : calls'[d] = calls[d] /\ (Out(d)' <=> Out(d))
  BY <1>3 DEF Others, Out
<1> QED BY <1>1, <1>3, <1>4, <1>5, <1>6 DEF PlanBody, PlanCall

LEMMA PlanKeeps ==
    ASSUME OnLicences, PlanBody, LicencesNext \/ Fails \/ UNCHANGED vars
    PROVE  PlanBody'
<1> USE DEF Page, Only
<1>1. CASE LeavePopover
  <2>1. ui' = [ui EXCEPT !.pop.open = Nothing] /\ UNCHANGED <<server, calls, faults, outside>>
    BY <1>1 DEF LeavePopover
  <2>2. PICK pop : pop = [ui.pop EXCEPT !.open = Nothing]
    OBVIOUS
  <2>3. PopIs(pop)
    BY <2>2 DEF PopIs, PlanBody, PlanUi
  <2>4. ui' = [ui EXCEPT !.pop = pop]
    BY <2>1, <2>2 DEF PlanBody, PlanUi, PlanFields
  <2>5. PlanUi(ui') /\ ui'.list = ui.list /\ ui'.plan = ui.plan /\ ui'.crossed = ui.crossed
    BY <2>3, <2>4 DEF PlanBody, PlanUi, PlanFields
  <2> QED BY <2>1, <2>5, PlanEdits
<1>2. CASE Confirm
  <2>1. PICK k : k = ui.pop.open
    OBVIOUS
  <2>2. k \in Items /\ ~ui.crossed /\ Fetch("remove", k) /\ UNCHANGED <<server, faults, outside>>
    BY <1>2, <2>1 DEF Confirm, PlanBody, PlanUi, PopIs
  <2>3. PICK busy, err, crossed :
          /\ busy = ui.pop.busy \cup {k} /\ err = ui.pop.err \ {k}
          /\ crossed = (ui.crossed \/ ~Quiet) /\ crossed \in BOOLEAN
    OBVIOUS
  <2>4. PICK one : one = [ui.pop EXCEPT !.busy = busy]
    OBVIOUS
  <2>5. one = [open |-> k, busy |-> busy, err |-> ui.pop.err]
    BY <2>1, <2>4 DEF PlanBody, PlanUi, PopIs
  <2>6. PICK pop : pop = [one EXCEPT !.err = err]
    OBVIOUS
  <2>7. ui' = [ui EXCEPT !.pop = pop, !.crossed = crossed]
    BY <1>2, <2>1, <2>3, <2>4, <2>6 DEF Confirm, PlanBody, PlanUi, PlanFields
  <2>8. pop = [open |-> k, busy |-> busy, err |-> err]
    BY <2>5, <2>6
  <2>9. PopIs(pop)
    BY <2>2, <2>3, <2>8 DEF PlanBody, PlanUi, PopIs
  <2>10. /\ ui' = [f \in PlanFields |-> ui'[f]] /\ ui'.pop = pop /\ ui'.list = ui.list /\ ui'.plan = ui.plan
         /\ ui'.crossed = crossed /\ ui'.loadErr = ui.loadErr /\ ui'.busy = ui.busy
    BY <2>7 DEF PlanBody, PlanUi, PlanFields
  <2>11. PlanUi(ui')
    BY <2>3, <2>9, <2>10 DEF PlanBody, PlanUi
  <2>12. ui'.crossed <=> ~Quiet
    BY <2>2, <2>3, <2>10
  <2> QED BY <2>2, <2>10, <2>11, <2>12, PlanTaken
<1>3. CASE PollerRevokes
  <2>1. PICK k \in Items : Elsewhere([server EXCEPT ![k] = "revoked"])
    BY <1>3 DEF PollerRevokes
  <2>2. /\ server' \in [Items -> {"none", "active", "revoked"}] /\ outside' \in Nat /\ outside' # 0
        /\ UNCHANGED <<ui, calls, faults>>
    BY <2>1 DEF Elsewhere, PlanBody
  <2> QED BY <2>2 DEF PlanBody, PlanUi, PlanCall, CallsShape, Slots, Out, Alone
<1>4. ASSUME NEW k \in Items, TogglePopover(k) PROVE PlanBody'
  <2>1. PICK open, err : open = (IF ui.pop.open = k THEN Nothing ELSE k) /\ err = ui.pop.err \ {k}
    OBVIOUS
  <2>2. PICK one : one = [ui.pop EXCEPT !.open = open]
    OBVIOUS
  <2>3. one = [open |-> open, busy |-> ui.pop.busy, err |-> ui.pop.err]
    BY <2>2 DEF PlanBody, PlanUi, PopIs
  <2>4. PICK pop : pop = [one EXCEPT !.err = err]
    OBVIOUS
  <2>5. ui' = [ui EXCEPT !.pop = pop] /\ UNCHANGED <<server, calls, faults, outside>>
    BY <1>4, <2>1, <2>2, <2>4 DEF TogglePopover, PlanBody, PlanUi, PlanFields
  <2>6. pop = [open |-> open, busy |-> ui.pop.busy, err |-> err]
    BY <2>3, <2>4
  <2>7. PopIs(pop)
    BY <2>1, <2>6 DEF PlanBody, PlanUi, PopIs
  <2>8. PlanUi(ui') /\ ui'.list = ui.list /\ ui'.plan = ui.plan /\ ui'.crossed = ui.crossed
    BY <2>5, <2>7 DEF PlanBody, PlanUi, PlanFields
  <2> QED BY <2>5, <2>8, PlanEdits
<1>5. ASSUME NEW k \in Items, AddKey(k) PROVE PlanBody'
  <2>1. PICK crossed : crossed = (ui.crossed \/ ~Quiet) /\ crossed \in BOOLEAN
    OBVIOUS
  <2>2. /\ ui' = [ui EXCEPT !.busy = TRUE, !.crossed = crossed] /\ UNCHANGED <<server, faults, outside>>
        /\ ~ui.crossed /\ Fetch("add", k)
    BY <1>5, <2>1 DEF AddKey, PlanBody, PlanUi, PlanFields
  <2>3. PlanUi(ui') /\ ui'.list = ui.list /\ ui'.plan = ui.plan /\ ui'.crossed = crossed
    BY <2>1, <2>2 DEF PlanBody, PlanUi, PlanFields
  <2> QED BY <2>1, <2>2, <2>3, PlanTaken
<1>6. CASE UNCHANGED vars
  <2>1. UNCHANGED <<ui, server, calls, faults, outside>>
    BY <1>6 DEF vars
  <2> QED BY <2>1, PlanEdits DEF PlanBody
<1> QED BY <1>1, <1>2, <1>3, <1>4, <1>5, <1>6, HalfServed, ChangeServed, PlanReturns, ChangeReturns,
           PlanFails DEF LicencesNext, Fails

LEMMA PlanHolds ==
    /\ Init => PlanInv
    /\ PlanInv /\ [Next]_vars => PlanInv'
    /\ PlanInv =>
         /\ PlanIsCurrent
         /\ OnLicences =>
              /\ ui.list = Nothing \/ ui.list \subseteq Items
              /\ ui.pop.open \in Items \cup {Nothing} /\ ui.pop.busy \cup ui.pop.err \subseteq Items
              /\ {ui.loadErr, ui.crossed} \subseteq BOOLEAN
              /\ server \in [Items -> {"none", "active", "revoked"}] /\ ui.busy \in BOOLEAN
<1>1. Init => PlanInv
  BY OpensOn, PlanStarts DEF PlanInv
<1>2. PlanInv /\ [Next]_vars => PlanInv'
  BY TakesStep, PlanKeeps, PagesStay DEF PlanInv, OnLicences
<1>3. PlanInv => PlanIsCurrent
  BY QuietIs DEF PlanInv, PlanBody, PlanIsCurrent, Alone, Current
<1> QED BY <1>1, <1>2, <1>3 DEF PlanInv, PlanBody, PlanUi, PopIs
-----------------------------------------------------------------------------
(* What a page shows of a field that it saves, and what the API holds of    *)
(* it: with one save out at a time they agree until it is served, and it is *)
(* what the save asked for once it is.                                      *)

FieldFits(op, shown, held) ==
    /\ \A c, d \in OutAs(op) : c = d
    /\ OutAs(op) = {} => shown = held
    /\ \A c \in OutAs(op) : IF calls[c].got = Nothing THEN shown = held ELSE held = calls[c].arg

LEMMA FitsTaken ==
    ASSUME NEW op, op # "none", NEW shown, NEW held, FieldFits(op, shown, held),
           NEW s, NEW r, TakenBy(s, r), r.op = op => OutAs(op) = {} /\ r.got = Nothing
    PROVE  FieldFits(op, shown, held)'
<1>1. CASE r.op = op
  <2>1. OutAs(op)' = {s} /\ calls'[s] = r
    BY <1>1, OutTaken DEF TakenBy
  <2> QED BY <1>1, <2>1 DEF FieldFits
<1>2. CASE r.op # op
  <2>0. /\ OutAs(op)' = OutAs(op) \ {s} /\ s \notin OutAs(op)
        /\ \A c \in OutAs(op) \ {s} : calls'[c] = calls[c]
    BY <1>2, OutTaken
  <2>1. OutAs(op)' = OutAs(op) /\ \A c \in OutAs(op) : calls'[c] = calls[c]
    BY <2>0
  <2> QED BY <2>1 DEF FieldFits
<1> QED BY <1>1, <1>2

LEMMA FitsSettled ==
    ASSUME NEW op, op # "none", NEW shown, NEW held, NEW new, FieldFits(op, shown, held),
           NEW c \in Slots, NEW at, NEW got, SettledAs(c, at, got),
           IF calls[c].op = op /\ got # Nothing THEN new = calls[c].arg
           ELSE new = held /\ (calls[c].op = op => calls[c].got = Nothing)
    PROVE  FieldFits(op, shown, new)'
<1>1. OutAs(op)' = OutAs(op) /\ (c \in OutAs(op) <=> calls[c].op = op)
  BY OutSettled DEF OutAs
<1>2. CASE calls[c].op = op
  <2>1. OutAs(op)' = {c} /\ calls'[c].arg = calls[c].arg /\ calls'[c].got = got
    BY <1>1, <1>2 DEF FieldFits, SettledAs
  <2>2. got = Nothing => shown = new
    BY <1>1, <1>2 DEF FieldFits
  <2> QED BY <1>2, <2>1, <2>2 DEF FieldFits
<1>3. CASE calls[c].op # op
  <2>1. new = held /\ \A d \in OutAs(op) : calls'[d] = calls[d]
    BY <1>1, <1>3 DEF SettledAs, Others, OutAs
  <2> QED BY <1>1, <2>1 DEF FieldFits
<1> QED BY <1>2, <1>3

LEMMA FitsLeft ==
    ASSUME NEW op, op # "none", NEW shown, NEW held, NEW new, FieldFits(op, shown, held),
           NEW c \in Slots, LeftWith(c, Free),
           new = IF calls[c].op = op /\ calls[c].got # Nothing THEN calls[c].arg ELSE shown
    PROVE  FieldFits(op, new, held)'
<1>1. OutAs(op)' = OutAs(op) \ {c} /\ \A d \in OutAs(op) \ {c} : calls'[d] = calls[d]
  BY OutLeft DEF Free
<1>2. c \in OutAs(op) <=> calls[c].op = op
  BY DEF OutAs
<1>3. CASE calls[c].op = op
  <2>1. OutAs(op)' = {} /\ new = held
    BY <1>1, <1>2, <1>3 DEF FieldFits
  <2> QED BY <2>1 DEF FieldFits
<1>4. CASE calls[c].op # op
  BY <1>1, <1>2, <1>4 DEF FieldFits
<1> QED BY <1>3, <1>4
-----------------------------------------------------------------------------
(* The strip.  An end or a delete that was answered has happened at the     *)
(* API, where neither is undone; title and model fit what is out.           *)

StripTypes(u) ==
    /\ StripUi(u) /\ u.meta \in StripMeta /\ u.draft \in {"t0", "t1"}
    /\ u.confirm \in {Nothing, "end", "delete"} /\ u.err \in {Nothing, "end", "delete"}
    /\ u.busy \in BOOLEAN /\ u.field \in BOOLEAN /\ u.switching \in BOOLEAN /\ u.crossed \in BOOLEAN
Happened(kind) == server.status = "gone" \/ (kind = "end" /\ server.status # "live")
StripCall(r) ==
    /\ r.op \in {"confirmed", "retitle", "model"} /\ r.at \in {"sent", "ok", "failed"}
    /\ r.at # "ok" => r.got = Nothing
    /\ r.op = "confirmed" => r.arg \in {"end", "delete"} /\ (r.got # Nothing => Happened(r.arg))
    /\ r.op = "retitle" => r.arg \in {"t0", "t1"}
    /\ r.op = "model" => r.arg \in {"m0", "m1"}
Ahead == (ui.meta.status = "ended" /\ ~Happened("end")) \/ (ui.meta.status = "gone" /\ ~Happened("delete"))
StripShows ==
    /\ StripTypes(ui) /\ server \in StripHeld /\ faults \in Nat /\ ~Ahead
    /\ \A c \in Slots : Out(c) => StripCall(calls[c])
    /\ faults = 0 => FieldFits("model", ui.meta.model, server.told)
    /\ faults = 0 /\ ~ui.crossed => FieldFits("retitle", ui.meta.title, server.title)
StripShowsInv == OnStrip => StripBody /\ StripShows

LEMMA StripShowsFirst == StripInit => StripShows
<1> SUFFICES ASSUME StripInit PROVE StripShows
  OBVIOUS
<1>1. PICK meta : meta = [status |-> "live", title |-> "t0", model |-> "m0"]
  OBVIOUS
<1>2. /\ ui = [meta |-> meta, confirm |-> Nothing, busy |-> FALSE, err |-> Nothing,
               field |-> FALSE, draft |-> "t0", switching |-> FALSE, crossed |-> FALSE]
      /\ server = [status |-> "live", title |-> "t0", told |-> "m0"]
      /\ calls = [NoCalls EXCEPT ![1] = Free] /\ faults = 0
  BY <1>1 DEF StripInit, Opens
<1>3. \A c \in Slots : calls[c] = Free
  BY <1>2 DEF NoCalls
<1>4. meta \in StripMeta
  BY <1>1 DEF StripMeta
<1>5. StripTypes(ui)
  BY <1>2, <1>4 DEF StripTypes, StripUi, StripFields
<1>6. ~Ahead /\ server \in StripHeld
  BY <1>1, <1>2 DEF Ahead, StripHeld
<1>7. OutAs("model") = {} /\ OutAs("retitle") = {}
  BY <1>3 DEF OutAs, Free
<1>8. ui.meta.model = server.told /\ ui.meta.title = server.title
  BY <1>1, <1>2
<1> QED BY <1>2, <1>3, <1>5, <1>6, <1>7, <1>8 DEF StripShows, FieldFits, Out

(* What has happened stays so. *)
LEMMA StaysHappened ==
    ASSUME server.status # "live" => server'.status # "live", server.status = "gone" => server'.status = "gone"
    PROVE  /\ \A kind : Happened(kind) => Happened(kind)'
           /\ \A r : StripCall(r) => StripCall(r)'
BY DEF Happened, StripCall

(* A step that neither sends nor receives. *)
LEMMA StripStill ==
    ASSUME StripShows, StripTypes(ui'), ui'.crossed = ui.crossed, ~Ahead',
           ui'.meta.title = ui.meta.title, ui'.meta.model = ui.meta.model,
           server' \in StripHeld, server'.title = server.title, server'.told = server.told,
           server.status # "live" => server'.status # "live", server.status = "gone" => server'.status = "gone",
           UNCHANGED <<calls, faults>>
    PROVE  StripShows'
<1>1. \A c \in Slots : Out(c)' => StripCall(calls[c])'
  BY StaysHappened DEF StripShows, Out
<1>2. \A op : OutAs(op)' = OutAs(op)
  BY DEF OutAs, Slots
<1>3. \A op, shown, held : FieldFits(op, shown, held) <=> FieldFits(op, shown, held)'
  BY <1>2 DEF FieldFits
<1>4. PICK title, model, theirs, runs : /\ title = ui.meta.title /\ theirs = server.title
                                        /\ model = ui.meta.model /\ runs = server.told
  OBVIOUS
<1>5. /\ ui'.meta.title = title /\ server'.title = theirs
      /\ ui'.meta.model = model /\ server'.told = runs
  BY <1>4
<1>6. faults = 0 => FieldFits("model", model, runs)'
  BY <1>3, <1>4 DEF StripShows
<1>7. faults = 0 /\ ~ui.crossed => FieldFits("retitle", title, theirs)'
  BY <1>3, <1>4 DEF StripShows
<1> QED BY <1>1, <1>5, <1>6, <1>7 DEF StripShows

(* A request goes out.                                                      *)
LEMMA StripSent ==
    ASSUME StripBody, StripShows, NEW op \in {"confirmed", "retitle", "model"}, NEW arg, NEW p,
           Sends(p, op, arg), op = "model" => OutAs("model") = {},
           StripTypes(p), p.meta = ui.meta, p.crossed = ui.crossed, faults' = faults,
           op = "confirmed" => arg \in {"end", "delete"},
           op = "retitle" => arg \in {"t0", "t1"}, op = "model" => arg \in {"m0", "m1"}
    PROVE  StripShows'
<1>1. PICK crossed : crossed = (p.crossed \/ OutAs(op) # {}) /\ crossed \in BOOLEAN
  OBVIOUS
<1>2. ui' = [p EXCEPT !.crossed = crossed] /\ server' = server
  BY <1>1 DEF Sends, Page, Only, StripTypes, StripUi, StripFields
<1>3. StripTypes(ui') /\ ui'.meta = ui.meta /\ ui'.crossed = crossed
  BY <1>1, <1>2 DEF StripTypes, StripUi, StripFields
<1>4. PICK r : r = [op |-> op, arg |-> arg, at |-> "sent", got |-> Nothing]
  OBVIOUS
<1>5. PICK s \in Slots : TakenBy(s, r)
  BY <1>4, FetchTakes DEF Sends, Request, StripBody
<1>6. /\ calls'[s] = r /\ \A d \in Slots \ {s} : calls'[d] = calls[d] /\ (Out(d)' <=> Out(d))
  BY <1>4, <1>5, TakenOut DEF Free
<1>7. StripCall(r)'
  BY <1>4 DEF StripCall
<1>8. \A d \in Slots : Out(d)' => StripCall(calls[d])'
  BY <1>2, <1>6, <1>7, StaysHappened DEF StripShows
<1>9. ~Ahead'
  BY <1>2, <1>3 DEF StripShows, Ahead, Happened
<1>10. PICK title, model, theirs, runs : /\ title = ui.meta.title /\ theirs = server.title
                                         /\ model = ui.meta.model /\ runs = server.told
  OBVIOUS
<1>11. ASSUME faults' = 0 PROVE FieldFits("model", ui.meta.model, server.told)'
  <2>1. FieldFits("model", model, runs)
    BY <1>10, <1>11 DEF StripShows
  <2>2. FieldFits("model", model, runs)'
    BY <1>4, <1>5, <2>1, FitsTaken
  <2> QED BY <1>2, <1>3, <1>10, <2>2
<1>12. ASSUME faults' = 0, ~ui'.crossed PROVE FieldFits("retitle", ui.meta.title, server.title)'
  <2>1. ~ui.crossed /\ (op = "retitle" => OutAs("retitle") = {})
    BY <1>1, <1>3, <1>12
  <2>2. FieldFits("retitle", title, theirs)
    BY <1>10, <1>12, <2>1 DEF StripShows
  <2>3. FieldFits("retitle", title, theirs)'
    BY <1>4, <1>5, <2>1, <2>2, FitsTaken
  <2> QED BY <1>2, <1>3, <1>10, <2>3
<1> QED BY <1>2, <1>3, <1>8, <1>9, <1>11, <1>12 DEF StripShows

(* One is served, or refused.                                               *)
LEMMA StripServed ==
    ASSUME StripBody, StripShows, NEW c \in Slots, ServeConfirmed(c) \/ ServeRetitle(c) \/ ServeModel(c)
    PROVE  StripShows'
<1> DEFINE op == calls[c].op
           arg == calls[c].arg
<1>1. /\ op \in {"confirmed", "retitle", "model"} /\ op # "none" /\ calls[c].at = "sent" /\ Out(c)
      /\ UNCHANGED <<ui, faults>>
  BY DEF ServeConfirmed, ServeRetitle, ServeModel, Sent, Only, Out, Free
<1>2. StripCall(calls[c]) /\ calls[c].got = Nothing
  BY <1>1 DEF StripShows, StripCall
<1>12. PICK kind : kind = arg
  OBVIOUS
<1>3. PICK got :
        /\ Answer(c, got) /\ server' \in StripHeld
        /\ server.status # "live" => server'.status # "live"
        /\ server.status = "gone" => server'.status = "gone"
        /\ op = "confirmed" /\ got # Nothing => Happened(kind)'
        /\ IF op = "retitle" /\ got # Nothing THEN server'.title = arg ELSE server'.title = server.title
        /\ IF op = "model" /\ got # Nothing THEN server'.told = arg ELSE server'.told = server.told
  <2>1. CASE op = "confirmed"
    <3>1. CASE arg = "end" /\ server.status = "gone"
      BY <2>1, <3>1 DEF ServeConfirmed, ServeRetitle, ServeModel, Sent, StripShows
    <3>2. CASE ~(arg = "end" /\ server.status = "gone")
      <4>1. PICK status : status = (IF arg = "end" THEN "ended" ELSE "gone")
        OBVIOUS
      <4>2. server' = [server EXCEPT !.status = status] /\ Answer(c, "done")
        BY <2>1, <3>2, <4>1 DEF ServeConfirmed, ServeRetitle, ServeModel, Sent
      <4>3. server' \in StripHeld /\ server'.status = status /\ server'.title = server.title /\ server'.told = server.told
        BY <4>1, <4>2 DEF StripShows, StripHeld
      <4>4. arg \in {"end", "delete"}
        BY <1>2, <2>1 DEF StripCall
      <4>5. Happened(kind)'
        BY <1>12, <4>1, <4>3, <4>4 DEF Happened
      <4>6. /\ server.status # "live" => status # "live"
            /\ server.status = "gone" => status = "gone"
        BY <3>2, <4>1, <4>4
      <4> QED BY <2>1, <4>2, <4>3, <4>5, <4>6
    <3> QED BY <3>1, <3>2
  <2>2. CASE op = "retitle"
    <3>1. CASE server.status = "gone"
      BY <2>2, <3>1 DEF ServeConfirmed, ServeRetitle, ServeModel, Sent, StripShows
    <3>2. CASE server.status # "gone"
      <4>1. server' = [server EXCEPT !.title = arg] /\ Answer(c, "done") /\ arg \in {"t0", "t1"}
        BY <1>2, <2>2, <3>2 DEF ServeConfirmed, ServeRetitle, ServeModel, Sent, StripCall
      <4>2. /\ server' \in StripHeld /\ server'.title = arg /\ server'.status = server.status
            /\ server'.told = server.told
        BY <4>1 DEF StripShows, StripHeld
      <4> QED BY <2>2, <4>1, <4>2, StripAssumption
    <3> QED BY <3>1, <3>2
  <2>3. CASE op = "model"
    <3>1. CASE Answer(c, Nothing) /\ UNCHANGED server
      BY <2>3, <3>1 DEF StripShows
    <3>2. CASE server' = [server EXCEPT !.told = arg] /\ Answer(c, "done")
      <4>1. server' = [server EXCEPT !.told = arg] /\ Answer(c, "done") /\ arg \in {"m0", "m1"}
        BY <1>2, <2>3, <3>2 DEF StripCall
      <4>2. /\ server' \in StripHeld /\ server'.title = server.title /\ server'.status = server.status
            /\ server'.told = arg
        BY <4>1 DEF StripShows, StripHeld
      <4> QED BY <2>3, <4>1, <4>2, StripAssumption
    <3> QED BY <2>3, <3>1, <3>2 DEF ServeConfirmed, ServeRetitle, ServeModel, Sent
  <2> QED BY <1>1, <2>1, <2>2, <2>3
<1>4. SettledAs(c, "ok", got)
  BY <1>1, <1>3, AnswerSettles DEF StripBody
<1>5. /\ calls'[c].op = op /\ calls'[c].arg = arg /\ calls'[c].at = "ok" /\ calls'[c].got = got
      /\ \A d \in Slots \ {c} : calls'[d] = calls[d] /\ (Out(d)' <=> Out(d))
  BY <1>1, <1>4, SettledOut
<1>6. StripCall(calls[c])'
  <2>1. op = "confirmed" /\ got # Nothing => Happened(calls[c].arg)'
    BY <1>3, <1>5, <1>12 DEF Happened
  <2> QED BY <1>2, <1>5, <2>1 DEF StripCall, Happened
<1>7. \A d \in Slots : Out(d)' => StripCall(calls[d])'
  BY <1>3, <1>5, <1>6, StaysHappened DEF StripShows
<1>8. ~Ahead'
  BY <1>1, <1>3, StaysHappened DEF StripShows, Ahead
<1>9. PICK title, model, theirs, runs, title1, runs1 :
        /\ title = ui.meta.title /\ theirs = server.title /\ title1 = server'.title
        /\ model = ui.meta.model /\ runs = server.told /\ runs1 = server'.told
  OBVIOUS
<1>10. ASSUME faults' = 0 PROVE FieldFits("model", ui.meta.model, server.told)'
  <2>1. FieldFits("model", model, runs)
    BY <1>1, <1>9, <1>10 DEF StripShows
  <2>2. FieldFits("model", model, runs1)'
    BY <1>2, <1>3, <1>4, <1>9, <2>1, FitsSettled
  <2> QED BY <1>1, <1>9, <2>2
<1>11. ASSUME faults' = 0, ~ui'.crossed PROVE FieldFits("retitle", ui.meta.title, server.title)'
  <2>1. FieldFits("retitle", title, theirs)
    BY <1>1, <1>9, <1>11 DEF StripShows
  <2>2. FieldFits("retitle", title, title1)'
    BY <1>2, <1>3, <1>4, <1>9, <2>1, FitsSettled
  <2> QED BY <1>1, <1>9, <2>2
<1> QED BY <1>1, <1>3, <1>7, <1>8, <1>10, <1>11 DEF StripShows

(* One comes back. *)
LEMMA StripReceived ==
    ASSUME StripBody, StripShows, NEW c \in Slots, ConfirmedStrip(c) \/ Retitled(c) \/ ModelAnswered(c)
    PROVE  StripShows'
<1> DEFINE op == calls[c].op
           arg == calls[c].arg
<1>1. /\ op \in {"confirmed", "retitle", "model"} /\ Out(c) /\ Done(c) /\ UNCHANGED <<server, faults>>
  BY DEF ConfirmedStrip, Retitled, ModelAnswered, Back, Ok, Failed, Only, Out, Free
<1>2. StripCall(calls[c])
  BY <1>1 DEF StripShows
<1>3. LeftWith(c, Free)
  BY <1>1, DoneLeaves DEF StripBody
<1>4. ~Out(c)' /\ \A d \in Slots \ {c} : calls'[d] = calls[d] /\ (Out(d)' <=> Out(d))
  BY <1>3, LeftOut
<1>5. /\ StripTypes(ui') /\ ui'.crossed = ui.crossed
      /\ ui'.meta.status # ui.meta.status =>
           /\ op = "confirmed" /\ calls[c].got # Nothing
           /\ ui'.meta.status = IF arg = "end" THEN "ended" ELSE "gone"
      /\ ui'.meta.title = IF op = "retitle" /\ calls[c].got # Nothing THEN arg ELSE ui.meta.title
      /\ ui'.meta.model = IF op = "model" /\ calls[c].got # Nothing THEN arg ELSE ui.meta.model
  <2>1. CASE op = "confirmed"
    <3>1. arg \in {"end", "delete"}
      BY <1>2, <2>1 DEF StripCall
    <3>2. CASE calls[c].got # Nothing
      <4>1. PICK status : status = (IF arg = "end" THEN "ended" ELSE "gone")
        OBVIOUS
      <4>2. PICK meta : meta = [ui.meta EXCEPT !.status = status]
        OBVIOUS
      <4>3. meta \in StripMeta /\ meta.status = status /\ meta.title = ui.meta.title /\ meta.model = ui.meta.model
        BY <4>1, <4>2 DEF StripShows, StripTypes, StripMeta
      <4>4. ui' = [ui EXCEPT !.busy = FALSE, !.confirm = Nothing, !.meta = meta]
        BY <2>1, <3>2, <4>1, <4>2 DEF ConfirmedStrip, Retitled, ModelAnswered, Back, Ok, Failed, Page,
                                      StripShows, StripTypes, StripUi, StripFields
      <4>5. StripTypes(ui') /\ ui'.crossed = ui.crossed /\ ui'.meta = meta
        BY <4>3, <4>4 DEF StripShows, StripTypes, StripUi, StripFields
      <4> QED BY <2>1, <3>2, <4>1, <4>3, <4>5
    <3>3. CASE calls[c].got = Nothing
      <4>1. ui' = [ui EXCEPT !.busy = FALSE, !.err = arg]
        BY <2>1, <3>3 DEF ConfirmedStrip, Retitled, ModelAnswered, Back, Ok, Failed, Page
      <4>2. StripTypes(ui') /\ ui'.crossed = ui.crossed /\ ui'.meta = ui.meta
        BY <3>1, <4>1 DEF StripShows, StripTypes, StripUi, StripFields
      <4> QED BY <2>1, <4>2
    <3> QED BY <3>2, <3>3
  <2>2. CASE op = "retitle"
    <3>1. CASE calls[c].got # Nothing
      <4>1. PICK meta : meta = [ui.meta EXCEPT !.title = arg]
        OBVIOUS
      <4>2. meta \in StripMeta /\ meta.title = arg /\ meta.status = ui.meta.status /\ meta.model = ui.meta.model
        BY <1>2, <2>2, <4>1 DEF StripShows, StripTypes, StripMeta, StripCall
      <4>3. ui' = [ui EXCEPT !.field = FALSE, !.meta = meta]
        BY <2>2, <3>1, <4>1 DEF ConfirmedStrip, Retitled, ModelAnswered, Back, Ok, Failed, Page,
                                StripShows, StripTypes, StripUi, StripFields
      <4>4. StripTypes(ui') /\ ui'.crossed = ui.crossed /\ ui'.meta = meta
        BY <4>2, <4>3 DEF StripShows, StripTypes, StripUi, StripFields
      <4> QED BY <2>2, <3>1, <4>2, <4>4
    <3>2. CASE calls[c].got = Nothing
      <4>1. ui' = ui
        BY <2>2, <3>2 DEF ConfirmedStrip, Retitled, ModelAnswered, Back, Ok, Failed, Page
      <4> QED BY <2>2, <3>2, <4>1 DEF StripShows
    <3> QED BY <3>1, <3>2
  <2>3. CASE op = "model"
    <3>1. CASE calls[c].got # Nothing
      <4>1. PICK meta : meta = [ui.meta EXCEPT !.model = arg]
        OBVIOUS
      <4>2. meta \in StripMeta /\ meta.model = arg /\ meta.status = ui.meta.status /\ meta.title = ui.meta.title
        BY <1>2, <2>3, <4>1 DEF StripShows, StripTypes, StripMeta, StripCall
      <4>3. ui' = [ui EXCEPT !.switching = FALSE, !.meta = meta]
        BY <2>3, <3>1, <4>1 DEF ConfirmedStrip, Retitled, ModelAnswered, Back, Ok, Failed, Page,
                                StripShows, StripTypes, StripUi, StripFields
      <4>4. StripTypes(ui') /\ ui'.crossed = ui.crossed /\ ui'.meta = meta
        BY <4>2, <4>3 DEF StripShows, StripTypes, StripUi, StripFields
      <4> QED BY <2>3, <3>1, <4>2, <4>4
    <3>2. CASE calls[c].got = Nothing
      <4>1. ui' = [ui EXCEPT !.switching = FALSE]
        BY <2>3, <3>2 DEF ConfirmedStrip, Retitled, ModelAnswered, Back, Ok, Failed, Page
      <4>2. StripTypes(ui') /\ ui'.crossed = ui.crossed /\ ui'.meta = ui.meta
        BY <4>1 DEF StripShows, StripTypes, StripUi, StripFields
      <4> QED BY <2>3, <3>2, <4>2
    <3> QED BY <3>1, <3>2
  <2> QED BY <1>1, <2>1, <2>2, <2>3
<1>6. \A d \in Slots : Out(d)' => StripCall(calls[d])'
  BY <1>1, <1>4, StaysHappened DEF StripShows
<1>7. ~Ahead'
  <2>1. op = "confirmed" /\ calls[c].got # Nothing => Happened(arg) /\ arg \in {"end", "delete"}
    BY <1>2 DEF StripCall
  <2>2. Happened("delete") => Happened("end")
    BY DEF Happened
  <2>3. \A kind : Happened(kind)' <=> Happened(kind)
    BY <1>1 DEF Happened
  <2> QED BY <1>5, <2>1, <2>2, <2>3 DEF StripShows, Ahead
<1>8. PICK title, model, theirs, runs, title1, model1 :
        /\ title = ui.meta.title /\ theirs = server.title /\ title1 = ui'.meta.title
        /\ model = ui.meta.model /\ runs = server.told /\ model1 = ui'.meta.model
  OBVIOUS
<1>9. ASSUME faults' = 0 PROVE FieldFits("model", ui.meta.model, server.told)'
  <2>1. FieldFits("model", model, runs)
    BY <1>1, <1>8, <1>9 DEF StripShows
  <2>2. FieldFits("model", model1, runs)'
    BY <1>3, <1>5, <1>8, <2>1, FitsLeft
  <2> QED BY <1>1, <1>8, <2>2
<1>10. ASSUME faults' = 0, ~ui'.crossed PROVE FieldFits("retitle", ui.meta.title, server.title)'
  <2>1. FieldFits("retitle", title, theirs)
    BY <1>1, <1>5, <1>8, <1>10 DEF StripShows
  <2>2. FieldFits("retitle", title1, theirs)'
    BY <1>3, <1>5, <1>8, <2>1, FitsLeft
  <2> QED BY <1>1, <1>8, <2>2
<1> QED BY <1>1, <1>5, <1>6, <1>7, <1>9, <1>10 DEF StripShows

LEMMA StripShowsFails ==
    ASSUME StripBody, StripShows, NEW c \in Slots, Fail(c)
    PROVE  StripShows'
<1>1. /\ SettledAs(c, "failed", Nothing) /\ Out(c) /\ UNCHANGED <<ui, server>> /\ faults' = faults + 1
  BY FailSettles DEF Out, StripBody
<1>2. calls[c].op # "none" /\ StripCall(calls[c])
  BY <1>1 DEF StripShows, StripCall
<1>3. /\ calls'[c].op = calls[c].op /\ calls'[c].arg = calls[c].arg
      /\ calls'[c].at = "failed" /\ calls'[c].got = Nothing
      /\ \A d \in Slots \ {c} : calls'[d] = calls[d] /\ (Out(d)' <=> Out(d))
  BY <1>1, <1>2, SettledOut
<1>4. StripCall(calls[c])'
  BY <1>1, <1>2, <1>3 DEF StripCall, Happened
<1>5. \A d \in Slots : Out(d)' => StripCall(calls[d])'
  BY <1>1, <1>3, <1>4, StaysHappened DEF StripShows
<1>6. faults' \in Nat /\ faults' # 0
  BY <1>1 DEF StripShows
<1>7. ~Ahead'
  BY <1>1 DEF StripShows, Ahead, Happened
<1> QED BY <1>1, <1>5, <1>6, <1>7 DEF StripShows

LEMMA StripShowsKeeps ==
    ASSUME StripBody, StripShows, StripNext \/ Fails \/ UNCHANGED vars
    PROVE  StripShows'
<1> USE DEF Page, Only
<1>0. /\ \A meta : ui'.meta = ui.meta /\ server' = server => ~Ahead'
      /\ ui.meta \in StripMeta /\ server \in StripHeld
  BY DEF StripShows, StripTypes, Ahead, Happened
<1>1. ASSUME NEW kind \in {"end", "delete"}, AskStrip(kind) PROVE StripShows'
  <2>1. ui' = [ui EXCEPT !.confirm = kind] /\ UNCHANGED <<server, calls, faults>>
    BY <1>1 DEF AskStrip
  <2>2. StripTypes(ui') /\ ui'.crossed = ui.crossed /\ ui'.meta = ui.meta
    BY <2>1 DEF StripShows, StripTypes, StripUi, StripFields
  <2> QED BY <1>0, <2>1, <2>2, StripStill
<1>2. CASE CloseStrip
  <2>1. PICK e \in {ui.err, Nothing} : ui' = [ui EXCEPT !.confirm = Nothing, !.err = e]
    BY <1>2 DEF CloseStrip
  <2>2. StripTypes(ui') /\ ui'.crossed = ui.crossed /\ ui'.meta = ui.meta
    BY <2>1 DEF StripShows, StripTypes, StripUi, StripFields
  <2>3. UNCHANGED <<server, calls, faults>>
    BY <1>2 DEF CloseStrip
  <2> QED BY <1>0, <2>2, <2>3, StripStill
<1>3. CASE EditTitle
  <2>1. ui' = [ui EXCEPT !.field = TRUE, !.draft = ui.meta.title] /\ UNCHANGED <<server, calls, faults>>
    BY <1>3 DEF EditTitle
  <2>2. ui.meta.title \in {"t0", "t1"}
    BY <1>0 DEF StripMeta
  <2>3. StripTypes(ui') /\ ui'.crossed = ui.crossed /\ ui'.meta = ui.meta
    BY <2>1, <2>2 DEF StripShows, StripTypes, StripUi, StripFields
  <2> QED BY <1>0, <2>1, <2>3, StripStill
<1>4. ASSUME NEW t \in {"t0", "t1"}, DraftTitle(t) PROVE StripShows'
  <2>1. ui' = [ui EXCEPT !.draft = t] /\ UNCHANGED <<server, calls, faults>>
    BY <1>4 DEF DraftTitle
  <2>2. StripTypes(ui') /\ ui'.crossed = ui.crossed /\ ui'.meta = ui.meta
    BY <2>1 DEF StripShows, StripTypes, StripUi, StripFields
  <2> QED BY <1>0, <2>1, <2>2, StripStill
<1>5. ASSUME ui' = [ui EXCEPT !.field = FALSE], UNCHANGED <<server, calls, faults>> PROVE StripShows'
  <2>1. StripTypes(ui') /\ ui'.crossed = ui.crossed /\ ui'.meta = ui.meta
    BY <1>5 DEF StripShows, StripTypes, StripUi, StripFields
  <2> QED BY <1>0, <1>5, <2>1, StripStill
<1>6. CASE StripTold
  <2>1. PICK meta : meta = [ui.meta EXCEPT !.status = "ended"]
    OBVIOUS
  <2>2. meta \in StripMeta /\ meta.status = "ended" /\ meta.title = ui.meta.title /\ meta.model = ui.meta.model
    BY <1>0, <2>1 DEF StripMeta
  <2>3. ui' = [ui EXCEPT !.meta = meta] /\ UNCHANGED <<server, calls, faults>> /\ server.status = "ended"
    BY <1>6, <2>1 DEF StripTold, StripShows, StripTypes, StripUi, StripFields
  <2>4. StripTypes(ui') /\ ui'.crossed = ui.crossed /\ ui'.meta = meta
    BY <2>2, <2>3 DEF StripShows, StripTypes, StripUi, StripFields
  <2>5. ~Ahead'
    BY <2>2, <2>3, <2>4 DEF Ahead, Happened
  <2> QED BY <1>0, <2>2, <2>3, <2>4, <2>5, StripStill
<1>7. CASE StripEnds
  <2>1. server' = [server EXCEPT !.status = "ended"] /\ UNCHANGED <<ui, calls, faults>> /\ server.status = "live"
    BY <1>7 DEF StripEnds, Elsewhere
  <2>2. server' \in StripHeld /\ server'.status = "ended" /\ server'.title = server.title /\ server'.told = server.told
    BY <1>0, <2>1 DEF StripHeld
  <2>3. ~Ahead'
    BY <2>1, <2>2, StaysHappened DEF StripShows, Ahead
  <2> QED BY <2>1, <2>2, <2>3, StripStill DEF StripShows
<1>8. CASE RunConfirmed
  <2>1. PICK p : p = [ui EXCEPT !.busy = TRUE, !.err = Nothing]
    OBVIOUS
  <2>2. StripTypes(p) /\ p.meta = ui.meta /\ p.crossed = ui.crossed
    BY <2>1 DEF StripShows, StripTypes, StripUi, StripFields
  <2>3. Sends(p, "confirmed", ui.confirm) /\ ui.confirm \in {"end", "delete"} /\ faults' = faults
    BY <1>8, <2>1 DEF RunConfirmed, Sends, StripShows, StripTypes
  <2> QED BY <2>2, <2>3, StripSent
<1>9. CASE SaveField
  <2>1. CASE ui.draft = ui.meta.title
    BY <1>5, <1>9, <2>1 DEF SaveField
  <2>2. CASE ui.draft # ui.meta.title
    <3>1. Sends(ui, "retitle", ui.draft) /\ ui.draft \in {"t0", "t1"} /\ faults' = faults
      BY <1>9, <2>2 DEF SaveField, Sends, StripShows, StripTypes
    <3> QED BY <3>1, StripSent DEF StripShows
  <2> QED BY <2>1, <2>2
<1>10. ASSUME NEW next \in {"m0", "m1"}, SwitchModel(next) PROVE StripShows'
  <2>1. PICK p : p = [ui EXCEPT !.switching = TRUE]
    OBVIOUS
  <2>2. StripTypes(p) /\ p.meta = ui.meta /\ p.crossed = ui.crossed
    BY <2>1 DEF StripShows, StripTypes, StripUi, StripFields
  <2>3. Sends(p, "model", next) /\ OutAs("model") = {} /\ faults' = faults
    BY <1>10, <2>1 DEF SwitchModel, Sends, StripBody
  <2> QED BY <2>2, <2>3, StripSent
<1>11. CASE UNCHANGED vars
  <2>1. UNCHANGED <<ui, server, calls, faults>>
    BY <1>11 DEF vars
  <2> QED BY <1>0, <2>1, StripStill DEF StripShows
<1>12. EscapeField => StripShows'
  BY <1>5 DEF EscapeField
<1> QED BY <1>1, <1>2, <1>3, <1>4, <1>6, <1>7, <1>8, <1>9, <1>10, <1>11, <1>12,
           StripServed, StripReceived, StripShowsFails DEF StripNext, Fails

LEMMA StripShowsHolds ==
    /\ Init => StripShowsInv
    /\ StripShowsInv /\ [Next]_vars => StripShowsInv'
    /\ StripShowsInv => NeverAheadOfTheApi /\ StripAgrees /\ StripTypeOK
<1>1. Init => StripShowsInv
  BY StartOn, StripStarts, StripShowsFirst DEF StripShowsInv
<1>2. ASSUME StripShowsInv, [Next]_vars, OnStrip' PROVE StripBody' /\ StripShows'
  <2>1. OnStrip /\ StripBody /\ StripShows
    BY <1>2, PagesStay DEF OnStrip, StripShowsInv
  <2> QED BY <1>2, <2>1, StepOn, StripKeeps, StripShowsKeeps
<1>3. StripShowsInv => NeverAheadOfTheApi /\ StripTypeOK
  BY DEF StripShowsInv, StripShows, StripTypes, Ahead, Happened, NeverAheadOfTheApi, StripTypeOK
<1>4. StripShowsInv => StripAgrees
  <2> SUFFICES ASSUME StripShows, Quiet, faults = 0, ~ui.crossed
               PROVE  ui.meta.title = server.title /\ ui.meta.model = server.told
    BY DEF StripShowsInv, StripAgrees
  <2>1. OutAs("model") = {} /\ OutAs("retitle") = {}
    BY DEF Quiet, OutAs, Free
  <2> QED BY <2>1 DEF StripShows, FieldFits
<1> QED BY <1>1, <1>2, <1>3, <1>4 DEF StripShowsInv
-----------------------------------------------------------------------------
(* The list.  While no two saves or loads were out together, the titles are *)
(* the API's unless a title or the load after it is out, and the load has   *)
(* brought them unless a title is out.                                      *)

ListTypes(u) ==
    /\ u = [f \in ListFields |-> u[f]]
    /\ u.titles \in [ListRows -> Titles] /\ u.filter \in Filters_ /\ u.text \in Titles
    /\ u.field \in ListRows \cup {Nothing} /\ u.left \in ListRows \cup {Nothing}
    /\ u.saving \subseteq ListRows /\ u.cancelled \subseteq ListRows
    /\ u.lost \subseteq Slots /\ u.crossed \in BOOLEAN
TitleCall(r) ==
    /\ r.op \in {"title", "titles"} /\ r.at \in {"sent", "ok", "failed"}
    /\ r.op = "title" => r.arg.r \in ListRows /\ r.arg.to \in Titles
    /\ r.op = "titles" /\ r.at = "ok" => r.got \in [ListRows -> Titles]
Loads_(shown, held) ==
    /\ OutAs("titles") = {} => shown = held
    /\ \A c \in Slots : Ok(c, "titles") => calls[c].got = held
ListShows ==
    /\ ListTypes(ui) /\ server \in [ListRows -> Titles]
    /\ \A c \in Slots : Out(c) => TitleCall(calls[c])
    /\ ~ui.crossed /\ OutAs("title") = {} => Loads_(ui.titles, server)
ListShowsInv == OnList => ListBody /\ ListShows

LEMMA ListShowsFirst == ListInit => ListShows
<1> SUFFICES ASSUME ListInit PROVE ListShows
  OBVIOUS
<1>1. PICK titles : titles = [r \in ListRows |-> "old"]
  OBVIOUS
<1>2. /\ ui = [titles |-> titles, filter |-> NoFilters, field |-> Nothing, text |-> "old",
               saving |-> {}, cancelled |-> {}, lost |-> {}, left |-> Nothing, crossed |-> FALSE]
      /\ server = titles /\ calls = [NoCalls EXCEPT ![1] = Free]
  BY <1>1 DEF ListInit, Opens
<1>3. \A c \in Slots : calls[c] = Free
  BY <1>2 DEF NoCalls
<1>4. titles \in [ListRows -> Titles] /\ NoFilters \in Filters_ /\ "old" \in Titles
  BY <1>1 DEF Titles, NoFilters, Filters_
<1>5. ListTypes(ui)
  BY <1>2, <1>4 DEF ListTypes, ListFields
<1> QED BY <1>2, <1>3, <1>4, <1>5 DEF ListShows, Loads_, Out, Ok, Free

LEMMA ListStill ==
    ASSUME ListShows, ListTypes(ui'), ui'.titles = ui.titles, ui'.crossed = ui.crossed, UNCHANGED <<server, calls>>
    PROVE  ListShows'
BY DEF ListShows, Loads_, Slots, Out, Ok, OutAs, TitleCall

(* A title is saved. *)
LEMMA TitleSaved ==
    ASSUME ListBody, ListShows, NEW r \in ListRows, SaveTitle(r)
    PROVE  ListShows'
<1>1. CASE ui.text = ui.titles[r]
  <2>1. ui' = [ui EXCEPT !.field = Nothing] /\ UNCHANGED <<server, calls>>
    BY <1>1 DEF SaveTitle, Page, Only
  <2>2. ListTypes(ui') /\ ui'.titles = ui.titles /\ ui'.crossed = ui.crossed
    BY <2>1 DEF ListShows, ListTypes, ListFields
  <2> QED BY <2>1, <2>2, ListStill
<1>2. CASE ui.text # ui.titles[r]
  <2>1. PICK a : a = [r |-> r, to |-> ui.text]
    OBVIOUS
  <2>2. ui' = [ui EXCEPT !.saving = @ \cup {r}] /\ Fetch("title", a) /\ server' = server
    BY <1>2, <2>1 DEF SaveTitle, Page, Only
  <2>3. PICK q : q = [op |-> "title", arg |-> a, at |-> "sent", got |-> Nothing]
    OBVIOUS
  <2>4. PICK s \in Slots : TakenBy(s, q)
    BY <2>2, <2>3, FetchTakes DEF Request, ListBody
  <2>5. /\ calls'[s] = q /\ Out(s)' /\ \A d \in Slots \ {s} : calls'[d] = calls[d] /\ (Out(d)' <=> Out(d))
    BY <2>3, <2>4, TakenOut DEF Free
  <2>6. ListTypes(ui')
    BY <2>2 DEF ListShows, ListTypes, ListFields
  <2>7. TitleCall(q)
    BY <2>1, <2>3 DEF TitleCall, ListShows, ListTypes
  <2>8. \A d \in Slots : Out(d)' => TitleCall(calls'[d])
    BY <2>5, <2>7 DEF ListShows
  <2>9. s \in OutAs("title")'
    BY <2>3, <2>5 DEF OutAs, Slots
  <2> QED BY <2>2, <2>6, <2>8, <2>9 DEF ListShows, TitleCall
<1> QED BY <1>1, <1>2

LEMMA TitleServed ==
    ASSUME ListBody, ListShows, NEW c \in Slots, ServeTitle(c) \/ ServeTitles(c)
    PROVE  ListShows'
<1>1. /\ calls[c].op \in {"title", "titles"} /\ calls[c].op # "none" /\ Out(c) /\ ui' = ui
      /\ calls[c].op = "titles" => Answer(c, server) /\ server' = server
      /\ calls[c].op = "title" => Answer(c, "renamed") /\ server' = [server EXCEPT ![calls[c].arg.r] = calls[c].arg.to]
  BY DEF ServeTitle, ServeTitles, Sent, Only, Out, Free
<1>2. PICK got : Answer(c, got) /\ (calls[c].op = "titles" => got = server)
  BY <1>1
<1>3. SettledAs(c, "ok", got)
  BY <1>1, <1>2, AnswerSettles DEF ListBody
<1>4. /\ calls'[c].op = calls[c].op /\ calls'[c].arg = calls[c].arg /\ calls'[c].at = "ok" /\ calls'[c].got = got
      /\ \A d \in Slots \ {c} : calls'[d] = calls[d] /\ (Out(d)' <=> Out(d))
  BY <1>1, <1>3, SettledOut
<1>5. OutAs("title")' = OutAs("title") /\ OutAs("titles")' = OutAs("titles")
  BY <1>3, OutSettled
<1>6. TitleCall(calls'[c])
  BY <1>1, <1>2, <1>4 DEF ListShows, TitleCall
<1>7. server' \in [ListRows -> Titles]
  BY <1>1 DEF ListShows, TitleCall
<1>8. ASSUME ~ui.crossed, OutAs("title") = {} PROVE Loads_(ui.titles, server)'
  <2>1. calls[c].op = "titles" /\ server' = server
    BY <1>1, <1>8 DEF OutAs
  <2>2. \A d \in Slots : Ok(d, "titles")' => calls'[d].got = server
    BY <1>2, <1>4, <1>8, <2>1 DEF ListShows, Loads_, Ok
  <2> QED BY <1>1, <1>5, <1>8, <2>1, <2>2 DEF ListShows, Loads_, Slots
<1> QED BY <1>1, <1>4, <1>5, <1>6, <1>7, <1>8 DEF ListShows, TitleCall

LEMMA FreesTypes ==
    ASSUME ListShows, NEW c \in Slots
    PROVE  ListTypes(Frees(c)) /\ Frees(c).titles = ui.titles /\ Frees(c).crossed = ui.crossed
<1>1. PICK saving : saving = (IF c \in ui.lost THEN ui.saving ELSE ui.saving \ {calls[c].arg.r})
  OBVIOUS
<1>2. Frees(c) = [ui EXCEPT !.saving = saving, !.lost = @ \ {c}]
  BY <1>1 DEF Frees, ListShows, ListTypes, ListFields
<1> QED BY <1>1, <1>2 DEF ListShows, ListTypes, ListFields

LEMMA TitleReturns ==
    ASSUME ListBody, ListShows, NEW c \in Slots, TitleAnswered(c)
    PROVE  ListShows'
<1>1. calls[c].op = "title" /\ Out(c) /\ server' = server
  BY DEF TitleAnswered, Back, Ok, Failed, Out, Free, Only
<1>0. PICK freed : freed = Frees(c)
  OBVIOUS
<1>2. ListTypes(freed) /\ freed.crossed = ui.crossed
  BY <1>0, FreesTypes
<1>3. CASE Ok(c, "title")
  <2>1. PICK crossed : crossed = (ui.crossed \/ \E d \in Slots \ {c} : calls[d] # Free) /\ crossed \in BOOLEAN
    OBVIOUS
  <2>2. ui' = [freed EXCEPT !.field = Nothing, !.crossed = crossed]
    BY <1>0, <1>2, <1>3, <2>1 DEF TitleAnswered, Page, ListTypes, ListFields
  <2>3. ListTypes(ui') /\ ui'.crossed = crossed
    BY <1>2, <2>1, <2>2 DEF ListTypes, ListFields
  <2>4. PICK q : q = [op |-> "titles", arg |-> Nothing, at |-> "sent", got |-> Nothing]
    OBVIOUS
  <2>5. LeftWith(c, q)
    BY <1>3, <2>4, ThenFetchLeaves DEF TitleAnswered, Request, ListBody
  <2>6. calls'[c] = q /\ \A d \in Slots \ {c} : calls'[d] = calls[d] /\ (Out(d)' <=> Out(d))
    BY <2>5, LeftOut
  <2>7. \A d \in Slots : Out(d)' => TitleCall(calls'[d])
    BY <2>4, <2>6 DEF ListShows, TitleCall
  <2>8. ASSUME ~crossed PROVE Loads_(ui.titles, server)'
    <3>1. \A d \in Slots \ {c} : calls'[d] = Free
      BY <2>1, <2>6, <2>8
    <3>2. c \in OutAs("titles")' /\ \A d \in Slots : ~Ok(d, "titles")'
      BY <2>4, <2>6, <3>1 DEF OutAs, Ok, Free, Slots
    <3> QED BY <3>2 DEF Loads_, Slots
  <2> QED BY <1>1, <2>3, <2>7, <2>8 DEF ListShows, TitleCall
<1>4. CASE ~Ok(c, "title")
  <2>1. ui' = [freed EXCEPT !.crossed = TRUE]
    BY <1>0, <1>4 DEF TitleAnswered, Page
  <2>2. ListTypes(ui') /\ ui'.crossed = TRUE
    BY <1>2, <2>1 DEF ListTypes, ListFields
  <2>3. LeftWith(c, Free)
    BY <1>4, DoneLeaves DEF TitleAnswered, ListBody
  <2>4. ~Out(c)' /\ \A d \in Slots \ {c} : calls'[d] = calls[d] /\ (Out(d)' <=> Out(d))
    BY <2>3, LeftOut
  <2> QED BY <1>1, <2>2, <2>4 DEF ListShows, TitleCall
<1> QED BY <1>3, <1>4

LEMMA TitlesReturn ==
    ASSUME ListBody, ListShows, NEW c \in Slots, TitlesAnswered(c)
    PROVE  ListShows'
<1>1. calls[c].op = "titles" /\ Out(c) /\ server' = server /\ Done(c)
  BY DEF TitlesAnswered, Back, Ok, Failed, Out, Free, Only
<1>2. LeftWith(c, Free)
  BY <1>1, DoneLeaves DEF ListBody
<1>3. calls'[c] = Free /\ ~Out(c)' /\ \A d \in Slots \ {c} : calls'[d] = calls[d] /\ (Out(d)' <=> Out(d))
  BY <1>2, LeftOut
<1>4. OutAs("title")' = OutAs("title")
  BY <1>1, <1>3 DEF OutAs, Free, Slots
<1>5. CASE Ok(c, "titles")
  <2>1. calls[c].got \in [ListRows -> Titles]
    BY <1>1, <1>5 DEF ListShows, TitleCall, Ok
  <2>2. ui' = [ui EXCEPT !.titles = calls[c].got]
    BY <1>5 DEF TitlesAnswered, Page
  <2>3. ListTypes(ui') /\ ui'.titles = calls[c].got /\ ui'.crossed = ui.crossed
    BY <2>1, <2>2 DEF ListShows, ListTypes, ListFields
  <2>4. ASSUME ~ui.crossed, OutAs("title") = {} PROVE Loads_(ui.titles, server)'
    <3>1. \A d \in Slots : Ok(d, "titles")' => calls'[d].got = server
      BY <1>3, <2>4 DEF ListShows, Loads_, Ok, Free
    <3>2. calls[c].got = server
      BY <1>5, <2>4 DEF ListShows, Loads_
    <3> QED BY <1>1, <2>3, <3>1, <3>2 DEF Loads_, Slots
  <2> QED BY <1>1, <1>3, <1>4, <2>3, <2>4 DEF ListShows, TitleCall
<1>6. CASE ~Ok(c, "titles")
  <2>1. ui' = [ui EXCEPT !.crossed = TRUE]
    BY <1>6 DEF TitlesAnswered, Page
  <2>2. ListTypes(ui') /\ ui'.crossed = TRUE
    BY <2>1 DEF ListShows, ListTypes, ListFields
  <2> QED BY <1>1, <1>3, <2>2 DEF ListShows, TitleCall
<1> QED BY <1>5, <1>6

LEMMA ListShowsFails ==
    ASSUME ListBody, ListShows, NEW c \in Slots, Fail(c)
    PROVE  ListShows'
<1>1. SettledAs(c, "failed", Nothing) /\ Out(c) /\ UNCHANGED <<ui, server>>
  BY FailSettles DEF Out, ListBody
<1>2. calls[c].op # "none"
  BY <1>1 DEF ListShows, TitleCall
<1>3. /\ calls'[c].op = calls[c].op /\ calls'[c].arg = calls[c].arg /\ calls'[c].at = "failed"
      /\ \A d \in Slots \ {c} : calls'[d] = calls[d] /\ (Out(d)' <=> Out(d))
  BY <1>1, <1>2, SettledOut
<1>4. OutAs("title")' = OutAs("title") /\ OutAs("titles")' = OutAs("titles")
  BY <1>1, OutSettled
<1>5. \A d \in Slots : Ok(d, "titles")' => Ok(d, "titles") /\ calls'[d] = calls[d]
  BY <1>3 DEF Ok
<1>6. TitleCall(calls'[c])
  BY <1>1, <1>3 DEF ListShows, TitleCall
<1> QED BY <1>1, <1>3, <1>4, <1>5, <1>6 DEF ListShows, Loads_, TitleCall, Slots

LEMMA ListShowsKeeps ==
    ASSUME ListBody, ListShows, ListNext \/ Fails \/ UNCHANGED vars
    PROVE  ListShows'
<1> USE DEF Page, Only
<1>1. ASSUME NEW f \in Filters_, PickFilters(f) PROVE ListShows'
  <2>1. PICK rows : rows = {r \in ListRows : Matches(r, f)}
    OBVIOUS
  <2>2. PICK lost : lost = ui.lost \cup {c \in OutAs("title") : calls[c].arg.r \notin rows}
    OBVIOUS
  <2>3. PICK left : left = (IF ui.left \in rows THEN ui.left ELSE Nothing)
    OBVIOUS
  <2>4. PICK text : text = (IF ui.field = Nothing \/ (InField /\ ui.field \in rows)
                              THEN ui.text ELSE ui.titles[ui.field])
    OBVIOUS
  <2>5. /\ ui' = [ui EXCEPT !.filter = f, !.saving = @ \cap rows, !.cancelled = @ \cap rows,
                            !.lost = lost, !.left = left, !.text = text]
        /\ UNCHANGED <<server, calls>>
    BY <1>1, <2>1, <2>2, <2>3, <2>4 DEF PickFilters, ListShows, ListTypes, ListFields
  <2>6. lost \subseteq Slots /\ left \in ListRows \cup {Nothing} /\ text \in Titles
    BY <2>2, <2>3, <2>4 DEF ListShows, ListTypes, OutAs
  <2>7. ListTypes(ui') /\ ui'.titles = ui.titles /\ ui'.crossed = ui.crossed
    BY <2>5, <2>6 DEF ListShows, ListTypes, ListFields
  <2> QED BY <2>5, <2>7, ListStill
<1>2. ASSUME NEW r \in ListRows, OpenField(r) PROVE ListShows'
  <2>1. ui' = [ui EXCEPT !.field = r, !.text = ui.titles[r], !.cancelled = @ \ {r}, !.left = Nothing]
        /\ UNCHANGED <<server, calls>>
    BY <1>2 DEF OpenField
  <2>2. ui.titles[r] \in Titles
    BY DEF ListShows, ListTypes
  <2>3. ListTypes(ui') /\ ui'.titles = ui.titles /\ ui'.crossed = ui.crossed
    BY <2>1, <2>2 DEF ListShows, ListTypes, ListFields
  <2> QED BY <2>1, <2>3, ListStill
<1>3. ASSUME NEW t \in Titles, TypeTitle(t) PROVE ListShows'
  <2>1. ui' = [ui EXCEPT !.text = t] /\ UNCHANGED <<server, calls>>
    BY <1>3 DEF TypeTitle
  <2>2. ListTypes(ui') /\ ui'.titles = ui.titles /\ ui'.crossed = ui.crossed
    BY <2>1 DEF ListShows, ListTypes, ListFields
  <2> QED BY <2>1, <2>2, ListStill
<1>4. CASE EscapeTitle
  <2>1. ui' = [ui EXCEPT !.field = Nothing, !.cancelled = @ \cup {ui.field}, !.left = ui.field]
        /\ UNCHANGED <<server, calls>> /\ ui.field \in ListRows
    BY <1>4 DEF EscapeTitle, InField, ListShows, ListTypes
  <2>2. ListTypes(ui') /\ ui'.titles = ui.titles /\ ui'.crossed = ui.crossed
    BY <2>1 DEF ListShows, ListTypes, ListFields
  <2> QED BY <2>1, <2>2, ListStill
<1>5. CASE EnterOrBlur
  BY <1>5, TitleSaved DEF EnterOrBlur, InField, ListShows, ListTypes
<1>6. CASE LateBlur
  BY <1>6, TitleSaved DEF LateBlur, ListShows, ListTypes
<1>7. CASE UNCHANGED vars
  <2>1. UNCHANGED <<ui, server, calls>>
    BY <1>7 DEF vars
  <2> QED BY <2>1, ListStill DEF ListShows
<1> QED BY <1>1, <1>2, <1>3, <1>4, <1>5, <1>6, <1>7, TitleServed, TitleReturns, TitlesReturn,
           ListShowsFails DEF ListNext, Fails

LEMMA ListShowsHolds ==
    /\ Init => ListShowsInv
    /\ ListShowsInv /\ [Next]_vars => ListShowsInv'
    /\ ListShowsInv => TitlesAgree /\ ListTypeOK
<1>1. Init => ListShowsInv
  BY StartOn, ListStarts, ListShowsFirst DEF ListShowsInv
<1>2. ASSUME ListShowsInv, [Next]_vars, OnList' PROVE ListBody' /\ ListShows'
  <2>1. OnList /\ ListBody /\ ListShows
    BY <1>2, PagesStay DEF OnList, ListShowsInv
  <2> QED BY <1>2, <2>1, StepOn, ListKeeps, ListShowsKeeps
<1>3. ListShowsInv => ListTypeOK
  BY DEF ListShowsInv, ListShows, ListTypes, ListTypeOK
<1>4. ListShowsInv => TitlesAgree
  <2> SUFFICES ASSUME ListShows, Quiet, ~ui.crossed PROVE ui.titles = server
    BY DEF ListShowsInv, TitlesAgree
  <2>1. OutAs("title") = {} /\ OutAs("titles") = {}
    BY DEF Quiet, OutAs, Free
  <2> QED BY <2>1 DEF ListShows, Loads_
<1> QED BY <1>1, <1>2, <1>3, <1>4 DEF ListShowsInv
-----------------------------------------------------------------------------
(* The marks.  The visible tab has remembered what it shows, so a mark that *)
(* is out, and the one that is kept, are of what was on the screen.         *)

SeenTypes(u, log) ==
    /\ u = [f \in SeenFields |-> u[f]]
    /\ u.top \in 0..log /\ u.onScreen \in 0..log /\ u.badge \in 0..log
    /\ u.visible \in BOOLEAN /\ u.timer \in BOOLEAN
    /\ u.visible => u.top <= u.onScreen
SeenCall(r, onScreen, log) ==
    /\ r.op \in {"mark", "rows"}
    /\ r.op = "mark" => r.arg \in 0..onScreen
    /\ r.op = "rows" /\ r.at = "ok" => r.got \in 0..log
SeenShows ==
    /\ server = [log |-> server.log, seen |-> server.seen] /\ server.log \in Nat
    /\ SeenTypes(ui, server.log) /\ server.seen \in 0..ui.onScreen
    /\ \A c \in Slots : Out(c) => SeenCall(calls[c], ui.onScreen, server.log)
SeenShowsInv == OnSeen => SeenBody /\ SeenShows

LEMMA SeenShowsFirst == SeenInit => SeenShows
<1> SUFFICES ASSUME SeenInit PROVE SeenShows
  OBVIOUS
<1>1. PICK visible \in BOOLEAN, seen \in 0..1 :
        Opens("seen", [top |-> 0, visible |-> visible, timer |-> FALSE, badge |-> 0, onScreen |-> seen],
              [log |-> 2, seen |-> seen], Request("rows", Nothing))
  BY DEF SeenInit
<1>2. /\ ui = [top |-> 0, visible |-> visible, timer |-> FALSE, badge |-> 0, onScreen |-> seen]
      /\ server = [log |-> 2, seen |-> seen]
      /\ calls = [NoCalls EXCEPT ![1] = Request("rows", Nothing)]
  BY <1>1 DEF Opens
<1>3. \A c \in Slots : calls[c] = Free \/ calls[c] = Request("rows", Nothing)
  BY <1>2 DEF NoCalls
<1>4. \A c \in Slots : Out(c) => SeenCall(calls[c], seen, 2)
  BY <1>3 DEF Out, SeenCall, Request
<1>5. SeenTypes(ui, 2) /\ ui.onScreen = seen /\ server.log = 2 /\ server.seen = seen
  BY <1>2 DEF SeenTypes, SeenFields
<1> QED BY <1>2, <1>4, <1>5 DEF SeenShows

(* What was true of the requests stays true as more is shown and logged.    *)
LEMMA SeenCallStays ==
    ASSUME NEW r, NEW o \in Nat, NEW l \in Nat, NEW o2 \in Nat, NEW l2 \in Nat, o <= o2, l <= l2, SeenCall(r, o, l)
    PROVE  SeenCall(r, o2, l2)
BY DEF SeenCall

LEMMA SeenStill ==
    ASSUME SeenShows, NEW log \in Nat, log >= server.log, server' = [server EXCEPT !.log = log],
           SeenTypes(ui', log), ui'.onScreen >= ui.onScreen, UNCHANGED calls
    PROVE  SeenShows'
<1>1. server'.log = log /\ server'.seen = server.seen /\ server' = [log |-> log, seen |-> server.seen]
  BY DEF SeenShows
<1>2. server'.seen \in 0..ui'.onScreen
  BY <1>1 DEF SeenShows, SeenTypes
<1>3. PICK o, l, o2 : o = ui.onScreen /\ l = server.log /\ o2 = ui'.onScreen
  OBVIOUS
<1>4. o \in Nat /\ l \in Nat /\ o2 \in Nat /\ o <= o2 /\ l <= log
  BY <1>3 DEF SeenShows, SeenTypes
<1>5. \A c \in Slots : Out(c) => SeenCall(calls[c], o2, log)
  BY <1>3, <1>4, SeenCallStays DEF SeenShows
<1>6. \A c \in Slots : Out(c)' => SeenCall(calls'[c], o2, log)
  BY <1>5 DEF Out
<1> QED BY <1>1, <1>2, <1>3, <1>6 DEF SeenShows, Slots

(* A request that a step sends, settles or receives, while the mark the API *)
(* keeps, and the page, only gain.                                          *)
LEMMA SeenCalls ==
    ASSUME SeenShows, UNCHANGED server, SeenTypes(ui', server.log), ui'.onScreen = ui.onScreen, NEW c \in Slots,
           \A d \in Slots \ {c} : calls'[d] = calls[d] /\ (Out(d)' <=> Out(d)),
           Out(c)' => SeenCall(calls'[c], ui.onScreen, server.log)
    PROVE  SeenShows'
<1>1. \A d \in Slots : Out(d)' => SeenCall(calls'[d], ui.onScreen, server.log)
  BY DEF SeenShows
<1> QED BY <1>1 DEF SeenShows, Slots

LEMMA ShowingShows ==
    ASSUME NEW u, NEW log \in Nat, u = [f \in SeenFields |-> u[f]],
           u.top \in 0..log, u.onScreen \in 0..log, u.badge \in 0..log, u.visible \in BOOLEAN, u.timer \in BOOLEAN
    PROVE  SeenTypes(Showing(u), log) /\ Showing(u).onScreen >= u.onScreen
<1>1. CASE u.visible /\ u.top > u.onScreen
  BY <1>1 DEF Showing, SeenTypes, SeenFields
<1>2. CASE ~(u.visible /\ u.top > u.onScreen)
  <2>1. Showing(u) = u
    BY <1>2 DEF Showing
  <2> QED BY <1>2, <2>1 DEF SeenTypes
<1> QED BY <1>1, <1>2

LEMMA MarkShows ==
    ASSUME SeenBody, SeenShows, NEW u, SeenTypes(u, server.log), u.onScreen >= ui.onScreen, Mark(u)
    PROVE  SeenShows'
<1>1. PICK log : log = server.log
  OBVIOUS
<1>2. log \in Nat /\ server' = server /\ ui' = u /\ server = [server EXCEPT !.log = log]
  BY <1>1 DEF Mark, Page, Only, SeenShows
<1>3. CASE ~u.visible
  <2>1. UNCHANGED calls
    BY <1>3 DEF Mark
  <2> QED BY <1>1, <1>2, <2>1, SeenStill
<1>4. CASE u.visible
  <2>1. Fetch("mark", u.top) /\ CallsShape
    BY <1>4 DEF Mark, SeenBody
  <2>2. PICK s, q : s \in Slots /\ TakenBy(s, q) /\ q = Request("mark", u.top)
    BY <2>1, FetchTakes
  <2>3. q.op = "mark" /\ q.arg = u.top /\ q # Free
    BY <2>2 DEF Request, Free
  <2>4. /\ calls'[s] = q /\ Out(s)' /\ \A d \in Slots \ {s} : calls'[d] = calls[d] /\ (Out(d)' <=> Out(d))
    BY <2>2, <2>3, TakenOut
  <2>5. PICK o, o2 : o = ui.onScreen /\ o2 = u.onScreen
    OBVIOUS
  <2>6. o \in Nat /\ o2 \in Nat /\ o <= o2
    BY <2>5, <1>1, <1>2 DEF SeenShows, SeenTypes
  <2>7. \A d \in Slots : Out(d) => SeenCall(calls[d], o2, log)
    BY <1>1, <1>2, <2>5, <2>6, SeenCallStays DEF SeenShows
  <2>8. SeenCall(q, o2, log)
    BY <1>4, <2>3, <2>5, <2>6 DEF SeenCall, SeenTypes
  <2>9. \A d \in Slots : Out(d)' => SeenCall(calls'[d], o2, log)
    BY <2>4, <2>7, <2>8
  <2>10. server.seen \in 0..o2
    BY <2>5, <2>6 DEF SeenShows
  <2> QED BY <1>1, <1>2, <2>5, <2>9, <2>10 DEF SeenShows, Slots
<1> QED BY <1>3, <1>4 DEF SeenTypes

LEMMA MarkIsKept ==
    ASSUME SeenBody, SeenShows, NEW c \in Slots, ServeMark(c)
    PROVE  SeenShows'
<1>1. calls[c].op = "mark" /\ calls[c].op # "none" /\ Out(c) /\ ui' = ui
  BY DEF ServeMark, Sent, Only, Out, Free
<1>2. SettledAs(c, "ok", "seen")
  BY <1>1, AnswerSettles DEF ServeMark, SeenBody
<1>3. /\ calls'[c].op = calls[c].op /\ calls'[c].arg = calls[c].arg
      /\ \A d \in Slots \ {c} : calls'[d] = calls[d] /\ (Out(d)' <=> Out(d))
  BY <1>1, <1>2, SettledOut
<1>4. PICK seq : seq = calls[c].arg
  OBVIOUS
<1>5. seq \in 0..ui.onScreen /\ ui.onScreen \in 0..server.log /\ server.log \in Nat /\ server.seen \in 0..ui.onScreen
  BY <1>1, <1>4 DEF SeenShows, SeenCall, SeenTypes
<1>6. PICK n : n = (IF Latest(server, seq) > server.seen THEN Latest(server, seq) ELSE server.seen)
  OBVIOUS
<1>7. n \in 0..ui.onScreen
  BY <1>5, <1>6 DEF Latest
<1>8. server' = [server EXCEPT !.seen = n]
  BY <1>4, <1>6 DEF ServeMark, MarkSeen
<1>9. server' = [log |-> server.log, seen |-> n]
  BY <1>8 DEF SeenShows
<1>10. SeenCall(calls'[c], ui.onScreen, server.log)
  BY <1>1, <1>3 DEF SeenShows, SeenCall
<1>11. \A d \in Slots : Out(d)' => SeenCall(calls'[d], ui.onScreen, server.log)
  BY <1>3, <1>10 DEF SeenShows
<1> QED BY <1>1, <1>7, <1>9, <1>11 DEF SeenShows, Slots

LEMMA BadgeServed ==
    ASSUME SeenBody, SeenShows, NEW c \in Slots, ServeBadge(c)
    PROVE  SeenShows'
<1>1. calls[c].op = "rows" /\ calls[c].op # "none" /\ Out(c) /\ ui' = ui /\ server' = server
  BY DEF ServeBadge, Sent, Only, Out, Free
<1>2. PICK n : n = Unread(server)
  OBVIOUS
<1>3. SettledAs(c, "ok", n)
  BY <1>1, <1>2, AnswerSettles DEF ServeBadge, SeenBody
<1>4. /\ calls'[c].op = calls[c].op /\ calls'[c].got = n
      /\ \A d \in Slots \ {c} : calls'[d] = calls[d] /\ (Out(d)' <=> Out(d))
  BY <1>1, <1>3, SettledOut
<1>5. n \in 0..server.log
  BY <1>2 DEF Unread, SeenShows, SeenTypes
<1>6. SeenCall(calls'[c], ui.onScreen, server.log)
  BY <1>1, <1>4, <1>5 DEF SeenCall
<1> QED BY <1>1, <1>4, <1>6, SeenCalls DEF SeenShows

LEMMA SeenReturns ==
    ASSUME SeenBody, SeenShows, NEW c \in Slots, MarkAnswered(c) \/ BadgeAnswered(c)
    PROVE  SeenShows'
<1>1. Done(c) /\ server' = server
  BY DEF MarkAnswered, BadgeAnswered, Only
<1>2. LeftWith(c, Free)
  BY <1>1, DoneLeaves DEF SeenBody
<1>3. ~Out(c)' /\ \A d \in Slots \ {c} : calls'[d] = calls[d] /\ (Out(d)' <=> Out(d))
  BY <1>2, LeftOut
<1>4. PICK b \in 0..server.log : ui' = [ui EXCEPT !.badge = b] \/ ui' = ui
  <2>1. CASE MarkAnswered(c)
    BY <2>1 DEF MarkAnswered, Page, SeenShows
  <2>2. CASE BadgeAnswered(c) /\ Ok(c, "rows")
    <3>1. calls[c].got \in 0..server.log
      BY <2>2 DEF SeenShows, SeenCall, Ok, Out, Free
    <3> QED BY <2>2, <3>1 DEF BadgeAnswered, Page
  <2>3. CASE BadgeAnswered(c) /\ ~Ok(c, "rows")
    BY <2>3 DEF BadgeAnswered, Page, SeenShows
  <2> QED BY <2>1, <2>2, <2>3
<1>5. SeenTypes(ui', server.log) /\ ui'.onScreen = ui.onScreen
  BY <1>4 DEF SeenShows, SeenTypes, SeenFields
<1> QED BY <1>1, <1>3, <1>5, SeenCalls

LEMMA SeenShowsKeeps ==
    ASSUME SeenBody, SeenShows, SeenNext \/ Fails \/ UNCHANGED vars
    PROVE  SeenShows'
<1> USE DEF Page, Only
<1>0. PICK log : log = server.log
  OBVIOUS
<1>1. log \in Nat /\ server = [server EXCEPT !.log = log] /\ ui.onScreen \in Nat
  BY <1>0 DEF SeenShows, SeenTypes
<1>2. CASE EventShown
  <2>1. PICK n : n = ui.top + 1
    OBVIOUS
  <2>2. PICK v : v = [ui EXCEPT !.top = n, !.timer = TRUE]
    OBVIOUS
  <2>3. n \in 0..log
    BY <1>0, <1>2, <2>1 DEF EventShown, SeenShows, SeenTypes
  <2>4. /\ v = [f \in SeenFields |-> v[f]] /\ v.top \in 0..log /\ v.onScreen = ui.onScreen
        /\ v.onScreen \in 0..log /\ v.badge \in 0..log /\ v.visible \in BOOLEAN /\ v.timer \in BOOLEAN
    BY <1>0, <2>2, <2>3 DEF SeenShows, SeenTypes, SeenFields
  <2>5. ui' = Showing(v) /\ server' = server /\ UNCHANGED calls
    BY <1>2, <2>1, <2>2 DEF EventShown
  <2>6. SeenTypes(ui', log) /\ ui'.onScreen >= ui.onScreen
    BY <1>1, <2>4, <2>5, ShowingShows
  <2> QED BY <1>0, <1>1, <2>5, <2>6, SeenStill
<1>3. CASE MarkTimer
  <2>1. PICK v : v = [ui EXCEPT !.timer = FALSE]
    OBVIOUS
  <2>2. SeenTypes(v, server.log) /\ v.onScreen = ui.onScreen
    BY <2>1 DEF SeenShows, SeenTypes, SeenFields
  <2>3. Mark(v) /\ v.onScreen >= ui.onScreen
    BY <1>1, <1>3, <2>1, <2>2 DEF MarkTimer
  <2> QED BY <2>2, <2>3, MarkShows
<1>4. CASE ShowTab
  <2>1. PICK v : v = [ui EXCEPT !.visible = TRUE]
    OBVIOUS
  <2>2. PICK u : u = Showing(v)
    OBVIOUS
  <2>3. /\ v = [f \in SeenFields |-> v[f]] /\ v.top \in 0..log /\ v.onScreen = ui.onScreen
        /\ v.onScreen \in 0..log /\ v.badge \in 0..log /\ v.visible \in BOOLEAN /\ v.timer \in BOOLEAN
    BY <1>0, <2>1 DEF SeenShows, SeenTypes, SeenFields
  <2>4. SeenTypes(u, log) /\ u.onScreen >= ui.onScreen
    BY <1>1, <2>2, <2>3, ShowingShows
  <2>5. (ui' = u /\ server' = server /\ UNCHANGED calls) \/ Mark(u)
    BY <1>4, <2>1, <2>2 DEF ShowTab
  <2> QED BY <1>0, <1>1, <2>4, <2>5, MarkShows, SeenStill
<1>5. CASE HideTab
  <2>1. ui' = [ui EXCEPT !.visible = FALSE] /\ server' = server /\ UNCHANGED calls
    BY <1>5 DEF HideTab
  <2>2. SeenTypes(ui', log) /\ ui'.onScreen = ui.onScreen
    BY <1>0, <2>1 DEF SeenShows, SeenTypes, SeenFields
  <2>3. ui'.onScreen >= ui.onScreen /\ server' = [server EXCEPT !.log = log] /\ log >= server.log
    BY <1>0, <1>1, <2>1, <2>2
  <2> QED BY <1>1, <2>1, <2>2, <2>3, SeenStill
<1>6. CASE PollBadge
  <2>1. ui' = ui /\ server' = server /\ Fetch("rows", Nothing) /\ CallsShape
    BY <1>6 DEF PollBadge, SeenBody
  <2>2. PICK s, q : s \in Slots /\ TakenBy(s, q) /\ q = Request("rows", Nothing)
    BY <2>1, FetchTakes
  <2>3. q.op = "rows" /\ q.at = "sent" /\ q # Free
    BY <2>2 DEF Request, Free
  <2>4. /\ calls'[s] = q /\ \A d \in Slots \ {s} : calls'[d] = calls[d] /\ (Out(d)' <=> Out(d))
    BY <2>2, <2>3, TakenOut
  <2> QED BY <2>1, <2>2, <2>3, <2>4, SeenCalls DEF SeenShows, SeenCall
<1>7. CASE SessionGrows
  <2>1. PICK l : l = log + 1
    OBVIOUS
  <2>2. server' = [server EXCEPT !.log = l] /\ ui' = ui /\ UNCHANGED calls
    BY <1>0, <1>7, <2>1 DEF SessionGrows, Elsewhere
  <2>3. SeenTypes(ui', l) /\ l \in Nat /\ l >= server.log
    BY <1>0, <1>1, <2>1, <2>2 DEF SeenShows, SeenTypes
  <2> QED BY <1>1, <2>2, <2>3, SeenStill
<1>8. ASSUME NEW c \in Slots, Fail(c) PROVE SeenShows'
  <2>1. SettledAs(c, "failed", Nothing) /\ Out(c) /\ UNCHANGED <<ui, server>>
    BY <1>8, FailSettles DEF Out, SeenBody
  <2>2. calls[c].op # "none"
    BY <2>1 DEF SeenShows, SeenCall
  <2>3. /\ calls'[c].op = calls[c].op /\ calls'[c].arg = calls[c].arg /\ calls'[c].at = "failed"
        /\ \A d \in Slots \ {c} : calls'[d] = calls[d] /\ (Out(d)' <=> Out(d))
    BY <2>1, <2>2, SettledOut
  <2>4. SeenCall(calls'[c], ui.onScreen, server.log)
    BY <2>1, <2>3 DEF SeenShows, SeenCall
  <2> QED BY <2>1, <2>3, <2>4, SeenCalls DEF SeenShows
<1>9. CASE UNCHANGED vars
  BY <1>0, <1>1, <1>9, SeenStill DEF vars, SeenShows
<1> QED BY <1>2, <1>3, <1>4, <1>5, <1>6, <1>7, <1>8, <1>9, MarkIsKept, BadgeServed, SeenReturns
        DEF SeenNext, Fails

LEMMA SeenShowsHolds ==
    /\ Init => SeenShowsInv
    /\ SeenShowsInv /\ [Next]_vars => SeenShowsInv'
    /\ SeenShowsInv => SeenWasOnScreen /\ SeenTypeOK
<1>1. Init => SeenShowsInv
  BY StartOn, SeenStarts, SeenShowsFirst DEF SeenShowsInv
<1>2. ASSUME SeenShowsInv, [Next]_vars, OnSeen' PROVE SeenBody' /\ SeenShows'
  <2>1. OnSeen /\ SeenBody /\ SeenShows
    BY <1>2, PagesStay DEF OnSeen, SeenShowsInv
  <2> QED BY <1>2, <2>1, StepOn, SeenKeeps, SeenShowsKeeps
<1>3. SeenShowsInv => SeenWasOnScreen /\ SeenTypeOK
  BY DEF SeenShowsInv, SeenShows, SeenTypes, SeenWasOnScreen, SeenTypeOK
<1> QED BY <1>1, <1>2, <1>3 DEF SeenShowsInv
-----------------------------------------------------------------------------
(* The gate.  It is shut while me is out, and only then; whoever is not     *)
(* known has neither menu nor dialogs, so that nobody signs out while me is *)
(* out.  An answer that is on its way tells the cookie as it is.            *)

Told(open) ==
    /\ ui.phase # "loading" /\ OutAs("logout") = {} => (ui.phase = "authed" <=> open)
    /\ \A c \in Slots : Ok(c, "me") => (calls[c].got <=> open)
    /\ \A c \in Slots : ~Failed(c, "me")
GateShows ==
    /\ CallsShape /\ ShellUi(ui) /\ ui.phase \in {"loading", "authed", "anon"}
    /\ ui.phase # "authed" => ui.dialogs = <<>> /\ ~ui.menu /\ OutAs("logout") = {}
    /\ ui.menu \in BOOLEAN
    /\ ui.phase = "loading" <=> OutAs("me") # {}
    /\ \A c, d \in OutAs("me") : c = d
    /\ \A c \in Slots : calls[c].op \in {"none", "me", "logout"}
    /\ faults \in Nat /\ outside \in Nat
    /\ faults = 0 /\ outside = 0 => Told(server.cookie = "valid")
GateInv == OnShell => GateShows

LEMMA GateStarts == ShellInit => GateShows
<1> SUFFICES ASSUME ShellInit PROVE GateShows
  OBVIOUS
<1>1. PICK at, cookie, narrow :
        Opens("shell", Loading(at, narrow), [cookie |-> cookie], Request("me", Nothing))
  BY DEF ShellInit
<1>2. IsCall(Request("me", Nothing))
  BY DEF IsCall, Request
<1>3. /\ ui = Loading(at, narrow) /\ CallsShape
      /\ 1 \in Slots /\ calls[1] = Request("me", Nothing) /\ \A c \in Slots \ {1} : calls[c] = Free
  BY <1>1, <1>2, OpensWith
<1>4. /\ calls[1].op = "me" /\ calls[1].at = "sent" /\ \A c \in Slots \ {1} : calls[c].op = "none"
  BY <1>3 DEF Request, Free
<1>5. OutAs("me") = {1} /\ OutAs("logout") = {}
  BY <1>3, <1>4 DEF OutAs
<1>6. ui.phase = "loading" /\ ui.dialogs = <<>> /\ ui.menu = FALSE /\ ShellUi(ui)
  BY <1>3 DEF Loading, ShellUi, ShellFields
<1>7. \A c \in Slots : ~Ok(c, "me") /\ ~Failed(c, "me")
  BY <1>4 DEF Ok, Failed
<1>8. faults = 0 /\ outside = 0
  BY <1>1 DEF Opens
<1> QED BY <1>3, <1>4, <1>5, <1>6, <1>7, <1>8 DEF GateShows, Told

(* Dialogs, drawer, menu and place: for whom the API knows.                 *)
LEMMA ShellStays ==
    ASSUME GateShows, UNCHANGED <<calls, faults, outside, server>>, ShellUi(ui'), ui'.phase = ui.phase,
           ui'.menu \in BOOLEAN, ui.phase # "authed" => ui'.dialogs = <<>> /\ ~ui'.menu
    PROVE  GateShows'
<1>1. CallsShape' /\ OutAs("me")' = OutAs("me") /\ OutAs("logout")' = OutAs("logout")
  BY DEF GateShows, CallsShape, OutAs, Slots
<1>2. ASSUME Told(server.cookie = "valid") PROVE Told(server.cookie = "valid")'
  BY <1>1, <1>2 DEF Told, Ok, Failed, Slots
<1> QED BY <1>1, <1>2 DEF GateShows, Slots

(* What an open dialog, a closed one and a link leave of the page.          *)
SamePerson(u, v) == ShellUi(v) /\ v.phase = u.phase /\ v.menu = u.menu
LEMMA SameToDialogs ==
    ASSUME NEW u, ShellUi(u), NEW d
    PROVE  SamePerson(u, Opened(u, d)) /\ SamePerson(u, ClosedOne(u, d))
<1>1. SamePerson(u, Opened(u, d))
  BY DEF Opened, SamePerson, ShellUi, ShellFields
<1>2. PICK dialogs : ClosedOne(u, d) = [u EXCEPT !.dialogs = dialogs]
  BY DEF ClosedOne
<1> QED BY <1>1, <1>2 DEF SamePerson, ShellUi, ShellFields

LEMMA SameGoes ==
    ASSUME NEW u, ShellUi(u), NEW place
    PROVE  SamePerson(u, Goes(u, place)) /\ Goes(u, place).dialogs = u.dialogs
<1>1. PICK at, drawer : /\ at = Routed(place, server.cookie)
                        /\ drawer = (IF PathOf(at) = PathOf(u.at) THEN u.drawer ELSE FALSE)
  OBVIOUS
<1>2. PICK v : v = Goes(u, place)
  OBVIOUS
<1>3. v = [u EXCEPT !.at = at, !.drawer = drawer]
  BY <1>1, <1>2 DEF Goes
<1> QED BY <1>2, <1>3 DEF SamePerson, ShellUi, ShellFields

LEMMA AsksMe ==
    ASSUME GateShows, NEW c \in Slots, ServeMe(c)
    PROVE  GateShows'
<1>1. PICK got : got = (server.cookie = "valid")
  OBVIOUS
<1>2. calls[c].op = "me" /\ UNCHANGED <<ui, server, faults, outside>> /\ Answer(c, got) /\ (got <=> server.cookie = "valid")
  BY <1>1 DEF ServeMe, Sent, Only
<1>3. SettledAs(c, "ok", got)
  BY <1>2, AnswerSettles DEF GateShows
<1>4. OutAs("me")' = OutAs("me") /\ OutAs("logout")' = OutAs("logout")
  BY <1>3, OutSettled
<1>5. /\ CallsShape' /\ \A d \in Slots \ {c} : calls'[d] = calls[d]
      /\ calls'[c].op = calls[c].op /\ calls'[c].at = "ok" /\ calls'[c].got = got
  BY <1>3 DEF SettledAs, Others
<1>6. ASSUME faults = 0, outside = 0 PROVE Told(server.cookie = "valid")'
  <2>1. Told(server.cookie = "valid")
    BY <1>6 DEF GateShows
  <2>2. \A d \in Slots : Ok(d, "me")' => (calls'[d].got <=> server.cookie = "valid")
    BY <1>2, <1>5, <2>1 DEF Told, Ok
  <2>3. \A d \in Slots : ~Failed(d, "me")'
    BY <1>5, <2>1 DEF Told, Failed
  <2> QED BY <1>2, <1>4, <2>1, <2>2, <2>3 DEF Told, Slots
<1> QED BY <1>2, <1>4, <1>5, <1>6 DEF GateShows, Slots

LEMMA GateIsOpened ==
    ASSUME GateShows, NEW c \in Slots, MeAnswered(c)
    PROVE  GateShows'
<1>1. PICK phase : phase = (IF Ok(c, "me") /\ calls[c].got THEN "authed" ELSE "anon")
  OBVIOUS
<1>2. ui' = [ui EXCEPT !.phase = phase] /\ Done(c) /\ UNCHANGED <<server, faults, outside>> /\ calls[c].op = "me"
  BY <1>1 DEF MeAnswered, Page, Only, Back, Ok, Failed
<1>3. LeftWith(c, Free)
  BY <1>2, DoneLeaves DEF GateShows
<1>4. CallsShape' /\ calls'[c] = Free /\ \A d \in Slots \ {c} : calls'[d] = calls[d]
  BY <1>3 DEF LeftWith, Others
<1>5. c \in OutAs("me") /\ OutAs("me")' = {} /\ OutAs("logout")' = OutAs("logout")
  BY <1>2, <1>4 DEF OutAs, GateShows, Free, Slots
<1>6. ui.phase = "loading" /\ ui.dialogs = <<>> /\ ~ui.menu /\ OutAs("logout") = {}
  BY <1>5 DEF GateShows
<1>7. ShellUi(ui') /\ ui'.phase = phase /\ ui'.menu = ui.menu /\ ui'.dialogs = ui.dialogs
  BY <1>2 DEF GateShows, ShellUi, ShellFields
<1>8. phase \in {"authed", "anon"} /\ (phase = "authed" <=> Ok(c, "me") /\ calls[c].got)
  BY <1>1
<1>9. ASSUME faults = 0, outside = 0 PROVE Told(server.cookie = "valid")'
  <2>1. Told(server.cookie = "valid")
    BY <1>9 DEF GateShows
  <2>2. Ok(c, "me")
    BY <2>1 DEF Told, MeAnswered, Back
  <2>3. phase = "authed" <=> server.cookie = "valid"
    BY <1>8, <2>1, <2>2 DEF Told
  <2>4. \A d \in Slots : ~Ok(d, "me")' /\ ~Failed(d, "me")'
    BY <1>5 DEF Ok, Failed, OutAs
  <2> QED BY <1>2, <1>7, <2>3, <2>4 DEF Told, Slots
<1> QED BY <1>2, <1>4, <1>5, <1>6, <1>7, <1>8, <1>9 DEF GateShows, Free, Slots

(* Whoever signs out is known.                                              *)
LEMMA SignsOut ==
    ASSUME GateShows, ui.phase = "authed", ShellUi(ui'), ui'.phase = ui.phase, ui'.menu = ui.menu,
           Fetch("logout", Nothing), UNCHANGED <<server, faults, outside>>
    PROVE  GateShows'
<1>1. PICK s, q : s \in Slots /\ TakenBy(s, q) /\ q = Request("logout", Nothing)
  BY FetchTakes DEF GateShows
<1>2. /\ CallsShape' /\ calls'[s].op = "logout" /\ calls[s] = Free
      /\ \A d \in Slots \ {s} : calls'[d] = calls[d]
  BY <1>1 DEF TakenBy, Others, Request
<1>3. OutAs("me")' = OutAs("me") /\ s \in OutAs("logout")'
  BY <1>1, <1>2 DEF OutAs, Free, Slots
<1>4. ASSUME Told(server.cookie = "valid") PROVE Told(server.cookie = "valid")'
  <2>1. \A d \in Slots : (Ok(d, "me")' => Ok(d, "me") /\ calls'[d] = calls[d]) /\ ~Failed(d, "me")'
    BY <1>1, <1>2, <1>4 DEF Told, Ok, Failed
  <2> QED BY <1>3, <1>4, <2>1 DEF Told, Slots
<1> QED BY <1>1, <1>2, <1>3, <1>4 DEF GateShows, Slots

LEMMA LogsOut ==
    ASSUME GateShows, NEW c \in Slots, ServeLogout(c)
    PROVE  GateShows'
<1>1. calls[c].op = "logout" /\ UNCHANGED <<ui, faults, outside>> /\ Answer(c, "out")
  BY DEF ServeLogout, Sent, Only
<1>2. SettledAs(c, "ok", "out")
  BY <1>1, AnswerSettles DEF GateShows
<1>3. OutAs("me")' = OutAs("me") /\ OutAs("logout")' = OutAs("logout") /\ c \in OutAs("logout")
  BY <1>1, <1>2, OutSettled DEF OutAs
<1>4. /\ CallsShape' /\ \A d \in Slots \ {c} : calls'[d] = calls[d]
      /\ calls'[c].op = calls[c].op
  BY <1>2 DEF SettledAs, Others
<1>5. OutAs("me") = {}
  BY <1>3 DEF GateShows
<1>6. \A d \in Slots : ~Ok(d, "me")' /\ ~Failed(d, "me")'
  BY <1>3, <1>5 DEF Ok, Failed, OutAs, Slots
<1>7. Told(server.cookie = "valid")'
  BY <1>3, <1>6 DEF Told, Slots
<1> QED BY <1>1, <1>3, <1>4, <1>7 DEF GateShows, Slots

LEMMA LoadsAgain ==
    ASSUME GateShows, NEW c \in Slots, LogoutAnswered(c)
    PROVE  GateShows'
<1>1. PICK at, narrow, q : /\ ui' = Loading(at, narrow) /\ calls' = [NoCalls EXCEPT ![1] = q]
                           /\ q = Request("me", Nothing)
  BY DEF LogoutAnswered, Page
<1>2. 1 \in Slots
  BY BrowserAssumption DEF Slots
<1>3. q = [op |-> "me", arg |-> Nothing, at |-> "sent", got |-> Nothing]
  BY <1>1 DEF Request
<1>4. calls' = [d \in Slots |-> IF d = 1 THEN q ELSE Free]
  BY <1>1 DEF NoCalls
<1>5. calls'[1] = q /\ (\A d \in Slots \ {1} : calls'[d] = Free) /\ calls' = [d \in Slots |-> calls'[d]]
  BY <1>2, <1>4
<1>6. CallsShape'
  BY <1>3, <1>5 DEF CallsShape, IsCall, Slots
<1>7. OutAs("me")' = {1} /\ OutAs("logout")' = {}
  BY <1>2, <1>3, <1>5 DEF OutAs, Free, Slots
<1>8. \A d \in Slots : calls'[d].op \in {"none", "me"} /\ ~Ok(d, "me")' /\ ~Failed(d, "me")'
  BY <1>3, <1>5 DEF Free, Ok, Failed
<1>9. ui'.phase = "loading" /\ ui'.dialogs = <<>> /\ ui'.menu = FALSE /\ ShellUi(ui')
  BY <1>1 DEF Loading, ShellUi, ShellFields
<1>10. UNCHANGED <<faults, outside>>
  BY DEF LogoutAnswered, Only
<1>11. Told(server.cookie = "valid")'
  BY <1>8, <1>9 DEF Told, Slots
<1> QED BY <1>6, <1>7, <1>8, <1>9, <1>10, <1>11 DEF GateShows, Slots

LEMMA GateFails ==
    ASSUME GateShows, NEW c \in Slots, Fail(c)
    PROVE  GateShows'
<1>1. SettledAs(c, "failed", Nothing) /\ UNCHANGED <<ui, server>> /\ faults' = faults + 1 /\ outside' = outside
  BY FailSettles DEF GateShows, Fail
<1>2. OutAs("me")' = OutAs("me") /\ OutAs("logout")' = OutAs("logout")
  BY <1>1, OutSettled
<1>3. /\ CallsShape' /\ \A d \in Slots \ {c} : calls'[d] = calls[d]
      /\ calls'[c].op = calls[c].op
  BY <1>1 DEF SettledAs, Others
<1> QED BY <1>1, <1>2, <1>3 DEF GateShows, Slots

LEMMA GateKeeps ==
    ASSUME GateShows, ShellNext \/ Fails \/ UNCHANGED vars
    PROVE  GateShows'
<1> USE DEF Page, Only
<1>0. ShellUi(ui) /\ ui.menu \in BOOLEAN /\ (ui.phase # "authed" => ui.dialogs = <<>> /\ ~ui.menu)
  BY DEF GateShows
<1>1. CASE ToggleDrawer
  <2>1. /\ UNCHANGED <<calls, faults, outside, server>> /\ ui.phase = "authed"
        /\ ShellUi(ui') /\ ui'.phase = ui.phase /\ ui'.menu = FALSE
    BY <1>0, <1>1 DEF ToggleDrawer, InShell, ShellUi, ShellFields
  <2> QED BY <2>1, ShellStays
<1>2. CASE ToggleMenu
  <2>1. /\ UNCHANGED <<calls, faults, outside, server>> /\ ui.phase = "authed"
        /\ ShellUi(ui') /\ ui'.phase = ui.phase /\ ui'.menu \in BOOLEAN
    BY <1>0, <1>2 DEF ToggleMenu, InShell, ShellUi, ShellFields
  <2> QED BY <2>1, ShellStays
<1>3. CASE Escape
  <2>1. PICK ds : ds = (IF ui.dialogs = <<>> THEN ui.dialogs ELSE Front(ui.dialogs))
    OBVIOUS
  <2>2. /\ UNCHANGED <<calls, faults, outside, server>> /\ ui.phase = "authed"
        /\ ui' = [ui EXCEPT !.drawer = FALSE, !.menu = FALSE, !.dialogs = ds]
    BY <1>3, <2>1 DEF Escape, InShell
  <2>3. ShellUi(ui') /\ ui'.phase = ui.phase /\ ui'.menu = FALSE
    BY <1>0, <2>2 DEF ShellUi, ShellFields
  <2> QED BY <2>2, <2>3, ShellStays
<1>4. CASE CloseTop
  <2>1. PICK ds : ds = Front(ui.dialogs)
    OBVIOUS
  <2>2. /\ UNCHANGED <<calls, faults, outside, server>> /\ ui.phase = "authed"
        /\ ui' = [ui EXCEPT !.dialogs = ds, !.menu = FALSE]
    BY <1>0, <1>4, <2>1 DEF CloseTop
  <2>3. ShellUi(ui') /\ ui'.phase = ui.phase /\ ui'.menu = FALSE
    BY <1>0, <2>2 DEF ShellUi, ShellFields
  <2> QED BY <2>2, <2>3, ShellStays
<1>5. CASE Search
  <2>1. PICK u : u = [ui EXCEPT !.menu = FALSE]
    OBVIOUS
  <2>2. ShellUi(u) /\ u.phase = ui.phase /\ u.menu = FALSE
    BY <1>0, <2>1 DEF ShellUi, ShellFields
  <2>3. /\ UNCHANGED <<calls, faults, outside, server>> /\ ui.phase = "authed"
        /\ ui' = Opened(u, "palette")
    BY <1>5, <2>1 DEF Search, InShell
  <2>4. SamePerson(u, ui')
    BY <2>2, <2>3, SameToDialogs
  <2> QED BY <2>2, <2>3, <2>4, ShellStays DEF SamePerson
<1>6. CASE RunPalette
  <2>1. PICK menu \in {ui.menu, FALSE} :
             LET u == [ClosedOne(ui, "palette") EXCEPT !.menu = menu]
             IN ui' = Opened(u, "help") \/ \E place \in Places : ui' = Goes(u, place)
    BY <1>6 DEF RunPalette
  <2>2. PICK v : v = ClosedOne(ui, "palette")
    OBVIOUS
  <2>3. PICK u : u = [v EXCEPT !.menu = menu]
    OBVIOUS
  <2>4. SamePerson(ui, v)
    BY <1>0, <2>2, SameToDialogs
  <2>5. ShellUi(u) /\ u.phase = ui.phase /\ u.menu = menu /\ menu \in BOOLEAN
    BY <1>0, <2>3, <2>4 DEF SamePerson, ShellUi, ShellFields
  <2>6. ui' = Opened(u, "help") \/ \E place \in Places : ui' = Goes(u, place)
    BY <2>1, <2>2, <2>3
  <2>7. SamePerson(u, ui')
    BY <2>5, <2>6, SameToDialogs, SameGoes
  <2>8. UNCHANGED <<calls, faults, outside, server>> /\ ui.phase = "authed"
    BY <1>0, <1>6 DEF RunPalette, OnTop
  <2> QED BY <2>5, <2>7, <2>8, ShellStays DEF SamePerson
<1>7. CASE SignOut
  <2>1. CASE /\ ui.menu /\ ui' = [ui EXCEPT !.leaving = TRUE] /\ Fetch("logout", Nothing)
    <3>1. ui.phase = "authed" /\ ShellUi(ui') /\ ui'.phase = ui.phase /\ ui'.menu = ui.menu
      BY <1>0, <2>1 DEF ShellUi, ShellFields
    <3>2. UNCHANGED <<server, faults, outside>>
      BY <1>7 DEF SignOut
    <3> QED BY <2>1, <3>1, <3>2, SignsOut
  <2>2. CASE /\ ui.dialogs # <<>> /\ ui' = ClosedOne(ui, "palette") /\ Fetch("logout", Nothing)
    <3>1. ui.phase = "authed" /\ SamePerson(ui, ui')
      BY <1>0, <2>2, SameToDialogs
    <3>2. UNCHANGED <<server, faults, outside>>
      BY <1>7 DEF SignOut
    <3> QED BY <2>2, <3>1, <3>2, SignsOut DEF SamePerson
  <2> QED BY <1>7, <2>1, <2>2 DEF SignOut, OnTop
<1>8. CASE CookieChanges
  <2>1. ui' = ui /\ calls' = calls /\ faults' = faults /\ outside' = outside + 1
    BY <1>8 DEF CookieChanges, Elsewhere
  <2>2. CallsShape' /\ OutAs("me")' = OutAs("me") /\ OutAs("logout")' = OutAs("logout")
    BY <2>1 DEF GateShows, CallsShape, OutAs, Slots
  <2> QED BY <2>1, <2>2 DEF GateShows, Slots
<1>9. ASSUME NEW place \in Places, Walk(place) PROVE GateShows'
  <2>1. PICK v : v = Goes(ui, place)
    OBVIOUS
  <2>2. ui' = [v EXCEPT !.menu = FALSE] /\ UNCHANGED <<calls, faults, outside, server>> /\ ui.dialogs = <<>>
    BY <1>9, <2>1 DEF Walk
  <2>3. SamePerson(ui, v) /\ v.dialogs = ui.dialogs
    BY <1>0, <2>1, SameGoes
  <2>4. ShellUi(ui') /\ ui'.phase = ui.phase /\ ui'.menu = FALSE /\ ui'.dialogs = <<>>
    BY <2>2, <2>3 DEF SamePerson, ShellUi, ShellFields
  <2> QED BY <2>2, <2>4, ShellStays
<1>10. ASSUME NEW k \in {"K", "N", "?"}, Key(k) PROVE GateShows'
  <2>1. ui' \in {ClosedOne(ui, "palette"), Opened(ui, "palette"), Opened(ui, "help"), Goes(ui, "new")}
    BY <1>10 DEF Key
  <2>2. SamePerson(ui, ui')
    BY <1>0, <2>1, SameToDialogs, SameGoes
  <2>3. UNCHANGED <<calls, faults, outside, server>> /\ ui.phase = "authed"
    BY <1>10 DEF Key, InShell
  <2> QED BY <1>0, <2>2, <2>3, ShellStays DEF SamePerson
<1>11. CASE UNCHANGED vars
  BY <1>0, <1>11, ShellStays DEF vars
<1> QED BY <1>1, <1>2, <1>3, <1>4, <1>5, <1>6, <1>7, <1>8, <1>9, <1>10, <1>11, AsksMe, GateIsOpened,
           LogsOut, LoadsAgain, GateFails DEF ShellNext, Fails

LEMMA GateHolds ==
    /\ Init => GateInv
    /\ GateInv /\ [Next]_vars => GateInv'
    /\ GateInv => GateAgrees /\ GateOpens
<1>1. Init => GateInv
  BY StartOn, GateStarts DEF GateInv
<1>2. ASSUME GateInv, [Next]_vars, OnShell' PROVE GateShows'
  <2>1. OnShell /\ GateShows
    BY <1>2, PagesStay DEF OnShell, GateInv
  <2> QED BY <1>2, <2>1, StepOn, GateKeeps
<1>3. GateInv => GateOpens
  BY DEF GateInv, GateShows, GateOpens, Rendered
<1>4. GateInv => GateAgrees
  <2> SUFFICES ASSUME GateShows, Quiet, faults = 0, outside = 0
               PROVE  ui.phase = "authed" <=> server.cookie = "valid"
    BY DEF GateInv, GateAgrees
  <2>1. OutAs("me") = {} /\ OutAs("logout") = {}
    BY DEF Quiet, OutAs, Free
  <2> QED BY <2>1 DEF GateShows, Told
<1> QED BY <1>1, <1>2, <1>3, <1>4 DEF GateInv
-----------------------------------------------------------------------------
(* The composer.  The last message that was sent is in the session, or it   *)
(* is still out and not answered well, or the page says that one failed.    *)

SendCall(r, s) ==
    /\ r.arg # Nothing /\ r.at \in {"sent", "ok", "failed"}
    /\ r.at = "ok" => InLog(s, r.arg)
LastIsTold(u, s) ==
    u.box /\ u.last # Nothing /\ ~InLog(s, u.last) =>
      u.failed # Nothing \/ \E c \in OutAs("send") : calls[c].arg = u.last
BoxShows ==
    /\ \A c \in OutAs("send") : SendCall(calls[c], server)
    /\ LastIsTold(ui, server)
BoxShowsInv == OnComposer => BoxBody /\ BoxShows

LEMMA BoxShowsFirst == ComposerInit => BoxShows
<1> SUFFICES ASSUME ComposerInit PROVE BoxShows
  OBVIOUS
<1>1. ui.last = Nothing /\ calls = [NoCalls EXCEPT ![1] = Free]
  BY DEF ComposerInit, Opens
<1>2. OutAs("send") = {}
  BY <1>1 DEF NoCalls, OutAs, Free
<1> QED BY <1>1, <1>2 DEF BoxShows, LastIsTold

(* What the session has it keeps.                                           *)
LEMMA BoxStill ==
    ASSUME BoxShows, UNCHANGED calls, server'.got = server.got, ui'.last = ui.last,
           ui'.box => ui.box /\ ui'.failed = ui.failed
    PROVE  BoxShows'
<1>1. OutAs("send")' = OutAs("send") /\ \A id : InLog(server', id) <=> InLog(server, id)
  BY DEF OutAs, Slots, InLog
<1> QED BY <1>1 DEF BoxShows, LastIsTold, SendCall

LEMMA BoxSends ==
    ASSUME BoxBody, BoxShows, NEW id, id # Nothing, Send(id)
    PROVE  BoxShows'
<1>1. PICK q : q = [op |-> "send", arg |-> id, at |-> "sent", got |-> Nothing]
  OBVIOUS
<1>2. PICK s \in Slots : TakenBy(s, q)
  BY <1>1, FetchTakes DEF BoxBody, Send, Request
<1>3. /\ OutAs("send")' = OutAs("send") \cup {s} /\ s \notin OutAs("send") /\ calls'[s] = q
      /\ \A c \in OutAs("send") : calls'[c] = calls[c]
  BY <1>1, <1>2, OutTaken DEF TakenBy
<1>4. ui'.last = id /\ server' = server
  BY DEF Send, Sending, Page, Only, BoxBody, BoxUi, BoxFields
<1>5. SendCall(q, server)
  BY <1>1 DEF SendCall
<1>6. \A c \in OutAs("send")' : SendCall(calls'[c], server)
  BY <1>3, <1>5 DEF BoxShows
<1> QED BY <1>1, <1>3, <1>4, <1>6 DEF BoxShows, LastIsTold

(* A send that is settled: what was in the session stays in it, and so is   *)
(* what was answered well.                                                  *)
LEMMA BoxSettled ==
    ASSUME BoxShows, NEW c \in Slots, NEW at, NEW got, SettledAs(c, at, got), at \in {"ok", "failed"}, UNCHANGED ui,
           \A id : InLog(server, id) => InLog(server', id), at = "ok" => InLog(server', calls[c].arg)
    PROVE  BoxShows'
<1>1. /\ OutAs("send")' = OutAs("send")
      /\ \A d \in OutAs("send") : calls'[d].arg = calls[d].arg
  BY OutSettled
<1>2. calls'[c].at = at /\ \A d \in Slots \ {c} : calls'[d] = calls[d]
  BY DEF SettledAs, Others
<1>3. ASSUME NEW d \in OutAs("send") PROVE SendCall(calls'[d], server')
  <2>1. d \in Slots /\ SendCall(calls[d], server)
    BY <1>3 DEF OutAs, BoxShows
  <2>2. CASE d = c
    BY <1>1, <1>2, <1>3, <2>1, <2>2 DEF SendCall
  <2>3. CASE d # c
    BY <1>2, <2>1, <2>3 DEF SendCall
  <2> QED BY <2>2, <2>3
<1>4. LastIsTold(ui, server)'
  BY <1>1 DEF BoxShows, LastIsTold
<1> QED BY <1>1, <1>3, <1>4 DEF BoxShows

LEMMA BoxAnswers ==
    ASSUME BoxBody, BoxShows, NEW c \in Slots, ServeSend(c)
    PROVE  BoxShows'
<1>1. calls[c].op # "none" /\ calls[c] # Free /\ UNCHANGED ui /\ CallsShape
  BY DEF ServeSend, Sent, Only, BoxBody, Free
<1>2. CASE Answer(c, "created") /\ server' = [server EXCEPT !.got = Append(@, calls[c].arg)]
  <2>1. PICK n, id : n = Len(server.got) + 1 /\ id = calls[c].arg
    OBVIOUS
  <2>2. n \in Nat /\ Len(server.got) \in Nat
    BY <2>1 DEF BoxBody, Posts
  <2>3. PICK got : got = Append(server.got, id)
    OBVIOUS
  <2>4. Len(got) = n /\ got[n] = id /\ \A k \in 1..Len(server.got) : got[k] = server.got[k]
    <3>1. PICK S : S = {server.got[k] : k \in 1..Len(server.got)} \cup {id}
      OBVIOUS
    <3>2. server.got \in Seq(S) /\ id \in S
      BY <3>1 DEF BoxBody, Posts
    <3> QED BY <2>1, <2>3, <3>2
  <2>5. server'.got = got
    BY <1>2, <2>1, <2>3 DEF BoxBody, Posts
  <2>6. (\A x : InLog(server, x) => InLog(server', x)) /\ InLog(server', id)
    BY <2>1, <2>2, <2>4, <2>5 DEF InLog
  <2>7. SettledAs(c, "ok", "created")
    BY <1>1, <1>2, AnswerSettles
  <2> QED BY <1>1, <2>1, <2>6, <2>7, BoxSettled
<1>3. CASE /\ server' = [server EXCEPT !.refused = IF server.live THEN @ + 1 ELSE @]
           /\ calls' = [calls EXCEPT ![c].at = "failed"]
  <2>1. SettledAs(c, "failed", calls[c].got)
    BY <1>1, <1>3 DEF CallsShape, IsCall, SettledAs, Others
  <2>2. PICK refused : server' = [server EXCEPT !.refused = refused]
    BY <1>3
  <2>3. server'.got = server.got
    BY <2>2 DEF BoxBody, Posts
  <2>4. \A x : InLog(server, x) => InLog(server', x)
    BY <2>3 DEF InLog
  <2> QED BY <1>1, <2>1, <2>4, BoxSettled
<1> QED BY <1>2, <1>3 DEF ServeSend

(* A failure is told; the good news of one message is not of another.       *)
LEMMA BoxHears ==
    ASSUME BoxBody, BoxShows, NEW c \in Slots, SendAnswered(c)
    PROVE  BoxShows'
<1>1. LeftWith(c, Free)
  BY DoneLeaves DEF BoxBody, SendAnswered
<1>2. /\ OutAs("send")' = OutAs("send") \ {c}
      /\ \A d \in OutAs("send") \ {c} : calls'[d] = calls[d]
  BY <1>1, OutLeft DEF Free
<1>3. server' = server /\ c \in OutAs("send")
  BY DEF SendAnswered, Only, Back, Ok, Failed, OutAs
<1>4. PICK id : id = calls[c].arg
  OBVIOUS
<1>5. id # Nothing /\ (calls[c].at = "ok" => InLog(server, id))
  BY <1>3, <1>4 DEF BoxShows, SendCall
<1>6. \A d \in OutAs("send")' : SendCall(calls'[d], server)
  BY <1>2 DEF BoxShows
<1>7. CASE Failed(c, "send")
  <2>1. ui' = [ui EXCEPT !.failed = id]
    BY <1>4, <1>7 DEF SendAnswered, Page
  <2>2. ui'.failed # Nothing
    BY <1>5, <2>1 DEF BoxBody, BoxUi, BoxFields
  <2> QED BY <1>3, <1>6, <2>2 DEF BoxShows, LastIsTold
<1>8. CASE ~Failed(c, "send")
  <2>1. ui' = ui /\ InLog(server, id)
    BY <1>5, <1>8 DEF SendAnswered, Page, Back, Ok
  <2>2. ASSUME ui.box, ui.last # Nothing, ~InLog(server, ui.last), ui.failed = Nothing
        PROVE  \E d \in OutAs("send") \ {c} : calls[d].arg = ui.last
    <3>1. PICK d \in OutAs("send") : calls[d].arg = ui.last
      BY <2>2 DEF BoxShows, LastIsTold
    <3>2. d # c
      BY <1>4, <2>1, <2>2, <3>1
    <3> QED BY <3>1, <3>2
  <2>3. LastIsTold(ui, server)'
    BY <1>2, <1>3, <2>1, <2>2 DEF LastIsTold
  <2> QED BY <1>3, <1>6, <2>3 DEF BoxShows
<1> QED BY <1>7, <1>8

LEMMA BoxShowsKeeps ==
    ASSUME BoxBody, BoxShows, ComposerNext \/ Fails \/ UNCHANGED vars
    PROVE  BoxShows'
<1> USE DEF Page, Only
<1>1. CASE TypeDraft
  <2>1. PICK n : n = ui.typed + 1
    OBVIOUS
  <2>2. ui' = [ui EXCEPT !.draft = n, !.typed = n] /\ UNCHANGED <<server, calls>>
    BY <1>1, <2>1 DEF TypeDraft, BoxBody, BoxUi, BoxFields
  <2>3. ui'.last = ui.last /\ ui'.box = ui.box /\ ui'.failed = ui.failed
    BY <2>2 DEF BoxBody, BoxUi, BoxFields
  <2> QED BY <2>2, <2>3, BoxStill
<1>2. CASE SendDraft
  BY <1>2, BoxSends DEF SendDraft
<1>3. CASE RetrySend
  BY <1>3, BoxSends DEF RetrySend
<1>4. CASE EndsWhileTyping
  <2>1. server' = [server EXCEPT !.live = FALSE] /\ UNCHANGED <<ui, calls>>
    BY <1>4 DEF EndsWhileTyping, Elsewhere
  <2>2. server'.got = server.got
    BY <2>1 DEF BoxBody, Posts
  <2> QED BY <2>1, <2>2, BoxStill
<1>5. CASE ReadOnlyFooter
  <2>1. ui' = [ui EXCEPT !.box = FALSE, !.draft = Nothing, !.failed = Nothing] /\ UNCHANGED <<server, calls>>
    BY <1>5 DEF ReadOnlyFooter
  <2>2. ui'.last = ui.last /\ ~ui'.box
    BY <2>1 DEF BoxBody, BoxUi, BoxFields
  <2> QED BY <2>1, <2>2, BoxStill
<1>6. ASSUME NEW c \in Slots, Fail(c) PROVE BoxShows'
  <2>1. SettledAs(c, "failed", Nothing) /\ UNCHANGED <<ui, server>>
    BY <1>6, FailSettles DEF BoxBody
  <2> QED BY <2>1, BoxSettled
<1>7. CASE UNCHANGED vars
  BY <1>7, BoxStill DEF vars
<1> QED BY <1>1, <1>2, <1>3, <1>4, <1>5, <1>6, <1>7, BoxAnswers, BoxHears DEF ComposerNext, Fails

LEMMA BoxShowsHolds ==
    /\ Init => BoxShowsInv
    /\ BoxShowsInv /\ [Next]_vars => BoxShowsInv'
    /\ BoxShowsInv => RefusalIsTold
<1>1. Init => BoxShowsInv
  BY StartOn, BoxStarts, BoxShowsFirst DEF BoxShowsInv
<1>2. ASSUME BoxShowsInv, [Next]_vars, OnComposer' PROVE BoxBody' /\ BoxShows'
  <2>1. OnComposer /\ BoxBody /\ BoxShows
    BY <1>2, PagesStay DEF OnComposer, BoxShowsInv
  <2> QED BY <1>2, <2>1, StepOn, BoxKeeps, BoxShowsKeeps
<1>3. BoxShowsInv => RefusalIsTold
  <2> SUFFICES ASSUME BoxBody, BoxShows, ui.box, Quiet, ui.last # Nothing, ~Contains(server.got, ui.last)
               PROVE  ui.failed # Nothing
    BY DEF BoxShowsInv, RefusalIsTold
  <2>1. OutAs("send") = {}
    BY DEF Quiet, OutAs, Free
  <2>2. ~InLog(server, ui.last)
    BY DEF BoxBody, Posts, Contains, InLog
  <2> QED BY <2>1, <2>2 DEF BoxShows, LastIsTold
<1> QED BY <1>1, <1>2, <1>3 DEF BoxShowsInv
-----------------------------------------------------------------------------
(* The signed-in apps.  Nothing is revoked before the list has come, and    *)
(* what is revoked leaves the list as it is by then.                        *)

AppsTypes(u) ==
    /\ u = [f \in AppsFields |-> u[f]] /\ PopIs(u.pop)
    /\ u.list = Nothing \/ u.list \subseteq Items
    /\ u.revoked \subseteq Items /\ u.loadErr \in BOOLEAN /\ u.crossed \in BOOLEAN
    /\ u.list \subseteq Items => u.revoked \cap u.list = {}
AppsCall(r) ==
    /\ r.op \in {"items", "remove"}
    /\ r.op = "remove" => r.arg \in Items
    /\ r.op = "items" /\ r.at = "ok" => r.got \subseteq Items
AppsShows ==
    /\ AppsTypes(ui) /\ server \in [Items -> {"in", "accessible", "out"}]
    /\ \A c \in Slots : Out(c) => AppsCall(calls[c])
    /\ OutAs("items") # {} => ui.revoked = {}
    /\ ui.pop.open # Nothing \/ OutAs("remove") # {} => ui.list \subseteq Items
AppsShowsInv == OnApps => AppsBody /\ AppsShows

LEMMA AppsShowsFirst == AppsInit => AppsShows
<1> SUFFICES ASSUME AppsInit PROVE AppsShows
  OBVIOUS
<1>1. /\ ui = [list |-> Nothing, loadErr |-> FALSE, pop |-> Popovers, revoked |-> {}, crossed |-> FALSE]
      /\ server = [k \in Items |-> "in"]
      /\ calls = [NoCalls EXCEPT ![1] = Request("items", Nothing)]
  BY DEF AppsInit, Opens
<1>2. \A c \in Slots : calls[c] = Free \/ calls[c] = Request("items", Nothing)
  BY <1>1 DEF NoCalls
<1>3. (\A c \in Slots : Out(c) => AppsCall(calls[c])) /\ OutAs("remove") = {}
  BY <1>2 DEF Out, AppsCall, Request, OutAs, Free
<1>4. PopIs(Popovers) /\ Popovers.open = Nothing
  BY DEF PopIs, Popovers
<1>5. AppsTypes(ui) /\ ui.pop.open = Nothing /\ ui.revoked = {}
  BY <1>1, <1>4 DEF AppsTypes, AppsFields
<1> QED BY <1>1, <1>3, <1>5 DEF AppsShows

(* The popovers, on the page alone. *)
LEMMA AppsStill ==
    ASSUME AppsShows, UNCHANGED <<server, calls>>, AppsTypes(ui'), ui'.list = ui.list, ui'.revoked = ui.revoked,
           ui'.pop.open # Nothing => ui.list \subseteq Items
    PROVE  AppsShows'
<1>1. OutAs("items")' = OutAs("items") /\ OutAs("remove")' = OutAs("remove")
  BY DEF OutAs, Slots
<1> QED BY <1>1 DEF AppsShows, Slots, Out, AppsCall

(* A request that a step sends or settles. *)
LEMMA AppsCalled ==
    ASSUME AppsShows, AppsTypes(ui'), ui'.list = ui.list, ui'.revoked = ui.revoked,
           ui'.pop.open = ui.pop.open, server' \in [Items -> {"in", "accessible", "out"}], NEW c \in Slots,
           \A d \in Slots \ {c} : calls'[d] = calls[d] /\ (Out(d)' <=> Out(d)),
           Out(c)' => AppsCall(calls'[c]), OutAs("items")' = OutAs("items"),
           OutAs("remove")' = OutAs("remove") \/ ui.pop.open # Nothing
    PROVE  AppsShows'
<1>1. \A d \in Slots : Out(d)' => AppsCall(calls'[d])
  BY DEF AppsShows
<1> QED BY <1>1 DEF AppsShows, Slots

LEMMA RemovalSent ==
    ASSUME AppsBody, AppsShows, Confirm
    PROVE  AppsShows'
<1>1. PICK k : k = ui.pop.open
  OBVIOUS
<1>2. k # Nothing /\ k \in Items
  BY <1>1 DEF Confirm, AppsShows, AppsTypes, PopIs
<1>3. PICK busy, err, crossed : /\ busy = ui.pop.busy \cup {k} /\ err = ui.pop.err \ {k}
                                /\ crossed = (ui.crossed \/ ~Quiet) /\ crossed \in BOOLEAN
  OBVIOUS
<1>4. PICK one : one = [ui.pop EXCEPT !.busy = busy]
  OBVIOUS
<1>5. one = [open |-> k, busy |-> busy, err |-> ui.pop.err]
  BY <1>1, <1>4 DEF AppsShows, AppsTypes, PopIs
<1>6. PICK pop : pop = [one EXCEPT !.err = err]
  OBVIOUS
<1>7. pop = [open |-> k, busy |-> busy, err |-> err]
  BY <1>5, <1>6
<1>8. ui' = [ui EXCEPT !.pop = pop, !.crossed = crossed]
  BY <1>1, <1>3, <1>4, <1>6 DEF Confirm, Page, AppsShows, AppsTypes, AppsFields
<1>9. PopIs(pop)
  BY <1>2, <1>3, <1>7 DEF AppsShows, AppsTypes, PopIs
<1>10. AppsTypes(ui') /\ ui'.list = ui.list /\ ui'.revoked = ui.revoked /\ ui'.pop = pop
  BY <1>3, <1>8, <1>9 DEF AppsShows, AppsTypes, AppsFields
<1>11. PICK q : q = [op |-> "remove", arg |-> k, at |-> "sent", got |-> Nothing]
  OBVIOUS
<1>12. PICK s \in Slots : TakenBy(s, q)
  BY <1>1, <1>11, FetchTakes DEF Confirm, Request, AppsBody
<1>13. calls'[s] = q /\ \A d \in Slots \ {s} : calls'[d] = calls[d] /\ (Out(d)' <=> Out(d))
  BY <1>11, <1>12, TakenOut DEF Free
<1>14. OutAs("items")' = OutAs("items")
  <2>1. calls[s] = Free
    BY <1>12 DEF TakenBy
  <2> QED BY <1>11, <1>13, <2>1 DEF OutAs, Free, Slots
<1>15. server' = server /\ AppsCall(q)
  BY <1>2, <1>11 DEF Confirm, Only, AppsCall
<1> QED BY <1>1, <1>2, <1>7, <1>10, <1>13, <1>14, <1>15, AppsCalled DEF AppsShows

LEMMA RemovalServed ==
    ASSUME AppsBody, AppsShows, NEW c \in Slots, ListFetched(c) \/ RevokeToken(c)
    PROVE  AppsShows'
<1>1. /\ calls[c].op \in {"items", "remove"} /\ calls[c].op # "none" /\ Out(c) /\ ui' = ui /\ CallsShape
      /\ calls[c] # Free
  BY DEF ListFetched, RevokeToken, Sent, Only, Out, Free, AppsBody
<1>2. PICK k : k = calls[c].arg
  OBVIOUS
<1>3. server' = server \/ \E x \in {"in", "accessible", "out"} : calls[c].op = "remove" /\ server' = [server EXCEPT ![k] = x]
  <2>1. CASE ListFetched(c)
    BY <2>1 DEF ListFetched, Only
  <2>2. CASE RevokeToken(c)
    <3>1. calls[c].op = "remove"
      BY <2>2 DEF RevokeToken, Sent
    <3>2. k \in Items
      BY <1>1, <1>2, <3>1 DEF AppsShows, AppsCall
    <3>3. server[k] \in {"in", "accessible", "out"}
      BY <3>2 DEF AppsShows
    <3>4. PICK x : x = (IF server[k] = "in" THEN "out" ELSE server[k])
      OBVIOUS
    <3>5. x \in {"in", "accessible", "out"}
      BY <3>3, <3>4
    <3>6. server' = [server EXCEPT ![k] = x] \/ server' = [server EXCEPT ![k] = "accessible"]
      BY <1>2, <2>2, <3>4 DEF RevokeToken
    <3> QED BY <3>1, <3>5, <3>6
  <2> QED BY <2>1, <2>2
<1>4. server' \in [Items -> {"in", "accessible", "out"}]
  BY <1>3 DEF AppsShows
<1>5. \/ \E got : Answer(c, got) /\ (calls[c].op = "items" => got \subseteq Items)
      \/ calls[c].op = "remove" /\ calls' = [calls EXCEPT ![c].at = "failed"]
  <2>1. CASE ListFetched(c)
    <3>1. PICK got : got = {k2 \in Items : server[k2] = "in"}
      OBVIOUS
    <3>2. Answer(c, got) /\ got \subseteq Items
      BY <2>1, <3>1 DEF ListFetched
    <3> QED BY <3>2
  <2>2. CASE RevokeToken(c)
    <3>1. calls[c].op = "remove" /\ calls[c].op # "items"
      BY <2>2 DEF RevokeToken, Sent
    <3> QED BY <2>2, <3>1 DEF RevokeToken
  <2> QED BY <2>1, <2>2
<1>6. PICK at, got : SettledAs(c, at, got) /\ (calls[c].op = "items" => got \subseteq Items)
  <2>1. CASE \E got : Answer(c, got) /\ (calls[c].op = "items" => got \subseteq Items)
    BY <1>1, <2>1, AnswerSettles
  <2>2. CASE calls[c].op = "remove" /\ calls' = [calls EXCEPT ![c].at = "failed"]
    <3>1. SettledAs(c, "failed", calls[c].got)
      BY <1>1, <2>2 DEF CallsShape, IsCall, SettledAs, Others
    <3> QED BY <2>2, <3>1
  <2> QED BY <1>5, <2>1, <2>2
<1>7. /\ calls'[c].op = calls[c].op /\ calls'[c].arg = calls[c].arg /\ calls'[c].got = got
      /\ \A d \in Slots \ {c} : calls'[d] = calls[d] /\ (Out(d)' <=> Out(d))
  BY <1>1, <1>6, SettledOut
<1>8. OutAs("items")' = OutAs("items") /\ OutAs("remove")' = OutAs("remove")
  BY <1>6, OutSettled
<1>9. AppsCall(calls'[c])
  BY <1>1, <1>6, <1>7 DEF AppsShows, AppsCall
<1> QED BY <1>1, <1>4, <1>7, <1>8, <1>9, AppsCalled DEF AppsShows

(* A list that comes in, and a row that leaves it.                          *)
LEMMA RelistedIs ==
    ASSUME NEW p, AppsTypes(p), NEW list \in SUBSET Items, NEW u, u = Relist(p, list), p.revoked \cap list = {}
    PROVE  AppsTypes(u) /\ u.list = list /\ u.revoked = p.revoked
<1>1. PICK pop : pop = [open |-> IF p.pop.open \in list THEN p.pop.open ELSE Nothing,
                        busy |-> p.pop.busy \cap list, err |-> p.pop.err \cap list]
  OBVIOUS
<1>2. PopIs(pop)
  BY <1>1 DEF PopIs, AppsTypes
<1>3. u = [p EXCEPT !.list = list, !.pop = pop]
  BY <1>1 DEF Relist, AppsTypes, AppsFields
<1> QED BY <1>2, <1>3 DEF AppsTypes, AppsFields

LEMMA ListComes ==
    ASSUME AppsBody, AppsShows, NEW c \in Slots, AppsLoaded(c)
    PROVE  AppsShows'
<1>1. calls[c].op = "items" /\ Out(c) /\ c \in OutAs("items") /\ server' = server /\ Done(c)
  BY DEF AppsLoaded, Back, Ok, Failed, OutAs, Out, Free, Only
<1>2. LeftWith(c, Free)
  BY <1>1, DoneLeaves DEF AppsBody
<1>3. ~Out(c)' /\ \A d \in Slots \ {c} : calls'[d] = calls[d] /\ (Out(d)' <=> Out(d))
  BY <1>2, LeftOut
<1>4. OutAs("items")' = {} /\ OutAs("remove")' = {}
  BY <1>1, <1>2, OutLeft DEF AppsBody, PopFits, Free
<1>5. ui.revoked = {} /\ ui.pop.open = Nothing
  BY <1>1 DEF AppsShows, AppsBody, PopFits
<1>6. AppsTypes(ui') /\ (ui'.pop.open # Nothing => ui'.list \subseteq Items)
  <2>1. CASE Ok(c, "items")
    <3>1. PICK list : list = calls[c].got
      OBVIOUS
    <3>2. list \in SUBSET Items
      BY <1>1, <2>1, <3>1 DEF AppsShows, AppsCall, Ok
    <3>3. ui' = Relist(ui, list)
      BY <2>1, <3>1 DEF AppsLoaded, Page
    <3>4. AppsTypes(ui') /\ ui'.list = list
      BY <1>5, <3>2, <3>3, RelistedIs DEF AppsShows
    <3> QED BY <3>2, <3>4
  <2>2. CASE ~Ok(c, "items")
    <3>1. ui' = [ui EXCEPT !.loadErr = TRUE]
      BY <2>2 DEF AppsLoaded, Page
    <3> QED BY <1>5, <3>1 DEF AppsShows, AppsTypes, AppsFields
  <2> QED BY <2>1, <2>2
<1> QED BY <1>1, <1>3, <1>4, <1>6 DEF AppsShows, AppsCall

LEMMA RowLeaves ==
    ASSUME AppsBody, AppsShows, NEW c \in Slots, Revoked(c)
    PROVE  AppsShows'
<1>1. calls[c].op = "remove" /\ Out(c) /\ c \in OutAs("remove") /\ server' = server /\ Done(c)
  BY DEF Revoked, Back, Ok, Failed, OutAs, Out, Free, Only
<1>2. LeftWith(c, Free)
  BY <1>1, DoneLeaves DEF AppsBody
<1>3. ~Out(c)' /\ \A d \in Slots \ {c} : calls'[d] = calls[d] /\ (Out(d)' <=> Out(d))
  BY <1>2, LeftOut
<1>4. OutAs("items")' = {}
  BY <1>1, <1>2, OutLeft DEF AppsBody, PopFits, Free
<1>5. PICK k : k = calls[c].arg
  OBVIOUS
<1>6. k \in Items /\ ui.list \in SUBSET Items
  BY <1>1, <1>5 DEF AppsShows, AppsCall
<1>7. AppsTypes(ui') /\ ui'.list \subseteq Items
  <2>1. CASE Ok(c, "remove")
    <3>1. PICK list, v : list = ui.list \ {k} /\ v = Relist(ui, list)
      OBVIOUS
    <3>2. ui.revoked \cap list = {} /\ list \in SUBSET Items /\ AppsTypes(ui)
      BY <1>6, <3>1 DEF AppsShows, AppsTypes
    <3>3. AppsTypes(v) /\ v.list = list /\ v.revoked = ui.revoked
      BY <3>1, <3>2, RelistedIs
    <3>4. ui' = [v EXCEPT !.revoked = @ \cup {k}]
      BY <1>5, <2>1, <3>1 DEF Revoked, Page
    <3>5. (v.revoked \cup {k}) \cap list = {}
      BY <3>1, <3>2, <3>3
    <3> QED BY <1>6, <3>2, <3>3, <3>4, <3>5 DEF AppsTypes, AppsFields
  <2>2. CASE ~Ok(c, "remove")
    <3>1. ui' = TurnedDown(ui, k)
      BY <1>5, <2>2 DEF Revoked, Page
    <3>2. CASE k \notin OfList(ui)
      BY <1>6, <3>1, <3>2 DEF TurnedDown, AppsShows
    <3>3. CASE k \in OfList(ui)
      <4>1. PICK pop : pop = [open |-> IF ui.pop.open = k THEN Nothing ELSE ui.pop.open,
                              busy |-> ui.pop.busy \ {k}, err |-> ui.pop.err \cup {k}]
        OBVIOUS
      <4>2. PopIs(pop)
        BY <1>6, <4>1 DEF PopIs, AppsShows, AppsTypes
      <4>3. ui' = [ui EXCEPT !.pop = pop]
        BY <3>1, <3>3, <4>1 DEF TurnedDown, AppsShows, AppsTypes, AppsFields
      <4> QED BY <1>6, <4>2, <4>3 DEF AppsShows, AppsTypes, AppsFields
    <3> QED BY <3>2, <3>3
  <2> QED BY <2>1, <2>2
<1> QED BY <1>1, <1>3, <1>4, <1>7 DEF AppsShows, AppsCall

LEMMA AppsShowsKeeps ==
    ASSUME AppsBody, AppsShows, AppsNext \/ Fails \/ UNCHANGED vars
    PROVE  AppsShows'
<1>1. CASE LeavePopover
  <2>1. PICK pop : pop = [ui.pop EXCEPT !.open = Nothing]
    OBVIOUS
  <2>2. PopIs(pop) /\ pop.open = Nothing
    BY <2>1 DEF AppsShows, AppsTypes, PopIs
  <2>3. ui' = [ui EXCEPT !.pop = pop] /\ UNCHANGED <<server, calls>>
    BY <1>1, <2>1 DEF LeavePopover, Page, Only, AppsShows, AppsTypes, AppsFields
  <2>4. AppsTypes(ui') /\ ui'.list = ui.list /\ ui'.revoked = ui.revoked /\ ui'.pop.open = Nothing
    BY <2>2, <2>3 DEF AppsShows, AppsTypes, AppsFields
  <2> QED BY <2>3, <2>4, AppsStill
<1>2. ASSUME NEW k \in Items, TogglePopover(k) PROVE AppsShows'
  <2>1. PICK open, err : /\ open = (IF ui.pop.open = k THEN Nothing ELSE k)
                         /\ err = ui.pop.err \ {k}
    OBVIOUS
  <2>2. PICK one : one = [ui.pop EXCEPT !.open = open]
    OBVIOUS
  <2>3. PICK pop : pop = [one EXCEPT !.err = err]
    OBVIOUS
  <2>4. one = [open |-> open, busy |-> ui.pop.busy, err |-> ui.pop.err]
    BY <2>2 DEF AppsShows, AppsTypes, PopIs
  <2>5. pop = [open |-> open, busy |-> ui.pop.busy, err |-> err]
    BY <2>3, <2>4
  <2>6. PopIs(pop)
    BY <2>1, <2>5 DEF AppsShows, AppsTypes, PopIs
  <2>7. ui' = [ui EXCEPT !.pop = pop] /\ UNCHANGED <<server, calls>> /\ k \in OfList(ui)
    BY <1>2, <2>1, <2>2, <2>3 DEF TogglePopover, Page, Only, AppsShows, AppsTypes, AppsFields
  <2>8. AppsTypes(ui') /\ ui'.list = ui.list /\ ui'.revoked = ui.revoked
    BY <2>6, <2>7 DEF AppsShows, AppsTypes, AppsFields
  <2>9. ui.list \subseteq Items
    BY <2>7 DEF OfList, AppsShows, AppsTypes
  <2> QED BY <2>7, <2>8, <2>9, AppsStill
<1>3. ASSUME NEW c \in Slots, Fail(c) PROVE AppsShows'
  <2>1. SettledAs(c, "failed", Nothing) /\ Out(c) /\ UNCHANGED <<ui, server>>
    BY <1>3, FailSettles DEF Out, AppsBody
  <2>2. calls[c].op # "none"
    BY <2>1 DEF AppsShows, AppsCall
  <2>3. /\ calls'[c].op = calls[c].op /\ calls'[c].arg = calls[c].arg /\ calls'[c].at = "failed"
        /\ \A d \in Slots \ {c} : calls'[d] = calls[d] /\ (Out(d)' <=> Out(d))
    BY <2>1, <2>2, SettledOut
  <2>4. OutAs("items")' = OutAs("items") /\ OutAs("remove")' = OutAs("remove")
    BY <2>1, OutSettled
  <2>5. AppsCall(calls'[c])
    BY <2>1, <2>3 DEF AppsShows, AppsCall
  <2> QED BY <2>1, <2>3, <2>4, <2>5, AppsCalled DEF AppsShows
<1>4. CASE UNCHANGED vars
  BY <1>4, AppsStill DEF vars, AppsShows
<1> QED BY <1>1, <1>2, <1>3, <1>4, RemovalSent, RemovalServed, ListComes, RowLeaves DEF AppsNext, Fails

LEMMA AppsShowsHolds ==
    /\ Init => AppsShowsInv
    /\ AppsShowsInv /\ [Next]_vars => AppsShowsInv'
    /\ AppsShowsInv =>
         /\ RevokedStayOut
         /\ OnApps =>
              /\ ui.list = Nothing \/ ui.list \subseteq Items
              /\ ui.pop.open \in Items \cup {Nothing} /\ ui.pop.busy \cup ui.pop.err \subseteq Items
              /\ {ui.loadErr, ui.crossed} \subseteq BOOLEAN
              /\ server \in [Items -> {"in", "accessible", "out"}] /\ ui.revoked \subseteq Items
<1>1. Init => AppsShowsInv
  BY StartOn, AppsStarts, AppsShowsFirst DEF AppsShowsInv
<1>2. ASSUME AppsShowsInv, [Next]_vars, OnApps' PROVE AppsBody' /\ AppsShows'
  <2>1. OnApps /\ AppsBody /\ AppsShows
    BY <1>2, PagesStay DEF OnApps, AppsShowsInv
  <2> QED BY <1>2, <2>1, StepOn, AppsKeeps, AppsShowsKeeps
<1>3. AppsShowsInv => RevokedStayOut
  BY DEF AppsShowsInv, AppsShows, AppsTypes, RevokedStayOut
<1>4. ASSUME AppsShowsInv, OnApps PROVE AppsTypes(ui) /\ server \in [Items -> {"in", "accessible", "out"}]
  BY <1>4 DEF AppsShowsInv, AppsShows
<1> QED BY <1>1, <1>2, <1>3, <1>4 DEF AppsShowsInv, AppsTypes, PopIs
=============================================================================
