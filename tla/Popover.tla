------------------------------- MODULE Popover -------------------------------
(***************************************************************************)
(* A popover at its anchor: where it is put, and where the focus goes; and *)
(* the action menu of a row, driven by keys while its items change.        *)
(***************************************************************************)
EXTENDS Browser

OnPopover == page = "popover"
OnMenu == page = "menu"

MARGIN == 2
GAP == 1
WIDTH == 5          \* of the popover; its anchor is one by one
Screens == [h : {8, 12}, w : {9, 12}]
Heights(screen) == 1..(screen.h - 2 * MARGIN)    \* maxHeight

Larger(a, b) == IF a > b THEN a ELSE b
Smaller(a, b) == IF a < b THEN a ELSE b

(* place: its right edge at the anchor's, inside the margins; below it if   *)
(* there is room, or more than above.  Mutated forms: the left edge may go  *)
(* out, it is always below.                                                 *)
Left_Out(a, screen) == a.right - WIDTH
Left(a, screen) == Larger(MARGIN, Smaller(a.right - WIDTH, screen.w - WIDTH - MARGIN))

Top_Below(a, h, screen) == a.bottom + GAP
Top(a, h, screen) ==
    LET top == a.bottom - 1
        roomBelow == screen.h - a.bottom - GAP
        roomAbove == top - GAP
    IN IF roomBelow >= h \/ roomBelow >= roomAbove
         THEN Smaller(a.bottom + GAP, screen.h - h - MARGIN)
         ELSE Larger(MARGIN, top - GAP - h)

Place(a, h, screen) == [left |-> Left(a, screen), top |-> Top(a, h, screen)]

ASSUME PopoverAssumption == Nothing \notin [left : Int, top : Int]

(* Anchors are where the page is scrolled to, in view or just out of it. *)
Anchors(screen) == [bottom : 0..(screen.h + 1), right : {1, screen.w}]
InView(a, screen) == a.bottom \in 1..screen.h

PopoverInit ==
    \E screen \in Screens :
      \E a \in Anchors(screen) :
        /\ InView(a, screen)
        /\ Opens("popover",
                 [open |-> FALSE, screen |-> screen, anchor |-> a, h |-> 1, at |-> Nothing,
                  measured |-> FALSE, focus |-> "anchor"],
                 Nothing, Free)

(* The trigger opens it.  The position is computed before there is anything *)
(* to measure, with a height of 0, and nothing is observed; the focus moves *)
(* in once it is rendered.                                                  *)
OpenPopover ==
    /\ ~ui.open /\ InView(ui.anchor, ui.screen)
    /\ \E h \in Heights(ui.screen) :
         Page([ui EXCEPT !.open = TRUE, !.h = h, !.at = Place(ui.anchor, 0, ui.screen),
                         !.measured = FALSE, !.focus = "inside"])
    /\ Only(<<server, calls>>)

(* What is in it changes its height, and moves nothing. *)
Refills ==
    /\ ui.open
    /\ \E h \in Heights(ui.screen) \ {ui.h} : Page([ui EXCEPT !.h = h, !.measured = FALSE])
    /\ Only(<<server, calls>>)

(* A scroll or a resize: it is placed again, by what it measures. *)
Scrolls ==
    /\ \E a \in Anchors(ui.screen) \ {ui.anchor} :
         Page(IF ui.open THEN [ui EXCEPT !.anchor = a, !.at = Place(a, ui.h, ui.screen), !.measured = TRUE]
              ELSE [ui EXCEPT !.anchor = a])
    /\ Only(<<server, calls>>)

(* Closed while the focus was in it: the browser gives it to nobody, the    *)
(* cleanup to the anchor.  Mutated form: only if it is still inside.        *)
Closed_Nobody(focus) ==
    [ui EXCEPT !.open = FALSE, !.at = Nothing, !.measured = FALSE,
               !.focus = IF focus = "inside" THEN "nobody" ELSE focus]
Closed(focus) ==
    [ui EXCEPT !.open = FALSE, !.at = Nothing, !.measured = FALSE,
               !.focus = IF focus \in {"inside", "nobody"} THEN "anchor" ELSE focus]

(* Escape, the cross, a link in it. *)
EscapePopover == ui.open /\ Page(Closed(ui.focus)) /\ Only(<<server, calls>>)
(* A press outside decides where the focus goes. *)
PressOutside == ui.open /\ Page(Closed("elsewhere")) /\ Only(<<server, calls>>)
(* Tab and Shift-Tab: to the anchor it stays open, to anything else not. *)
TabOut ==
    /\ ui.open /\ ui.focus = "inside"
    /\ Page(Closed("elsewhere")) \/ Page([ui EXCEPT !.focus = "anchor"])
    /\ Only(<<server, calls>>)
PressAnchor == ui.open /\ Page(Closed("anchor")) /\ Only(<<server, calls>>)

PopoverNext ==
    OnPopover /\ (OpenPopover \/ Refills \/ Scrolls \/ EscapePopover \/ PressOutside \/ TabOut \/ PressAnchor)
-----------------------------------------------------------------------------
(* The action menu: the focus is on an item, by its number, or elsewhere.   *)
(* gone remembers that the focused item went away.                          *)
AtTrigger == 0
AtNothing == -1
AtOther == -2

MenuInit ==
    Opens("menu", [open |-> FALSE, items |-> 3, focus |-> AtTrigger, gone |-> FALSE, ran |-> Nothing],
          Nothing, Free)

MenuItems == 1..ui.items
Leaves(u) == [u EXCEPT !.open = FALSE]

(* A click, or the arrow down: the first item has the focus. *)
OpenMenu ==
    /\ ~ui.open
    /\ Page([ui EXCEPT !.open = TRUE, !.focus = 1, !.gone = FALSE, !.ran = Nothing]) /\ Only(<<server, calls>>)

(* go: round and round.  Mutated form: past the last item.                  *)
Go_Past(n) == IF n + 1 \in MenuItems THEN n + 1 ELSE AtTrigger
Go(n) == ((n + ui.items) % ui.items) + 1
MenuKey(k) ==
    /\ ui.open /\ ui.focus \in MenuItems
    /\ LET i == ui.focus - 1
       IN Page(CASE k = "ArrowDown" -> [ui EXCEPT !.focus = Go(i + 1)]
                 [] k = "ArrowUp" -> [ui EXCEPT !.focus = Go(i - 1)]
                 [] k = "Home" -> [ui EXCEPT !.focus = Go(0)]
                 [] k = "End" -> [ui EXCEPT !.focus = Go(ui.items - 1)]
                 [] k = "Escape" -> [Leaves(ui) EXCEPT !.focus = AtTrigger]
                 [] k = "Tab" -> [Leaves(ui) EXCEPT !.focus = AtOther])
    /\ Only(<<server, calls>>)

(* A press outside, or on the trigger. *)
PressOutsideMenu ==
    /\ ui.open /\ \E focus \in {AtTrigger, AtOther} : Page([Leaves(ui) EXCEPT !.focus = focus])
    /\ Only(<<server, calls>>)

(* An item: the menu is closed before it does anything. *)
SelectItem(i) ==
    /\ ui.open /\ i \in MenuItems
    /\ Page([Leaves(ui) EXCEPT !.focus = AtTrigger, !.ran = i]) /\ Only(<<server, calls>>)

(* The row's session ends, in this menu's last item but one: the items      *)
(* behind it move up, and a focus on it is lost.                            *)
ItemGoes ==
    /\ ui.items = 3
    /\ Page([ui EXCEPT !.items = 2, !.gone = @ \/ (ui.open /\ ui.focus = 2),
                       !.focus = IF ~ui.open \/ @ \notin 2..3 THEN @ ELSE IF @ = 2 THEN AtNothing ELSE 2])
    /\ Only(<<server, calls>>)

MenuNext ==
    /\ OnMenu
    /\ \/ OpenMenu \/ PressOutsideMenu \/ ItemGoes
       \/ \E k \in {"ArrowDown", "ArrowUp", "Home", "End", "Escape", "Tab"} : MenuKey(k)
       \/ \E i \in 1..3 : SelectItem(i)
-----------------------------------------------------------------------------
PopoverTypeOK ==
    /\ OnPopover => /\ {ui.open, ui.measured} \subseteq BOOLEAN /\ ui.h \in Heights(ui.screen)
                    /\ ui.at = Nothing <=> ~ui.open
    /\ OnMenu => /\ ui.items \in 2..3 /\ {ui.open, ui.gone} \subseteq BOOLEAN

(* Once it was placed by what it measures, a popover of an anchor in view   *)
(* is in view with all its height and width, wherever the anchor is.        *)
PopoverStaysInView ==
    (OnPopover /\ ui.measured /\ InView(ui.anchor, ui.screen)) =>
      /\ ui.at.top >= 0 /\ ui.at.top + ui.h <= ui.screen.h
      /\ ui.at.left >= 0 /\ ui.at.left + WIDTH <= ui.screen.w

(* The focus is not lost with the popover, whatever closed it.              *)
FocusIsHandedBack == OnPopover => ui.focus # "nobody"

(* In an open menu the focus is on an item of it, so that the keys work,    *)
(* unless the item that had it went away.                                   *)
KeysStayInTheMenu == (OnMenu /\ ui.open /\ ~ui.gone) => ui.focus \in MenuItems
=============================================================================
