----------------------------- MODULE ThemeChoice -----------------------------
(***************************************************************************)
(* Light, dark or as the system: the choice that is stored, the palette    *)
(* that is on the page, and the system's own changes.  Its server is the   *)
(* browser's storage and the system's preference.                          *)
(***************************************************************************)
EXTENDS Browser

OnTheme == page = "theme"

Palettes == {"light", "dark"}
Modes == Palettes \cup {"system"}

ASSUME ThemeAssumption == Nothing \notin Modes \cup {"mount"}

NextMode == [system |-> "light", light |-> "dark", dark |-> "system"]
Resolve(mode, os) == IF mode \in Palettes THEN mode ELSE os
Saved(s) == IF s.saved = Nothing THEN "system" ELSE s.saved

(* The script in <head> has put the saved palette on the page; the provider *)
(* begins with "system" and has not run its effects.                        *)
Loads(s) ==
    [mode |-> "system", applied |-> Resolve(Saved(s), s.os), resolved |-> "dark",
     listens |-> FALSE, queued |-> "mount"]

ThemeInit ==
    \E saved \in Modes \cup {Nothing}, os \in Palettes :
      LET s == [saved |-> saved, os |-> os] IN Opens("theme", Loads(s), s, Free)

(* The effect of a mode: put it on the page and, for "system" only, listen  *)
(* to the system.  Mutated form: whoever listened goes on listening.        *)
Takes_Listening(u, mode) ==
    [u EXCEPT !.mode = mode, !.applied = Resolve(mode, server.os), !.resolved = Resolve(mode, server.os),
              !.listens = @ \/ mode = "system", !.queued = Nothing]
Takes(u, mode) ==
    [u EXCEPT !.mode = mode, !.applied = Resolve(mode, server.os), !.resolved = Resolve(mode, server.os),
              !.listens = mode = "system", !.queued = Nothing]

(* The effects of mounting: the saved choice is queued, and "system" is     *)
(* applied first.  The next render takes the choice.                        *)
Mounts ==
    /\ ui.queued = "mount"
    /\ Page([Takes(ui, "system") EXCEPT !.queued = Saved(server)]) /\ Only(<<server, calls>>)
TakesSaved ==
    /\ ui.queued \in Modes /\ Page(Takes(ui, ui.queued)) /\ Only(<<server, calls>>)

(* The toggle, and the palette's action: storage may refuse. *)
SetMode ==
    /\ ui.queued = Nothing
    /\ Page(Takes(ui, NextMode[ui.mode]))
    /\ \/ server' = [server EXCEPT !.saved = NextMode[ui.mode]] /\ UNCHANGED faults
       \/ faults < MaxFaults /\ faults' = faults + 1 /\ UNCHANGED server
    /\ UNCHANGED <<page, calls, outside>>

ReloadTheme == ui.queued = Nothing /\ Page(Loads(server)) /\ Only(<<server, calls>>)

(* The system turns dark or light: a page that listens follows at once. *)
SystemTurns ==
    /\ outside < MaxOutside /\ outside' = outside + 1
    /\ \E os \in Palettes \ {server.os} :
         /\ server' = [server EXCEPT !.os = os]
         /\ Page(IF ui.listens THEN [ui EXCEPT !.applied = os, !.resolved = os] ELSE ui)
    /\ UNCHANGED <<page, calls, faults>>

ThemeNext == OnTheme /\ (Mounts \/ TakesSaved \/ SetMode \/ ReloadTheme \/ SystemTurns)
-----------------------------------------------------------------------------
ThemeTypeOK ==
    OnTheme => /\ ui.mode \in Modes /\ {ui.applied, ui.resolved} \subseteq Palettes
               /\ ui.listens \in BOOLEAN /\ ui.queued \in Modes \cup {"mount", Nothing}

(* The palette of the page, the one components are told of and the one the  *)
(* mode asks for on this system are the same, whoever turned when; and the  *)
(* mode is the one that was stored, unless storage refused it.              *)
PaletteFitsTheMode ==
    (OnTheme /\ ui.queued = Nothing) =>
      /\ ui.applied = Resolve(ui.mode, server.os) /\ ui.resolved = ui.applied
      /\ faults = 0 => ui.mode = Saved(server)
=============================================================================
