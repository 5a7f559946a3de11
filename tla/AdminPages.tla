----------------------------- MODULE AdminPages -----------------------------
(***************************************************************************)
(* The admin pages: the guard in front of them, the totals, the session    *)
(* browser with its filter, and the users with their admin and quota       *)
(* controls.  Another admin uses the same API at the same time.  The live  *)
(* limit stands for both limits of the quota; it is edited on Rival's row. *)
(***************************************************************************)
EXTENDS Browser

CONSTANTS
    Me,     \* the admin whose browser this is
    Rival   \* the other account

ASSUME AdminAssumption == Me # Rival /\ Nothing \notin {Me, Rival}

OnAdmin == page = "admin"
Accounts == {Me, Rival}
Limits == 1..2
DefaultLimit == 1
Filters == {"all", "live"}
Admins(users) == {a \in Accounts : users[a].admin}

(* No answer to a change is no answer. *)
ASSUME AnswersAssumption == Nothing \notin [admin : BOOLEAN] /\ Nothing \notin [max : Limits, exempt : BOOLEAN]

(* me is asked for first; nothing is fetched before it has answered. *)
AdminInit ==
    \E v \in {"home", "sessions", "users"}, q \in BOOLEAN, f \in Filters :
      /\ v # "sessions" => f = "all"
      /\ Opens("admin",
               [view |-> v, phase |-> "checking", filter |-> f, data |-> Nothing, err |-> FALSE,
                editing |-> FALSE, draft |-> DefaultLimit, saving |-> FALSE, toggling |-> {}],
               [users |-> [a \in Accounts |-> [admin |-> a = Me \/ q, max |-> DefaultLimit, exempt |-> FALSE]],
                live |-> TRUE, counted |-> Nothing, raced |-> FALSE],
               Request("me", Nothing))

(* What a session row of the browser says, for the filter it was asked for. *)
RowsOf(filter) == [filter |-> filter, rows |-> IF filter = "all" \/ server.live THEN {"session"} ELSE {}]

(* requireAdmin answers 403 to anybody else. *)
ServeAdminRead(c) ==
    /\ OutAs("me") \cup OutAs("stats") \cup OutAs("sessions") \cup OutAs("users") # {}
    /\ LET admin == Me \in Admins(server.users) IN
         \/ Sent(c, "me") /\ Answer(c, IF admin THEN "admin" ELSE "denied")
         \/ Sent(c, "stats") /\ Answer(c, IF admin THEN "stats" ELSE "denied")
         \/ Sent(c, "sessions") /\ Answer(c, IF admin THEN RowsOf(calls[c].arg) ELSE Nothing)
         \/ Sent(c, "users") /\ Answer(c, IF admin THEN server.users ELSE Nothing)
    /\ Only(<<ui, server>>)

(* useAdminGuard, and the same in the totals' own effect; then each view    *)
(* fetches its data.                                                        *)
Guarded(c) ==
    /\ Back(c, "me")
    /\ IF calls[c].got = "admin"
         THEN /\ Page([ui EXCEPT !.phase = "ok"])
              /\ CASE ui.view = "home" -> ThenFetch(c, "stats", Nothing)
                   [] ui.view = "users" -> ThenFetch(c, "users", Nothing)
                   [] OTHER -> ThenFetch(c, "sessions", ui.filter)
         ELSE Page([ui EXCEPT !.phase = "denied"]) /\ Done(c)
    /\ Only(server)

(* Totals: a refusal sends away, any other failure is shown. *)
TotalsAnswered(c) ==
    /\ Back(c, "stats")
    /\ Page(CASE calls[c].got = "stats" -> [ui EXCEPT !.data = "stats"]
              [] calls[c].got = "denied" -> [ui EXCEPT !.phase = "denied"]
              [] OTHER -> [ui EXCEPT !.err = TRUE])
    /\ Done(c) /\ Only(server)

(* A filter starts over: the effect aborts the request of the one before.   *)
(* Mutated form: nothing is aborted.                                        *)
PickFilter_KeepsRequest(f) ==
    /\ ui.view = "sessions" /\ ui.phase = "ok" /\ f # ui.filter
    /\ Page([ui EXCEPT !.filter = f, !.data = Nothing, !.err = FALSE])
    /\ Fetch("sessions", f) /\ Only(server)
PickFilter(f) ==
    /\ ui.view = "sessions" /\ ui.phase = "ok" /\ f # ui.filter
    /\ Page([ui EXCEPT !.filter = f, !.data = Nothing, !.err = FALSE])
    /\ calls' = [NoCalls EXCEPT ![1] = Request("sessions", f)] /\ Only(server)

SessionsAnswered(c) ==
    /\ Back(c, "sessions")
    /\ Page(IF calls[c].got = Nothing THEN [ui EXCEPT !.err = TRUE] ELSE [ui EXCEPT !.data = calls[c].got])
    /\ Done(c) /\ Only(server)

UsersAnswered(c) ==
    /\ Back(c, "users")
    /\ Page(IF calls[c].got = Nothing THEN [ui EXCEPT !.err = TRUE] ELSE [ui EXCEPT !.data = calls[c].got])
    /\ Done(c) /\ Only(server)

(* The table: rows with their controls, once there are users. *)
Listed_Users == ui.view = "users" /\ ui.phase = "ok" /\ ~ui.err /\ ui.data # Nothing

(* AdminToggle: one change of a row at a time. *)
SetAdmin(a) ==
    /\ Listed_Users /\ a \notin ui.toggling
    /\ Page([ui EXCEPT !.toggling = @ \cup {a}])
    /\ Fetch("admin", [who |-> a, is |-> ~ui.data[a].admin]) /\ Only(server)

(* SetUserAdmin: a revoke is refused for one's own and for the last admin.  *)
(* The admins are counted in a statement before the one that writes.        *)
(* Mutated form: neither refusal.                                           *)
CountAdmins_Any(c) ==
    /\ Sent(c, "admin")
    /\ calls' = [calls EXCEPT ![c].at = "counted"] /\ Only(<<ui, server>>)
CountAdmins(c) ==
    /\ Sent(c, "admin")
    /\ LET a == calls[c].arg IN
         IF Me \in Admins(server.users)
            /\ (a.is \/ (a.who # Me /\ Cardinality(Admins(server.users)) > 1))
           THEN /\ calls' = [calls EXCEPT ![c].at = "counted"]
                /\ server' = [server EXCEPT !.raced = @ \/ (~a.is /\ server.counted # Nothing)]
           ELSE Answer(c, Nothing) /\ UNCHANGED server
    /\ Only(ui)

WriteAdmin(c) ==
    /\ calls[c].op = "admin" /\ calls[c].at = "counted"
    /\ server' = [server EXCEPT !.users[calls[c].arg.who].admin = calls[c].arg.is]
    /\ Answer(c, [admin |-> calls[c].arg.is]) /\ Only(ui)

(* The other admin revokes this one, through the same two statements. *)
RivalCounts ==
    /\ server.counted = Nothing /\ Accounts = Admins(server.users)
    /\ Elsewhere([server EXCEPT !.counted = Me,
                                !.raced = @ \/ \E c \in Slots : calls[c].op = "admin" /\ calls[c].at = "counted"])
RivalWrites ==
    /\ server.counted # Nothing
    /\ server' = [server EXCEPT !.counted = Nothing, !.users[server.counted].admin = FALSE]
    /\ UNCHANGED <<page, ui, calls, faults, outside>>

(* patchUser merges what was answered into the row as it is by then.        *)
(* Mutated form: into the row the control was rendered with.                *)
Merged(row, new) == [f \in DOMAIN row |-> IF f \in DOMAIN new THEN new[f] ELSE row[f]]
Patched_Whole(a, new) ==
    [ui EXCEPT !.data[a] = Merged([admin |-> FALSE, max |-> DefaultLimit, exempt |-> FALSE], new)]
Patched(a, new) == [ui EXCEPT !.data[a] = Merged(@, new)]

AdminAnswered(c) ==
    /\ Back(c, "admin")
    /\ LET a == calls[c].arg.who
           p == IF calls[c].got = Nothing THEN ui ELSE Patched(a, calls[c].got)
       IN Page([p EXCEPT !.toggling = @ \ {a}])
    /\ Done(c) /\ Only(server)

(* QuotaControls.  Exempt: Enforce; not editing: Edit and Remove limits;    *)
(* editing: the field, Save and Cancel, which keeps what was typed.         *)
Row == ui.data[Rival]
EditQuota ==
    /\ Listed_Users /\ ~Row.exempt
    /\ \/ ~ui.editing /\ Page([ui EXCEPT !.editing = TRUE])
       \/ ui.editing /\ \E n \in Limits : n # ui.draft /\ Page([ui EXCEPT !.draft = n])
       \/ ui.editing /\ ~ui.saving /\ Page([ui EXCEPT !.editing = FALSE])
    /\ Only(<<server, calls>>)

SaveQuota(max, exempt) ==
    /\ Listed_Users /\ ~ui.saving
    /\ Page([ui EXCEPT !.saving = TRUE])
    /\ Fetch("quota", [max |-> max, exempt |-> exempt]) /\ Only(server)
QuotaButtons ==
    \/ Listed_Users /\ Row.exempt /\ SaveQuota(Nothing, FALSE)
    \/ Listed_Users /\ ~Row.exempt /\ ~ui.editing /\ SaveQuota(Nothing, TRUE)
    \/ Listed_Users /\ ~Row.exempt /\ ui.editing /\ SaveQuota(ui.draft, FALSE)

(* SetUserQuota: a limit left out goes back to the default.  What it        *)
(* answers with is read after the write, and may be missing: no fields.     *)
ServeQuota(c) ==
    /\ Sent(c, "quota")
    /\ IF Me \in Admins(server.users)
         THEN LET a == calls[c].arg
                  new == [max |-> IF a.max = Nothing THEN DefaultLimit ELSE a.max, exempt |-> a.exempt]
              IN /\ server' = [server EXCEPT !.users[Rival] = [@ EXCEPT !.max = new.max, !.exempt = new.exempt]]
                 /\ \/ Answer(c, new) /\ UNCHANGED faults
                    \/ faults < MaxFaults /\ faults' = faults + 1
                       /\ Answer(c, [max |-> Nothing, exempt |-> FALSE])
         ELSE Answer(c, Nothing) /\ UNCHANGED <<server, faults>>
    /\ UNCHANGED <<page, ui, outside>>

QuotaAnswered(c) ==
    /\ Back(c, "quota")
    /\ Page(IF calls[c].got = Nothing THEN [ui EXCEPT !.saving = FALSE]
            ELSE [Patched(Rival, calls[c].got) EXCEPT !.saving = FALSE, !.editing = FALSE])
    /\ Done(c) /\ Only(server)

AdminNext ==
    /\ OnAdmin
    /\ \/ RivalCounts \/ RivalWrites \/ EditQuota \/ QuotaButtons
       \/ \E f \in Filters : PickFilter(f)
       \/ \E a \in Accounts : SetAdmin(a)
       \/ \E c \in Slots :
            \/ ServeAdminRead(c) \/ Guarded(c) \/ TotalsAnswered(c) \/ SessionsAnswered(c) \/ UsersAnswered(c)
            \/ CountAdmins(c) \/ WriteAdmin(c) \/ AdminAnswered(c) \/ ServeQuota(c) \/ QuotaAnswered(c)
-----------------------------------------------------------------------------
AdminTypeOK ==
    OnAdmin =>
      /\ ui.phase \in {"checking", "ok", "denied"} /\ ui.filter \in Filters
      /\ server.users \in [Accounts -> [admin : BOOLEAN, max : Limits, exempt : BOOLEAN]]
      /\ ui.draft \in Limits /\ ui.toggling \subseteq Accounts
      /\ {ui.err, ui.editing, ui.saving, server.raced} \subseteq BOOLEAN

(* The rows on the page are those of the filter it shows, however quickly   *)
(* the filters are clicked and in whatever order the API answers.           *)
RowsOfTheFilter ==
    (OnAdmin /\ ui.view = "sessions" /\ ui.data # Nothing) => ui.data.filter = ui.filter

(* Two controls of one row saved at the same time do not undo one another   *)
(* on the page: when all is answered, the row is the API's.                 *)
UsersAreCurrent ==
    (OnAdmin /\ Listed_Users /\ Quiet /\ faults = 0 /\ outside = 0) => ui.data = server.users

(* Revoking one admin after another stops at the last one: two revokes      *)
(* counted before either is written are the exception.                      *)
AdminsRemain == (OnAdmin /\ ~server.raced) => Admins(server.users) # {}
=============================================================================
