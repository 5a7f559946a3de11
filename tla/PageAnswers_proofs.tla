-------------------------- MODULE PageAnswers_proofs --------------------------
(***************************************************************************)
(* Theorems about what the pages show of what was asked last, for any      *)
(* number of requests, faults and changes made elsewhere: the admin pages, *)
(* a new session, the sidebar, the landing, the feed and the palette, and  *)
(* with the pages of PageShows_proofs the invariants over all of them.     *)
(***************************************************************************)
EXTENDS PageShows_proofs

-----------------------------------------------------------------------------
(* The admin pages.  me is asked for alone, and then the users: until they  *)
(* have come there is nothing to change.  Then, where nothing failed and no *)
(* other admin came between, each field of each row is the API's, unless a  *)
(* change of it has been written and its answer is still to come, and that  *)
(* answer is the API's.                                                     *)

AdminFields == {"view", "phase", "filter", "data", "err", "editing", "draft", "saving", "toggling"}
AccountRows == [admin : BOOLEAN, max : Limits, exempt : BOOLEAN]
ShownRows == [admin : BOOLEAN, max : Limits \cup {Nothing}, exempt : BOOLEAN]
AdminTypes(u) ==
    /\ u = [f \in AdminFields |-> u[f]]
    /\ u.view \in {"home", "sessions", "users"} /\ u.phase \in {"checking", "ok", "denied"}
    /\ u.filter \in Filters /\ u.draft \in Limits /\ u.toggling \subseteq Accounts
    /\ u.err \in BOOLEAN /\ u.editing \in BOOLEAN /\ u.saving \in BOOLEAN
AdminHeld(s) ==
    /\ s = [users |-> s.users, live |-> s.live, counted |-> s.counted, raced |-> s.raced]
    /\ s.users \in [Accounts -> AccountRows] /\ s.raced \in BOOLEAN /\ s.counted \in {Nothing, Me}
AdminCall(r) ==
    /\ r.op \in {"me", "stats", "sessions", "users", "admin", "quota"}
    /\ r.at = "failed" => r.got = Nothing
    /\ r.op = "sessions" /\ r.at = "ok" => r.got = Nothing \/ r.got.filter = r.arg
    /\ r.op = "users" /\ r.at = "ok" => r.got = Nothing \/ r.got \in [Accounts -> AccountRows]
    /\ r.op = "admin" => /\ r.arg = [who |-> r.arg.who, is |-> r.arg.is]
                         /\ r.arg.who \in Accounts /\ r.arg.is \in BOOLEAN
                         /\ r.at = "ok" => r.got = Nothing \/ r.got \in [admin : BOOLEAN]
    /\ r.op = "quota" => /\ r.arg \in [max : Limits \cup {Nothing}, exempt : BOOLEAN]
                         /\ r.at = "ok" => r.got = Nothing \/ r.got \in [max : Limits \cup {Nothing}, exempt : BOOLEAN]
AsksFor(u, r) ==
    /\ r.op = "me" => u.phase = "checking" /\ u.data = Nothing
    /\ r.op = "users" => u.view = "users" /\ u.data = Nothing
    /\ r.op = "stats" => u.view = "home"
    /\ r.op = "sessions" => u.view = "sessions" /\ r.arg = u.filter
    /\ r.op = "admin" => r.arg.who \in u.toggling
    /\ r.op = "quota" => u.saving
UsersCame(u) == u.view = "users" /\ u.phase = "ok" /\ ~u.err /\ OutAs("users") = {}

Written(c) == calls[c].at = "ok" /\ calls[c].got # Nothing
RowsFit(data, users) ==
    /\ \A a \in Accounts : (\A c \in OutAs("admin") : Written(c) => calls[c].arg.who # a) => data[a].admin = users[a].admin
    /\ \A c \in OutAs("admin") : Written(c) => calls[c].got.admin = users[calls[c].arg.who].admin
    /\ \A a \in Accounts : (\A c \in OutAs("quota") : Written(c) => a # Rival) =>
         data[a].max = users[a].max /\ data[a].exempt = users[a].exempt
    /\ \A c \in OutAs("quota") : Written(c) =>
         calls[c].got.max = users[Rival].max /\ calls[c].got.exempt = users[Rival].exempt
OneChange ==
    /\ \A c, d \in OutAs("admin") : calls[c].arg.who = calls[d].arg.who => c = d
    /\ \A c, d \in OutAs("quota") : c = d
AskedFirst == \A c \in OutAs("me") \cup OutAs("users") : \A d \in Slots \ {c} : ~Out(d)
ShowsRows(u) == u.view = "sessions" /\ u.data # Nothing => u.data.filter = u.filter
Undisturbed == faults = 0 /\ outside = 0
AsTheApiHas ==
    /\ \A c \in Slots : Out(c) => calls[c].at # "failed"
    /\ \A c \in OutAs("users") : calls[c].at = "ok" => calls[c].got \in {Nothing, server.users}
    /\ UsersCame(ui) => RowsFit(ui.data, server.users)
UsersBody ==
    /\ CallsShape /\ AdminTypes(ui) /\ AdminHeld(server) /\ faults \in Nat /\ outside \in Nat
    /\ outside = 0 => server.counted = Nothing
    /\ \A c \in Slots : Out(c) => AdminCall(calls[c]) /\ AsksFor(ui, calls[c])
    /\ OneChange /\ AskedFirst /\ ShowsRows(ui)
    /\ UsersCame(ui) => ui.data \in [Accounts -> ShownRows]
    /\ OutAs("admin") \cup OutAs("quota") # {} => UsersCame(ui)
    /\ Undisturbed => AsTheApiHas
UsersInv == OnAdmin => UsersBody

LEMMA UsersStarts == AdminInit => UsersBody
<1> SUFFICES ASSUME AdminInit PROVE UsersBody
  OBVIOUS
<1>1. PICK v \in {"home", "sessions", "users"}, q \in BOOLEAN, f \in Filters :
        Opens("admin",
               [view |-> v, phase |-> "checking", filter |-> f, data |-> Nothing, err |-> FALSE,
                editing |-> FALSE, draft |-> DefaultLimit, saving |-> FALSE, toggling |-> {}],
               [users |-> [a \in Accounts |-> [admin |-> a = Me \/ q, max |-> DefaultLimit, exempt |-> FALSE]],
                live |-> TRUE, counted |-> Nothing, raced |-> FALSE],
               Request("me", Nothing))
  BY DEF AdminInit
<1>2. PICK users : users = [a \in Accounts |-> [admin |-> a = Me \/ q, max |-> DefaultLimit, exempt |-> FALSE]]
  OBVIOUS
<1>3. users \in [Accounts -> AccountRows]
  <2>1. \A a \in Accounts : (a = Me \/ q) \in BOOLEAN
    OBVIOUS
  <2>2. DefaultLimit \in Limits
    BY DEF DefaultLimit, Limits
  <2>3. ASSUME NEW a \in Accounts PROVE users[a] \in AccountRows
    <3>1. PICK b \in BOOLEAN : b = (a = Me \/ q)
      OBVIOUS
    <3>2. users[a] = [admin |-> b, max |-> DefaultLimit, exempt |-> FALSE]
      BY <1>2, <3>1
    <3> QED BY <2>2, <3>2 DEF AccountRows
  <2> QED BY <1>2, <2>3
<1>4. PICK state : state = [view |-> v, phase |-> "checking", filter |-> f, data |-> Nothing, err |-> FALSE,
                            editing |-> FALSE, draft |-> DefaultLimit, saving |-> FALSE, toggling |-> {}]
  OBVIOUS
<1>5. Opens("admin", state, [users |-> users, live |-> TRUE, counted |-> Nothing, raced |-> FALSE], Request("me", Nothing))
  BY <1>1, <1>2, <1>4
<1>6. IsCall(Request("me", Nothing))
  BY DEF IsCall, Request
<1>7. /\ ui = state /\ server = [users |-> users, live |-> TRUE, counted |-> Nothing, raced |-> FALSE]
      /\ CallsShape /\ 1 \in Slots /\ calls[1] = Request("me", Nothing) /\ \A c \in Slots \ {1} : calls[c] = Free
  BY <1>5, <1>6, OpensWith
<1>8. AdminTypes(ui) /\ ui.phase = "checking" /\ ui.data = Nothing
  <2>1. DefaultLimit \in Limits /\ v \in {"home", "sessions", "users"} /\ f \in Filters
    BY DEF DefaultLimit, Limits
  <2>2. ui = [g \in AdminFields |-> ui[g]]
    BY <1>4, <1>7 DEF AdminFields
  <2>3. /\ ui.view = v /\ ui.phase = "checking" /\ ui.filter = f /\ ui.data = Nothing /\ ui.err = FALSE
        /\ ui.editing = FALSE /\ ui.draft = DefaultLimit /\ ui.saving = FALSE /\ ui.toggling = {}
    BY <1>4, <1>7
  <2> QED BY <2>1, <2>2, <2>3 DEF AdminTypes
<1>9. AdminHeld(server) /\ server.counted = Nothing
  BY <1>3, <1>7 DEF AdminHeld
<1>10. /\ calls[1].op = "me" /\ calls[1].at = "sent" /\ \A c \in Slots \ {1} : ~Out(c)
  BY <1>7 DEF Request, Out
<1>11. /\ OutAs("me") = {1} /\ OutAs("users") = {} /\ OutAs("admin") = {} /\ OutAs("quota") = {}
  BY <1>7 DEF OutAs, Request, Free
<1>12. \A c \in Slots : Out(c) => AdminCall(calls[c]) /\ AsksFor(ui, calls[c]) /\ calls[c].at # "failed"
  BY <1>8, <1>10 DEF AdminCall, AsksFor
<1>13. ~UsersCame(ui) /\ ShowsRows(ui)
  BY <1>8 DEF UsersCame, ShowsRows
<1>14. OneChange /\ AskedFirst
  BY <1>10, <1>11 DEF OneChange, AskedFirst
<1>15. AsTheApiHas
  BY <1>11, <1>12, <1>13 DEF AsTheApiHas
<1>16. faults = 0 /\ outside = 0
  BY <1>5 DEF Opens
<1> QED BY <1>7, <1>8, <1>9, <1>11, <1>12, <1>13, <1>14, <1>15, <1>16 DEF UsersBody

(* The fields of the quota, and what the other admin does.                  *)
LEMMA UsersStill ==
    ASSUME UsersBody, UNCHANGED calls, AdminTypes(ui'), AdminHeld(server'), faults' \in Nat, outside' \in Nat,
           outside' = 0 => server'.counted = Nothing,
           ui'.view = ui.view, ui'.phase = ui.phase, ui'.filter = ui.filter, ui'.data = ui.data, ui'.err = ui.err,
           ui'.toggling = ui.toggling, ui'.saving = ui.saving,
           Undisturbed' => Undisturbed /\ server'.users = server.users
    PROVE  UsersBody'
<1>1. /\ OutAs("me")' = OutAs("me") /\ OutAs("users")' = OutAs("users")
      /\ OutAs("admin")' = OutAs("admin") /\ OutAs("quota")' = OutAs("quota")
      /\ CallsShape' /\ \A c \in Slots : calls'[c] = calls[c] /\ (Out(c)' <=> Out(c)) /\ (Written(c)' <=> Written(c))
  BY DEF OutAs, Slots, UsersBody, CallsShape, Out, Written
<1>2. \A c \in Slots : Out(c)' => AdminCall(calls'[c]) /\ AsksFor(ui', calls'[c])
  BY <1>1 DEF UsersBody, AsksFor
<1>3. OneChange' /\ AskedFirst' /\ ShowsRows(ui') /\ (UsersCame(ui)' <=> UsersCame(ui))
  BY <1>1 DEF UsersBody, OneChange, AskedFirst, ShowsRows, UsersCame
<1>4. ASSUME Undisturbed' PROVE AsTheApiHas'
  <2>1. AsTheApiHas /\ server'.users = server.users
    BY <1>4 DEF UsersBody
  <2>2. PICK data, users : data = ui.data /\ users = server.users
    OBVIOUS
  <2>3. RowsFit(data, users) => RowsFit(data, users)'
    BY <1>1 DEF RowsFit, OutAs
  <2>4. UsersCame(ui)' => RowsFit(ui.data, server.users)'
    BY <1>3, <2>1, <2>2, <2>3 DEF AsTheApiHas, RowsFit
  <2> QED BY <1>1, <1>3, <2>1, <2>4 DEF AsTheApiHas, Slots
<1> QED BY <1>1, <1>2, <1>3, <1>4 DEF UsersBody, Slots

(* A change goes out, of a row that is there and has none of its kind out.  *)
LEMMA ChangeTaken ==
    ASSUME UsersBody, UsersCame(ui), NEW op \in {"admin", "quota"}, NEW arg, Fetch(op, arg),
           UNCHANGED <<server, faults, outside>>, AdminTypes(ui'),
           ui'.view = ui.view, ui'.phase = ui.phase, ui'.filter = ui.filter, ui'.data = ui.data, ui'.err = ui.err,
           ui.toggling \subseteq ui'.toggling, ui.saving => ui'.saving,
           op = "admin" => /\ arg = [who |-> arg.who, is |-> arg.is] /\ arg.who \in Accounts /\ arg.is \in BOOLEAN
                           /\ arg.who \in ui'.toggling /\ \A c \in OutAs("admin") : calls[c].arg.who # arg.who,
           op = "quota" => arg \in [max : Limits \cup {Nothing}, exempt : BOOLEAN] /\ ui'.saving /\ OutAs("quota") = {}
    PROVE  UsersBody'
<1>1. PICK q : q = [op |-> op, arg |-> arg, at |-> "sent", got |-> Nothing]
  OBVIOUS
<1>2. PICK s \in Slots : TakenBy(s, q)
  BY <1>1, FetchTakes DEF Request, UsersBody
<1>3. /\ CallsShape' /\ calls'[s] = q /\ Out(s)' /\ ~Out(s)
      /\ \A d \in Slots \ {s} : calls'[d] = calls[d] /\ (Out(d)' <=> Out(d))
  BY <1>1, <1>2, TakenOut DEF Free
<1>4. calls[s].op = "none" /\ calls'[s].op = op /\ ~Written(s)'
  BY <1>1, <1>2, <1>3 DEF TakenBy, Free, Written
<1>5. OutAs("users")' = {} /\ OutAs("me")' = OutAs("me") /\ OutAs("users") = {}
  BY <1>3, <1>4 DEF OutAs, UsersCame, Slots
<1>6. OutAs("me") = {}
  <2>1. ASSUME NEW c \in OutAs("me") PROVE FALSE
    <3>1. c \in Slots /\ Out(c) /\ calls[c].op = "me"
      BY <2>1 DEF OutAs, Out, Free
    <3>2. ui.phase = "checking"
      BY <3>1 DEF UsersBody, AsksFor
    <3> QED BY <3>2 DEF UsersCame
  <2> QED BY <2>1
<1>7. /\ OutAs(op)' = OutAs(op) \cup {s} /\ s \notin OutAs("admin") \cup OutAs("quota")
      /\ OutAs("admin")' = (IF op = "admin" THEN OutAs("admin") \cup {s} ELSE OutAs("admin"))
      /\ OutAs("quota")' = (IF op = "quota" THEN OutAs("quota") \cup {s} ELSE OutAs("quota"))
  BY <1>3, <1>4 DEF OutAs, Slots
<1>8. AdminCall(q) /\ AsksFor(ui', q)
  BY <1>1 DEF AdminCall, AsksFor
<1>9. ASSUME NEW d \in Slots, Out(d)' PROVE AdminCall(calls'[d]) /\ AsksFor(ui', calls'[d])
  <2>1. CASE d = s
    BY <1>3, <1>8, <2>1
  <2>2. CASE d # s
    <3>1. AdminCall(calls[d]) /\ AsksFor(ui, calls[d]) /\ calls'[d] = calls[d]
      BY <1>3, <1>9, <2>2 DEF UsersBody
    <3>2. calls[d].op # "me" /\ calls[d].op # "users"
      BY <1>5, <1>6 DEF OutAs
    <3> QED BY <3>1, <3>2 DEF AsksFor
  <2> QED BY <2>1, <2>2
<1>10. OneChange'
  BY <1>1, <1>3, <1>7 DEF UsersBody, OneChange, OutAs
<1>11. AskedFirst' /\ ShowsRows(ui') /\ UsersCame(ui)'
  BY <1>5, <1>6 DEF AskedFirst, ShowsRows, UsersCame, UsersBody
<1>12. ASSUME Undisturbed' PROVE AsTheApiHas'
  <2>1. Undisturbed /\ AsTheApiHas
    BY <1>12 DEF Undisturbed, UsersBody
  <2>2. RowsFit(ui.data, server.users)
    BY <2>1 DEF AsTheApiHas
  <2>3. \A d \in OutAs("admin") \cup OutAs("quota") : calls'[d] = calls[d] /\ (Written(d)' <=> Written(d))
    BY <1>3, <1>7 DEF OutAs, Written
  <2>4. RowsFit(ui.data, server.users)'
    BY <1>4, <1>7, <2>2, <2>3 DEF RowsFit
  <2> QED BY <1>1, <1>3, <1>5, <2>1, <2>4 DEF AsTheApiHas
<1> QED BY <1>3, <1>5, <1>7, <1>9, <1>10, <1>11, <1>12 DEF UsersBody, UsersCame

LEMMA AdminSets ==
    ASSUME UsersBody, NEW a \in Accounts, SetAdmin(a)
    PROVE  UsersBody'
<1>1. ui.view = "users" /\ ui.phase = "ok" /\ ~ui.err /\ ui.data # Nothing /\ a \notin ui.toggling
  BY DEF SetAdmin, Listed_Users
<1>2. UsersCame(ui)
  <2>1. ASSUME NEW c \in OutAs("users") PROVE FALSE
    <3>1. c \in Slots /\ Out(c) /\ calls[c].op = "users"
      BY <2>1 DEF OutAs, Out, Free
    <3> QED BY <1>1, <3>1 DEF UsersBody, AsksFor
  <2> QED BY <1>1, <2>1 DEF UsersCame
<1>3. ui.data[a].admin \in BOOLEAN
  BY <1>2 DEF UsersBody, ShownRows
<1>4. PICK is \in BOOLEAN : is = ~ui.data[a].admin
  BY <1>3
<1>5. PICK arg : arg = [who |-> a, is |-> is]
  OBVIOUS
<1>6. /\ ui' = [ui EXCEPT !.toggling = @ \cup {a}] /\ Fetch("admin", arg)
      /\ UNCHANGED <<server, faults, outside>>
  BY <1>4, <1>5 DEF SetAdmin, Page, Only
<1>7. /\ AdminTypes(ui') /\ ui'.toggling = ui.toggling \cup {a} /\ ui'.saving = ui.saving
      /\ ui'.view = ui.view /\ ui'.phase = ui.phase /\ ui'.filter = ui.filter /\ ui'.data = ui.data /\ ui'.err = ui.err
  BY <1>6 DEF UsersBody, AdminTypes, AdminFields
<1>8. \A c \in OutAs("admin") : calls[c].arg.who # a
  <2>1. ASSUME NEW c \in OutAs("admin") PROVE calls[c].arg.who \in ui.toggling
    <3>1. c \in Slots /\ Out(c) /\ calls[c].op = "admin"
      BY <2>1 DEF OutAs, Out, Free
    <3> QED BY <3>1 DEF UsersBody, AsksFor
  <2> QED BY <1>1, <2>1
<1> QED BY <1>2, <1>5, <1>6, <1>7, <1>8, ChangeTaken

LEMMA QuotaSaves ==
    ASSUME UsersBody, NEW max \in Limits \cup {Nothing}, NEW exempt \in BOOLEAN, SaveQuota(max, exempt)
    PROVE  UsersBody'
<1>1. ui.view = "users" /\ ui.phase = "ok" /\ ~ui.err /\ ui.data # Nothing /\ ~ui.saving
  BY DEF SaveQuota, Listed_Users
<1>2. OutAs("users") = {} /\ OutAs("quota") = {}
  <2>1. ASSUME NEW c \in OutAs("users") \cup OutAs("quota") PROVE FALSE
    <3>1. c \in Slots /\ Out(c) /\ calls[c].op \in {"users", "quota"}
      BY <2>1 DEF OutAs, Out, Free
    <3> QED BY <1>1, <3>1 DEF UsersBody, AsksFor
  <2> QED BY <2>1
<1>3. UsersCame(ui)
  BY <1>1, <1>2 DEF UsersCame
<1>4. PICK arg : arg = [max |-> max, exempt |-> exempt]
  OBVIOUS
<1>5. /\ ui' = [ui EXCEPT !.saving = TRUE] /\ Fetch("quota", arg) /\ UNCHANGED <<server, faults, outside>>
  BY <1>4 DEF SaveQuota, Page, Only
<1>6. /\ AdminTypes(ui') /\ ui'.toggling = ui.toggling /\ ui'.saving = TRUE
      /\ ui'.view = ui.view /\ ui'.phase = ui.phase /\ ui'.filter = ui.filter /\ ui'.data = ui.data /\ ui'.err = ui.err
  BY <1>5 DEF UsersBody, AdminTypes, AdminFields
<1>7. arg \in [max : Limits \cup {Nothing}, exempt : BOOLEAN]
  BY <1>4
<1> QED BY <1>2, <1>3, <1>5, <1>6, <1>7, ChangeTaken

(* The filter is picked on the page of the sessions.                        *)
LEMMA FilterPicked ==
    ASSUME UsersBody, NEW f \in Filters, PickFilter(f)
    PROVE  UsersBody'
<1>1. PICK q : q = [op |-> "sessions", arg |-> f, at |-> "sent", got |-> Nothing]
  OBVIOUS
<1>2. /\ ui' = [ui EXCEPT !.filter = f, !.data = Nothing, !.err = FALSE] /\ ui.view = "sessions"
      /\ calls' = [NoCalls EXCEPT ![1] = q] /\ UNCHANGED <<server, faults, outside>>
  BY <1>1 DEF PickFilter, Page, Only, Request
<1>3. 1 \in Slots
  BY BrowserAssumption DEF Slots
<1>4. calls' = [c \in Slots |-> IF c = 1 THEN q ELSE Free]
  BY <1>2 DEF NoCalls
<1>5. calls'[1] = q /\ (\A c \in Slots \ {1} : calls'[c] = Free) /\ calls' = [c \in Slots |-> calls'[c]]
  BY <1>3, <1>4
<1>6. CallsShape'
  BY <1>1, <1>5 DEF CallsShape, IsCall, Slots
<1>7. /\ OutAs("me")' = {} /\ OutAs("users")' = {} /\ OutAs("admin")' = {} /\ OutAs("quota")' = {}
      /\ \A c \in Slots \ {1} : ~Out(c)'
  BY <1>1, <1>5 DEF OutAs, Free, Slots, Out
<1>8. AdminTypes(ui') /\ ui'.filter = f /\ ui'.data = Nothing /\ ui'.view = "sessions"
  BY <1>2 DEF UsersBody, AdminTypes, AdminFields
<1>9. AdminCall(q) /\ AsksFor(ui', q) /\ q.at # "failed"
  BY <1>1, <1>8 DEF AdminCall, AsksFor
<1>10. \A c \in Slots : Out(c)' => AdminCall(calls'[c]) /\ AsksFor(ui', calls'[c]) /\ calls'[c].at # "failed"
  BY <1>5, <1>7, <1>9
<1>11. OneChange' /\ AskedFirst' /\ ShowsRows(ui') /\ ~UsersCame(ui)'
  BY <1>7, <1>8 DEF OneChange, AskedFirst, ShowsRows, UsersCame
<1>12. AsTheApiHas'
  BY <1>7, <1>10, <1>11 DEF AsTheApiHas, Slots
<1> QED BY <1>2, <1>6, <1>7, <1>8, <1>10, <1>11, <1>12 DEF UsersBody, Slots

(* What is settled without being written: the reads, the counts, the        *)
(* refusals and the failures.                                               *)
LEMMA UsersSettle ==
    ASSUME UsersBody, NEW c \in Slots, Out(c), NEW at, NEW got, SettledAs(c, at, got), UNCHANGED <<ui, outside>>,
           AdminHeld(server'), server'.users = server.users, server'.counted = server.counted, faults' \in Nat,
           AdminCall(calls'[c]), faults' = 0 => faults = 0 /\ at # "failed",
           calls[c].op \in {"admin", "quota"} /\ faults' = 0 => ~Written(c) /\ (at = "ok" => got = Nothing),
           calls[c].op = "users" /\ faults' = 0 /\ at = "ok" => got \in {Nothing, server.users}
    PROVE  UsersBody'
<1>1. calls[c].op # "none"
  BY DEF UsersBody, AdminCall
<1>2. /\ CallsShape' /\ Out(c)' /\ calls'[c].op = calls[c].op /\ calls'[c].arg = calls[c].arg
      /\ calls'[c].at = at /\ calls'[c].got = got
      /\ \A d \in Slots \ {c} : calls'[d] = calls[d] /\ (Out(d)' <=> Out(d))
  BY <1>1, SettledOut
<1>3. /\ OutAs("me")' = OutAs("me") /\ OutAs("users")' = OutAs("users")
      /\ OutAs("admin")' = OutAs("admin") /\ OutAs("quota")' = OutAs("quota")
      /\ \A d \in OutAs("admin") \cup OutAs("quota") : calls'[d].arg = calls[d].arg
  BY OutSettled
<1>4. \A d \in Slots : Out(d)' => AdminCall(calls'[d])
  BY <1>2 DEF UsersBody
<1>5. AsksFor(ui, calls'[c])
  <2>1. AsksFor(ui, calls[c])
    BY DEF UsersBody
  <2> QED BY <1>2, <2>1 DEF AsksFor
<1>6. \A d \in Slots : Out(d)' => AsksFor(ui', calls'[d])
  BY <1>2, <1>5 DEF UsersBody
<1>7. OneChange' /\ AskedFirst' /\ ShowsRows(ui') /\ (UsersCame(ui)' <=> UsersCame(ui))
  BY <1>2, <1>3 DEF UsersBody, OneChange, AskedFirst, ShowsRows, UsersCame, Slots
<1>8. ASSUME Undisturbed' PROVE AsTheApiHas'
  <2>1. faults' = 0 /\ AsTheApiHas /\ at # "failed"
    BY <1>8 DEF Undisturbed, UsersBody
  <2>2. \A d \in OutAs("admin") \cup OutAs("quota") : Written(d)' <=> Written(d)
    BY <1>2, <2>1 DEF OutAs, Written
  <2>3. \A d \in OutAs("admin") \cup OutAs("quota") : Written(d) => calls'[d] = calls[d]
    BY <1>2, <2>1 DEF OutAs
  <2>4. UsersCame(ui)' => RowsFit(ui.data, server.users)'
    BY <1>3, <1>7, <2>1, <2>2, <2>3 DEF AsTheApiHas, RowsFit
  <2>5. \A d \in Slots : Out(d)' => calls'[d].at # "failed"
    BY <1>2, <2>1 DEF AsTheApiHas
  <2>6. \A d \in OutAs("users")' : calls'[d].at = "ok" => calls'[d].got \in {Nothing, server'.users}
    BY <1>2, <1>3, <2>1 DEF AsTheApiHas, OutAs
  <2> QED BY <2>4, <2>5, <2>6 DEF AsTheApiHas, Slots
<1> QED BY <1>2, <1>3, <1>4, <1>6, <1>7, <1>8 DEF UsersBody, Slots

LEMMA AdminReadServed ==
    ASSUME UsersBody, NEW c \in Slots, ServeAdminRead(c)
    PROVE  UsersBody'
<1>1. /\ calls[c].op \in {"me", "stats", "sessions", "users"} /\ calls[c].op # "none" /\ Out(c) /\ CallsShape
      /\ UNCHANGED <<ui, server, faults, outside>>
  BY DEF ServeAdminRead, Sent, Only, Out, Free, UsersBody
<1>2. PICK got : /\ Answer(c, got)
                 /\ calls[c].op = "sessions" => got = Nothing \/ got.filter = calls[c].arg
                 /\ calls[c].op = "users" => got \in {Nothing, server.users}
  BY DEF ServeAdminRead, Sent, RowsOf
<1>3. SettledAs(c, "ok", got)
  BY <1>1, <1>2, AnswerSettles
<1>4. calls'[c].op = calls[c].op /\ calls'[c].arg = calls[c].arg /\ calls'[c].at = "ok" /\ calls'[c].got = got
  BY <1>3 DEF SettledAs
<1>5. AdminCall(calls'[c])
  BY <1>1, <1>2, <1>4 DEF UsersBody, AdminCall, AdminHeld
<1> QED BY <1>1, <1>2, <1>3, <1>5, UsersSettle DEF UsersBody

LEMMA AdminIsCounted ==
    ASSUME UsersBody, NEW c \in Slots, CountAdmins(c)
    PROVE  UsersBody'
<1>1. /\ calls[c].op = "admin" /\ calls[c].at = "sent" /\ calls[c] # Free /\ Out(c) /\ CallsShape
      /\ UNCHANGED <<ui, faults, outside>>
  BY DEF CountAdmins, Sent, Only, Out, Free, UsersBody
<1>2. \/ Answer(c, Nothing) /\ UNCHANGED server
      \/ /\ calls' = [calls EXCEPT ![c].at = "counted"]
         /\ \E raced \in BOOLEAN : server' = [server EXCEPT !.raced = raced]
  <2>1. PICK raced \in BOOLEAN : raced = (server.raced \/ (~calls[c].arg.is /\ server.counted # Nothing))
    OBVIOUS
  <2>2. server' = [server EXCEPT !.raced = @ \/ (~calls[c].arg.is /\ server.counted # Nothing)]
        => server' = [server EXCEPT !.raced = raced]
    BY <2>1 DEF UsersBody, AdminHeld
  <2> QED BY <2>2 DEF CountAdmins
<1>3. AdminHeld(server') /\ server'.users = server.users /\ server'.counted = server.counted
  BY <1>2 DEF UsersBody, AdminHeld
<1>4. PICK at, got : SettledAs(c, at, got) /\ (at = "ok" => got = Nothing) /\ at \in {"ok", "counted"}
  <2>1. CASE Answer(c, Nothing)
    BY <1>1, <2>1, AnswerSettles
  <2>2. CASE calls' = [calls EXCEPT ![c].at = "counted"]
    <3>1. SettledAs(c, "counted", calls[c].got)
      BY <1>1, <2>2 DEF CallsShape, IsCall, SettledAs, Others
    <3> QED BY <3>1
  <2> QED BY <1>2, <2>1, <2>2
<1>5. calls'[c].op = calls[c].op /\ calls'[c].arg = calls[c].arg /\ calls'[c].at = at /\ calls'[c].got = got
  BY <1>4 DEF SettledAs
<1>6. AdminCall(calls[c])
  BY <1>1 DEF UsersBody
<1>7. AdminCall(calls'[c])
  BY <1>1, <1>4, <1>5, <1>6 DEF AdminCall
<1>8. ~Written(c)
  BY <1>1 DEF Written
<1> QED BY <1>1, <1>3, <1>4, <1>7, <1>8, UsersSettle DEF UsersBody

LEMMA UsersFail ==
    ASSUME UsersBody, NEW c \in Slots, Fail(c)
    PROVE  UsersBody'
<1>1. SettledAs(c, "failed", Nothing) /\ Out(c) /\ UNCHANGED <<ui, server, outside>> /\ faults' = faults + 1
  BY FailSettles DEF Out, UsersBody, Fail
<1>2. calls'[c].op = calls[c].op /\ calls'[c].arg = calls[c].arg /\ calls'[c].at = "failed" /\ calls'[c].got = Nothing
  BY <1>1 DEF SettledAs
<1>3. AdminCall(calls[c]) /\ faults \in Nat
  BY <1>1 DEF UsersBody
<1>4. AdminCall(calls'[c]) /\ faults' \in Nat /\ faults' # 0
  BY <1>1, <1>2, <1>3 DEF AdminCall
<1> QED BY <1>1, <1>4, UsersSettle DEF UsersBody
(* An answer comes in, and what it leaves on the page.                      *)
LEMMA UsersLeave ==
    ASSUME UsersBody, NEW c \in Slots, LeftWith(c, Free), UNCHANGED <<server, faults, outside>>,
           AdminTypes(ui'), ShowsRows(ui'),
           \A d \in Slots \ {c} : Out(d) => AsksFor(ui', calls[d]),
           UsersCame(ui)' => ui'.data \in [Accounts -> ShownRows],
           OutAs("admin")' \cup OutAs("quota")' # {} => UsersCame(ui)',
           Undisturbed /\ AsTheApiHas /\ UsersCame(ui)' => RowsFit(ui.data, server.users)'
    PROVE  UsersBody'
<1>1. /\ CallsShape' /\ calls'[c] = Free /\ ~Out(c)'
      /\ \A d \in Slots \ {c} : calls'[d] = calls[d] /\ (Out(d)' <=> Out(d))
  BY LeftOut
<1>2. /\ OutAs("me")' = OutAs("me") \ {c} /\ OutAs("users")' = OutAs("users") \ {c}
      /\ OutAs("admin")' = OutAs("admin") \ {c} /\ OutAs("quota")' = OutAs("quota") \ {c}
  BY <1>1 DEF OutAs, Free
<1>3. \A d \in Slots : Out(d)' => AdminCall(calls'[d]) /\ AsksFor(ui', calls'[d])
  BY <1>1 DEF UsersBody
<1>4. OneChange'
  BY <1>1, <1>2 DEF UsersBody, OneChange, OutAs
<1>5. AskedFirst'
  BY <1>1, <1>2 DEF UsersBody, AskedFirst, Slots
<1>6. ASSUME Undisturbed' PROVE AsTheApiHas'
  <2>1. Undisturbed /\ AsTheApiHas
    BY <1>6 DEF Undisturbed, UsersBody
  <2>2. \A d \in OutAs("users")' : d \in OutAs("users") /\ calls'[d] = calls[d]
    BY <1>1, <1>2 DEF OutAs
  <2> QED BY <1>1, <2>1, <2>2 DEF AsTheApiHas, Slots
<1> QED BY <1>1, <1>3, <1>4, <1>5, <1>6 DEF UsersBody, Slots

(* me has answered, alone; then the view's own request is, alone too.       *)
LEMMA GuardIsPassed ==
    ASSUME UsersBody, NEW c \in Slots, Guarded(c)
    PROVE  UsersBody'
<1>1. /\ calls[c].op = "me" /\ calls[c] # Free /\ Out(c) /\ CallsShape /\ UNCHANGED <<server, faults, outside>>
  BY DEF Guarded, Back, Ok, Failed, Only, Out, Free, UsersBody
<1>2. ui.phase = "checking" /\ ui.data = Nothing /\ \A d \in Slots \ {c} : ~Out(d)
  <2>1. c \in OutAs("me")
    BY <1>1 DEF OutAs
  <2> QED BY <1>1, <2>1 DEF UsersBody, AsksFor, AskedFirst
<1>3. \/ LeftWith(c, Free) /\ ui' = [ui EXCEPT !.phase = "denied"]
      \/ \E op \in {"stats", "users", "sessions"} : \E arg :
           /\ LeftWith(c, Request(op, arg)) /\ ui' = [ui EXCEPT !.phase = "ok"]
           /\ op = "stats" => ui.view = "home"
           /\ op = "users" => ui.view = "users"
           /\ op = "sessions" => ui.view = "sessions" /\ arg = ui.filter
  <2>1. CASE calls[c].got = "admin"
    <3>1. ui' = [ui EXCEPT !.phase = "ok"]
      BY <2>1 DEF Guarded, Page
    <3>2. CASE ui.view = "home"
      <4>1. LeftWith(c, Request("stats", Nothing))
        BY <1>1, <2>1, <3>2, ThenFetchLeaves DEF Guarded
      <4> QED BY <3>1, <3>2, <4>1
    <3>3. CASE ui.view = "users"
      <4>1. LeftWith(c, Request("users", Nothing))
        BY <1>1, <2>1, <3>3, ThenFetchLeaves DEF Guarded
      <4> QED BY <3>1, <3>3, <4>1
    <3>4. CASE ui.view = "sessions"
      <4>1. LeftWith(c, Request("sessions", ui.filter))
        BY <1>1, <2>1, <3>4, ThenFetchLeaves DEF Guarded
      <4> QED BY <3>1, <3>4, <4>1
    <3> QED BY <3>2, <3>3, <3>4 DEF UsersBody, AdminTypes
  <2>2. CASE calls[c].got # "admin"
    BY <1>1, <2>2, DoneLeaves DEF Guarded, Page
  <2> QED BY <2>1, <2>2
<1>4. CASE LeftWith(c, Free) /\ ui' = [ui EXCEPT !.phase = "denied"]
  <2>1. /\ AdminTypes(ui') /\ ui'.phase = "denied" /\ ui'.data = Nothing
    BY <1>2, <1>4 DEF UsersBody, AdminTypes, AdminFields
  <2>2. ShowsRows(ui') /\ ~UsersCame(ui)'
    BY <2>1 DEF ShowsRows, UsersCame
  <2>3. OutAs("admin")' = {} /\ OutAs("quota")' = {}
    BY <1>2, <1>4, LeftOut DEF OutAs, Out, Free, Slots
  <2> QED BY <1>1, <1>2, <1>4, <2>1, <2>2, <2>3, UsersLeave
<1>5. ASSUME NEW op \in {"stats", "users", "sessions"}, NEW arg, LeftWith(c, Request(op, arg)),
             ui' = [ui EXCEPT !.phase = "ok"],
             op = "stats" => ui.view = "home", op = "users" => ui.view = "users",
             op = "sessions" => ui.view = "sessions" /\ arg = ui.filter
      PROVE  UsersBody'
  <2>1. PICK q : q = [op |-> op, arg |-> arg, at |-> "sent", got |-> Nothing]
    OBVIOUS
  <2>2. CallsShape' /\ calls'[c] = q /\ \A d \in Slots \ {c} : calls'[d] = calls[d] /\ ~Out(d)' /\ ~Out(d)
    BY <1>2, <1>5, <2>1, LeftOut DEF Request
  <2>3. \A d \in Slots \ {c} : calls'[d].op = "none"
    BY <2>2 DEF Out, Free
  <2>4. /\ OutAs("me")' = {} /\ OutAs("admin")' = {} /\ OutAs("quota")' = {} /\ OutAs("users")' \subseteq {c}
        /\ op = "users" => OutAs("users")' = {c}
    BY <2>1, <2>2, <2>3 DEF OutAs, Slots
  <2>5. AdminTypes(ui') /\ ui'.phase = "ok" /\ ui'.data = Nothing /\ ui'.view = ui.view /\ ui'.filter = ui.filter
    BY <1>2, <1>5 DEF UsersBody, AdminTypes, AdminFields
  <2>6. AdminCall(q) /\ AsksFor(ui', q) /\ q.at = "sent"
    BY <1>5, <2>1, <2>5 DEF AdminCall, AsksFor
  <2>7. \A d \in Slots : Out(d)' => d = c /\ AdminCall(calls'[d]) /\ AsksFor(ui', calls'[d]) /\ calls'[d].at = "sent"
    BY <2>2, <2>6
  <2>8. ~UsersCame(ui)' /\ ShowsRows(ui')
    <3>1. ui'.view = "users" => op = "users"
      BY <1>5, <2>5
    <3> QED BY <2>4, <2>5, <3>1 DEF UsersCame, ShowsRows
  <2>9. OneChange' /\ AskedFirst'
    BY <2>2, <2>4 DEF OneChange, AskedFirst, Slots
  <2>10. AsTheApiHas'
    BY <2>2, <2>4, <2>6, <2>7, <2>8 DEF AsTheApiHas, Slots
  <2> QED BY <1>1, <2>2, <2>4, <2>5, <2>7, <2>8, <2>9, <2>10 DEF UsersBody, Slots
<1> QED BY <1>3, <1>4, <1>5

(* The totals, the sessions and the users come in.                          *)
LEMMA AdminReads ==
    ASSUME UsersBody, NEW c \in Slots, TotalsAnswered(c) \/ SessionsAnswered(c) \/ UsersAnswered(c)
    PROVE  UsersBody'
<1>1. /\ calls[c].op \in {"stats", "sessions", "users"} /\ Back(c, calls[c].op) /\ Out(c) /\ CallsShape
      /\ UNCHANGED <<server, faults, outside>> /\ Done(c)
  BY DEF TotalsAnswered, SessionsAnswered, UsersAnswered, Back, Ok, Failed, Only, Out, Free, UsersBody
<1>2. LeftWith(c, Free) /\ AsksFor(ui, calls[c]) /\ AdminCall(calls[c])
  BY <1>1, DoneLeaves DEF UsersBody
<1>3. PICK got : got = calls[c].got
  OBVIOUS
<1>4. /\ AdminTypes(ui')
      /\ ui'.view = ui.view /\ ui'.filter = ui.filter /\ ui'.toggling = ui.toggling /\ ui'.saving = ui.saving
      /\ ui'.data \in {ui.data, got, "stats"}
  BY <1>3 DEF TotalsAnswered, SessionsAnswered, UsersAnswered, Page, UsersBody, AdminTypes, AdminFields
<1>5. CASE calls[c].op \in {"stats", "sessions"}
  <2>1. ui.view # "users" /\ ~UsersCame(ui) /\ ~UsersCame(ui)'
    BY <1>2, <1>4, <1>5 DEF AsksFor, UsersCame
  <2>2. OutAs("users") = {} /\ OutAs("admin") = {} /\ OutAs("quota") = {}
    <3>1. ASSUME NEW d \in OutAs("users") PROVE FALSE
      BY <1>1, <2>1, <3>1 DEF OutAs, UsersBody, AsksFor, Out, Free
    <3> QED BY <2>1, <3>1 DEF UsersBody
  <2>3. OutAs("me") = {}
    <3>1. ASSUME NEW d \in OutAs("me") PROVE FALSE
      BY <1>1, <1>5, <3>1 DEF OutAs, UsersBody, AskedFirst
    <3> QED BY <3>1
  <2>4. ShowsRows(ui')
    <3>1. CASE calls[c].op = "stats"
      BY <1>2, <1>4, <3>1 DEF ShowsRows, AsksFor
    <3>2. CASE calls[c].op = "sessions"
      <4>1. /\ calls[c].at \in {"ok", "failed"}
            /\ \/ ui' = [ui EXCEPT !.err = TRUE]
               \/ got # Nothing /\ ui' = [ui EXCEPT !.data = got]
        <5>1. SessionsAnswered(c)
          BY <3>2 DEF TotalsAnswered, UsersAnswered, Back, Ok, Failed
        <5>2. ui' = IF got = Nothing THEN [ui EXCEPT !.err = TRUE] ELSE [ui EXCEPT !.data = got]
          BY <1>3, <5>1 DEF SessionsAnswered, Page
        <5>3. calls[c].at \in {"ok", "failed"}
          BY <1>1 DEF Back, Ok, Failed
        <5> QED BY <5>2, <5>3
      <4>2. ui'.data = ui.data \/ (got # Nothing /\ ui'.data = got /\ got.filter = ui.filter)
        BY <1>2, <1>3, <3>2, <4>1 DEF AdminCall, AsksFor, UsersBody, AdminTypes, AdminFields
      <4> QED BY <1>4, <4>2 DEF ShowsRows, UsersBody
    <3> QED BY <1>5, <3>1, <3>2
  <2>5. \A d \in Slots \ {c} : Out(d) => AsksFor(ui', calls[d])
    <3>1. ASSUME NEW d \in Slots \ {c}, Out(d) PROVE AsksFor(ui', calls[d])
      <4>1. AsksFor(ui, calls[d]) /\ calls[d].op \notin {"me", "users", "admin", "quota"}
        BY <2>2, <2>3, <3>1 DEF UsersBody, OutAs
      <4> QED BY <1>4, <4>1 DEF AsksFor
    <3> QED BY <3>1
  <2>6. OutAs("admin")' = {} /\ OutAs("quota")' = {}
    BY <1>2, <2>2, LeftOut DEF OutAs, Free
  <2> QED BY <1>1, <1>2, <1>4, <2>1, <2>4, <2>5, <2>6, UsersLeave
<1>6. CASE calls[c].op = "users"
  <2>1. c \in OutAs("users") /\ ui.data = Nothing /\ ui.view = "users"
    BY <1>2, <1>6 DEF OutAs, AsksFor
  <2>2. \A d \in Slots \ {c} : ~Out(d)
    BY <2>1 DEF UsersBody, AskedFirst
  <2>3. OutAs("admin")' = {} /\ OutAs("quota")' = {}
    BY <1>2, <2>2, LeftOut DEF OutAs, Out, Free, Slots
  <2>4. \/ ui'.err
        \/ got # Nothing /\ calls[c].at = "ok" /\ ui'.data = got /\ got \in [Accounts -> AccountRows]
    BY <1>2, <1>3, <1>6 DEF TotalsAnswered, SessionsAnswered, UsersAnswered, Back, Ok, Failed, Page,
                            UsersBody, AdminTypes, AdminFields, AdminCall
  <2>5. UsersCame(ui)' => got # Nothing /\ calls[c].at = "ok" /\ ui'.data = got /\ ui'.data \in [Accounts -> ShownRows]
    BY <2>4 DEF UsersCame, AccountRows, ShownRows
  <2>6. ShowsRows(ui')
    BY <1>4, <2>1 DEF ShowsRows
  <2>7. ASSUME Undisturbed /\ AsTheApiHas /\ UsersCame(ui)' PROVE RowsFit(ui.data, server.users)'
    <3>1. ui'.data = server.users
      BY <1>3, <2>1, <2>5, <2>7 DEF AsTheApiHas
    <3> QED BY <1>1, <2>3, <3>1 DEF RowsFit
  <2> QED BY <1>1, <1>2, <1>4, <2>2, <2>3, <2>5, <2>6, <2>7, UsersLeave
<1> QED BY <1>1, <1>5, <1>6

(* patchUser, into a row that is shown.                                     *)
LEMMA MergedIs ==
    ASSUME NEW row \in ShownRows
    PROVE  /\ \A b : Merged(row, [admin |-> b]) = [admin |-> b, max |-> row.max, exempt |-> row.exempt]
           /\ \A m, e : Merged(row, [max |-> m, exempt |-> e]) = [admin |-> row.admin, max |-> m, exempt |-> e]
<1>1. PICK a, n, x : row = [admin |-> a, max |-> n, exempt |-> x]
  BY DEF ShownRows
<1>2. DOMAIN row = {"admin", "max", "exempt"} /\ row.admin = a /\ row.max = n /\ row.exempt = x
  BY <1>1
<1>3. ASSUME NEW b PROVE Merged(row, [admin |-> b]) = [admin |-> b, max |-> n, exempt |-> x]
  <2>1. PICK new : new = [admin |-> b]
    OBVIOUS
  <2>2. DOMAIN new = {"admin"} /\ new.admin = b
    BY <2>1
  <2>3. Merged(row, new) = [admin |-> b, max |-> n, exempt |-> x]
    BY <1>1, <1>2, <2>2 DEF Merged
  <2> QED BY <2>1, <2>3
<1>4. ASSUME NEW m, NEW e PROVE Merged(row, [max |-> m, exempt |-> e]) = [admin |-> a, max |-> m, exempt |-> e]
  <2>1. PICK new : new = [max |-> m, exempt |-> e]
    OBVIOUS
  <2>2. DOMAIN new = {"max", "exempt"} /\ new.max = m /\ new.exempt = e
    BY <2>1
  <2>3. Merged(row, new) = [admin |-> a, max |-> m, exempt |-> e]
    BY <1>1, <1>2, <2>2 DEF Merged
  <2> QED BY <2>1, <2>3
<1> QED BY <1>2, <1>3, <1>4

LEMMA PatchedIs ==
    ASSUME AdminTypes(ui), ui.data \in [Accounts -> ShownRows], NEW a \in Accounts, NEW new, NEW row,
           Merged(ui.data[a], new) = row
    PROVE  Patched(a, new) = [ui EXCEPT !.data = [b \in Accounts |-> IF b = a THEN row ELSE ui.data[b]]]
<1>1. PICK data : data = [ui.data EXCEPT ![a] = Merged(ui.data[a], new)]
  OBVIOUS
<1>2. data = [b \in Accounts |-> IF b = a THEN row ELSE ui.data[b]]
  BY <1>1
<1>3. Patched(a, new) = [ui EXCEPT !.data = data]
  BY <1>1 DEF Patched, AdminTypes, AdminFields
<1> QED BY <1>2, <1>3

(* The answer to a change of one row's admin.                               *)
LEMMA AdminIsAnswered ==
    ASSUME UsersBody, NEW c \in Slots, AdminAnswered(c)
    PROVE  UsersBody'
<1>1. /\ calls[c].op = "admin" /\ calls[c].at \in {"ok", "failed"} /\ Out(c) /\ CallsShape
      /\ UNCHANGED <<server, faults, outside>> /\ c \in OutAs("admin")
  BY DEF AdminAnswered, Back, Ok, Failed, Only, Out, Free, UsersBody, OutAs
<1>2. LeftWith(c, Free) /\ AdminCall(calls[c]) /\ UsersCame(ui) /\ AdminTypes(ui) /\ ui.data \in [Accounts -> ShownRows]
  BY <1>1, DoneLeaves DEF AdminAnswered, UsersBody
<1>3. PICK a, got : a = calls[c].arg.who /\ got = calls[c].got
  OBVIOUS
<1>4. a \in Accounts /\ (got # Nothing => Written(c) /\ got \in [admin : BOOLEAN])
  BY <1>1, <1>2, <1>3 DEF AdminCall, Written
<1>5. PICK row : row = IF got = Nothing THEN ui.data[a] ELSE [ui.data[a] EXCEPT !.admin = got.admin]
  OBVIOUS
<1>6. PICK data : data = [b \in Accounts |-> IF b = a THEN row ELSE ui.data[b]]
  OBVIOUS
<1>7. ui.data[a] \in ShownRows
  BY <1>2, <1>4
<1>8. row \in ShownRows /\ row.max = ui.data[a].max /\ row.exempt = ui.data[a].exempt
      /\ (got # Nothing => row.admin = got.admin)
  BY <1>4, <1>5, <1>7 DEF ShownRows
<1>9. data \in [Accounts -> ShownRows]
  BY <1>2, <1>6, <1>8
<1>10. ui' = [[ui EXCEPT !.data = data] EXCEPT !.toggling = ui.toggling \ {a}]
  <2>1. PICK p : p = IF got = Nothing THEN ui ELSE Patched(a, got)
    OBVIOUS
  <2>2. ui' = [p EXCEPT !.toggling = p.toggling \ {a}]
    BY <1>3, <2>1 DEF AdminAnswered, Page
  <2>3. p = [ui EXCEPT !.data = data]
    <3>1. CASE got = Nothing
      <4>1. data = ui.data
        BY <1>2, <1>5, <1>6, <3>1
      <4> QED BY <1>2, <2>1, <3>1, <4>1 DEF AdminTypes, AdminFields
    <3>2. CASE got # Nothing
      <4>1. PICK b : got = [admin |-> b]
        BY <1>4, <3>2
      <4>2. Merged(ui.data[a], got) = row
        BY <1>5, <1>7, <3>2, <4>1, MergedIs DEF ShownRows
      <4> QED BY <1>2, <1>4, <1>6, <2>1, <3>2, <4>2, PatchedIs
    <3> QED BY <3>1, <3>2
  <2>4. p.toggling = ui.toggling
    BY <1>2, <2>3 DEF AdminTypes, AdminFields
  <2> QED BY <2>2, <2>3, <2>4
<1>11. PICK q : q = [ui EXCEPT !.data = data]
  OBVIOUS
<1>12. q = [f \in AdminFields |-> IF f = "data" THEN data ELSE ui[f]]
  BY <1>2, <1>11 DEF AdminTypes, AdminFields
<1>13. ui' = [f \in AdminFields |-> IF f = "toggling" THEN ui.toggling \ {a} ELSE q[f]]
  BY <1>10, <1>11, <1>12 DEF AdminFields
<1>14. /\ ui' = [f \in AdminFields |-> ui'[f]]
       /\ ui'.data = data /\ ui'.toggling = ui.toggling \ {a}
       /\ \A f \in AdminFields \ {"data", "toggling"} : ui'[f] = ui[f]
  BY <1>12, <1>13 DEF AdminFields
<1>15. /\ AdminTypes(ui') /\ ui'.view = ui.view /\ ui'.phase = ui.phase /\ ui'.err = ui.err
       /\ ui'.filter = ui.filter /\ ui'.saving = ui.saving
  BY <1>2, <1>14 DEF AdminTypes, AdminFields
<1>16. UsersCame(ui)' /\ ShowsRows(ui') /\ OutAs("users") = {} /\ OutAs("me") = {}
  <2>1. OutAs("users") = {} /\ ui.view = "users" /\ ui.phase = "ok"
    BY <1>2 DEF UsersCame
  <2>2. OutAs("users")' = {}
    BY <1>2, <2>1, LeftOut DEF OutAs, Free
  <2>3. ASSUME NEW d \in OutAs("me") PROVE FALSE
    BY <2>1, <2>3 DEF OutAs, UsersBody, AsksFor, Out, Free
  <2> QED BY <1>2, <1>15, <2>1, <2>2, <2>3 DEF UsersCame, ShowsRows
<1>17. ASSUME NEW d \in Slots \ {c}, Out(d) PROVE AsksFor(ui', calls[d])
  <2>1. AsksFor(ui, calls[d]) /\ calls[d].op \notin {"me", "users"}
    BY <1>16, <1>17 DEF UsersBody, OutAs
  <2>2. calls[d].op = "admin" => calls[d].arg.who # a
    BY <1>1, <1>3, <1>17 DEF UsersBody, OneChange, OutAs
  <2> QED BY <1>14, <1>15, <2>1, <2>2 DEF AsksFor
<1>18. ASSUME AsTheApiHas PROVE RowsFit(ui.data, server.users)'
  <2>1. PICK users : users = server.users
    OBVIOUS
  <2>2. RowsFit(ui.data, users)
    BY <1>2, <1>18, <2>1 DEF AsTheApiHas
  <2>3. /\ OutAs("admin")' = OutAs("admin") \ {c} /\ OutAs("quota")' = OutAs("quota")
        /\ \A d \in OutAs("admin")' \cup OutAs("quota")' : calls'[d] = calls[d] /\ (Written(d)' <=> Written(d))
    BY <1>1, <1>2, LeftOut DEF OutAs, Free, Written
  <2>4. got # Nothing => got.admin = users[a].admin
    BY <1>1, <1>3, <1>4, <2>2 DEF RowsFit
  <2>5. ASSUME NEW b \in Accounts, \A d \in OutAs("admin")' : Written(d)' => calls'[d].arg.who # b
        PROVE  data[b].admin = users[b].admin
    <3>1. CASE b = a /\ got # Nothing
      BY <1>6, <1>8, <2>4, <3>1
    <3>2. CASE b # a \/ got = Nothing
      <4>1. \A d \in OutAs("admin") : Written(d) => calls[d].arg.who # b
        <5>1. b # a => calls[c].arg.who # b
          BY <1>3
        <5>2. got = Nothing => ~Written(c)
          BY <1>3 DEF Written
        <5> QED BY <2>3, <2>5, <3>2, <5>1, <5>2
      <4>2. ui.data[b].admin = users[b].admin
        BY <2>2, <4>1 DEF RowsFit
      <4> QED BY <1>5, <1>6, <3>2, <4>2
    <3> QED BY <3>1, <3>2
  <2>6. \A b \in Accounts : data[b].max = ui.data[b].max /\ data[b].exempt = ui.data[b].exempt
    BY <1>6, <1>8
  <2>7. RowsFit(data, users)'
    BY <2>2, <2>3, <2>5, <2>6 DEF RowsFit
  <2> QED BY <1>1, <1>14, <2>1, <2>7 DEF RowsFit
<1> QED BY <1>1, <1>2, <1>9, <1>14, <1>15, <1>16, <1>17, <1>18, UsersLeave
LEMMA QuotaIsAnswered ==
    ASSUME UsersBody, NEW c \in Slots, QuotaAnswered(c)
    PROVE  UsersBody'
<1>1. /\ calls[c].op = "quota" /\ calls[c].at \in {"ok", "failed"} /\ Out(c) /\ CallsShape
      /\ UNCHANGED <<server, faults, outside>> /\ c \in OutAs("quota")
  BY DEF QuotaAnswered, Back, Ok, Failed, Only, Out, Free, UsersBody, OutAs
<1>2. LeftWith(c, Free) /\ AdminCall(calls[c]) /\ UsersCame(ui) /\ AdminTypes(ui) /\ ui.data \in [Accounts -> ShownRows]
  BY <1>1, DoneLeaves DEF QuotaAnswered, UsersBody
<1>3. PICK got : got = calls[c].got
  OBVIOUS
<1>4. Rival \in Accounts /\ (got # Nothing => Written(c) /\ got \in [max : Limits \cup {Nothing}, exempt : BOOLEAN])
  BY <1>1, <1>2, <1>3 DEF AdminCall, Written, Accounts
<1>5. PICK old : old = ui.data[Rival]
  OBVIOUS
<1>6. old \in ShownRows
  BY <1>2, <1>4, <1>5
<1>7. PICK row : row = IF got = Nothing THEN old ELSE [admin |-> old.admin, max |-> got.max, exempt |-> got.exempt]
  OBVIOUS
<1>8. row \in ShownRows /\ row.admin = old.admin /\ (got # Nothing => row.max = got.max /\ row.exempt = got.exempt)
  BY <1>4, <1>6, <1>7 DEF ShownRows
<1>9. PICK data : data = [b \in Accounts |-> IF b = Rival THEN row ELSE ui.data[b]]
  OBVIOUS
<1>10. data \in [Accounts -> ShownRows]
  BY <1>2, <1>8, <1>9
<1>11. PICK q : q = [ui EXCEPT !.data = data]
  OBVIOUS
<1>12. q = [f \in AdminFields |-> IF f = "data" THEN data ELSE ui[f]]
  BY <1>2, <1>11 DEF AdminTypes, AdminFields
<1>13. \E e \in BOOLEAN : ui' = [[q EXCEPT !.saving = FALSE] EXCEPT !.editing = e]
  <2>1. CASE got = Nothing
    <3>1. data = ui.data
      BY <1>2, <1>5, <1>7, <1>9, <2>1
    <3>2. q = ui
      BY <1>2, <1>12, <3>1 DEF AdminTypes, AdminFields
    <3>3. ui' = [ui EXCEPT !.saving = FALSE]
      BY <1>3, <2>1 DEF QuotaAnswered, Page
    <3>4. [[ui EXCEPT !.saving = FALSE] EXCEPT !.editing = ui.editing] = [ui EXCEPT !.saving = FALSE]
      BY <1>2 DEF AdminTypes, AdminFields
    <3> QED BY <1>2, <3>2, <3>3, <3>4 DEF AdminTypes
  <2>2. CASE got # Nothing
    <3>1. PICK m, x : got = [max |-> m, exempt |-> x]
      BY <1>4, <2>2
    <3>2. Merged(ui.data[Rival], got) = row
      BY <1>5, <1>6, <1>7, <2>2, <3>1, MergedIs
    <3>3. Patched(Rival, got) = q
      BY <1>2, <1>4, <1>9, <1>11, <3>2, PatchedIs
    <3>4. ui' = [Patched(Rival, got) EXCEPT !.saving = FALSE, !.editing = FALSE]
      BY <1>3, <2>2 DEF QuotaAnswered, Page
    <3> QED BY <3>3, <3>4
  <2> QED BY <2>1, <2>2
<1>14. PICK e \in BOOLEAN : ui' = [[q EXCEPT !.saving = FALSE] EXCEPT !.editing = e]
  BY <1>13
<1>15. ui' = [f \in AdminFields |-> IF f = "editing" THEN e ELSE IF f = "saving" THEN FALSE ELSE q[f]]
  BY <1>12, <1>14 DEF AdminFields
<1>16. /\ ui' = [f \in AdminFields |-> ui'[f]]
       /\ ui'.data = data /\ ui'.saving = FALSE /\ ui'.editing = e
       /\ \A f \in AdminFields \ {"data", "saving", "editing"} : ui'[f] = ui[f]
  BY <1>12, <1>15 DEF AdminFields
<1>17. /\ AdminTypes(ui') /\ ui'.view = ui.view /\ ui'.phase = ui.phase /\ ui'.err = ui.err
       /\ ui'.filter = ui.filter /\ ui'.toggling = ui.toggling
  BY <1>2, <1>16 DEF AdminTypes, AdminFields
<1>18. UsersCame(ui)' /\ ShowsRows(ui') /\ OutAs("users") = {} /\ OutAs("me") = {}
  <2>1. OutAs("users") = {} /\ ui.view = "users" /\ ui.phase = "ok"
    BY <1>2 DEF UsersCame
  <2>2. OutAs("users")' = {}
    BY <1>2, <2>1, LeftOut DEF OutAs, Free
  <2>3. ASSUME NEW d \in OutAs("me") PROVE FALSE
    BY <2>1, <2>3 DEF OutAs, UsersBody, AsksFor, Out, Free
  <2> QED BY <1>2, <1>17, <2>1, <2>2, <2>3 DEF UsersCame, ShowsRows
<1>19. ASSUME NEW d \in Slots \ {c}, Out(d) PROVE AsksFor(ui', calls[d])
  <2>1. AsksFor(ui, calls[d]) /\ calls[d].op \notin {"me", "users"}
    BY <1>18, <1>19 DEF UsersBody, OutAs
  <2>2. calls[d].op # "quota"
    BY <1>1, <1>19 DEF UsersBody, OneChange, OutAs
  <2> QED BY <1>17, <2>1, <2>2 DEF AsksFor
<1>20. ASSUME AsTheApiHas PROVE RowsFit(ui.data, server.users)'
  <2>1. PICK users : users = server.users
    OBVIOUS
  <2>2. RowsFit(ui.data, users)
    BY <1>2, <1>20, <2>1 DEF AsTheApiHas
  <2>3. /\ OutAs("admin")' = OutAs("admin") /\ OutAs("quota")' = {} /\ \A d \in OutAs("quota") : d = c
        /\ \A d \in OutAs("admin") : calls'[d] = calls[d] /\ (Written(d)' <=> Written(d))
    BY <1>1, <1>2, LeftOut DEF OutAs, Free, Written, UsersBody, OneChange
  <2>4. got # Nothing => got.max = users[Rival].max /\ got.exempt = users[Rival].exempt
    BY <1>1, <1>3, <1>4, <2>2 DEF RowsFit
  <2>5. ASSUME NEW b \in Accounts PROVE data[b].max = users[b].max /\ data[b].exempt = users[b].exempt
    <3>1. CASE b = Rival /\ got # Nothing
      BY <1>8, <1>9, <2>4, <3>1
    <3>2. CASE b # Rival \/ got = Nothing
      <4>1. \A d \in OutAs("quota") : Written(d) => b # Rival
        BY <1>3, <2>3, <3>2 DEF Written
      <4>2. ui.data[b].max = users[b].max /\ ui.data[b].exempt = users[b].exempt
        BY <2>2, <4>1 DEF RowsFit
      <4> QED BY <1>5, <1>7, <1>9, <3>2, <4>2
    <3> QED BY <3>1, <3>2
  <2>6. \A b \in Accounts : data[b].admin = ui.data[b].admin
    BY <1>5, <1>8, <1>9
  <2>7. RowsFit(data, users)'
    BY <2>2, <2>3, <2>5, <2>6 DEF RowsFit
  <2> QED BY <1>1, <1>16, <2>1, <2>7 DEF RowsFit
<1> QED BY <1>1, <1>2, <1>10, <1>16, <1>17, <1>18, <1>19, <1>20, UsersLeave
(* What is written of a row has an answer that comes in later.              *)
LEMMA AdminIsWritten ==
    ASSUME UsersBody, NEW c \in Slots, WriteAdmin(c)
    PROVE  UsersBody'
<1>1. /\ calls[c].op = "admin" /\ calls[c].at = "counted" /\ Out(c) /\ CallsShape /\ c \in OutAs("admin")
      /\ UNCHANGED <<ui, faults, outside>>
  BY DEF WriteAdmin, Only, Out, Free, UsersBody, OutAs
<1>2. PICK who, is : who = calls[c].arg.who /\ is = calls[c].arg.is
  OBVIOUS
<1>3. who \in Accounts /\ is \in BOOLEAN /\ calls[c].arg = [who |-> who, is |-> is] /\ AdminHeld(server)
  BY <1>1, <1>2 DEF UsersBody, AdminCall
<1>4. PICK got : got = [admin |-> is]
  OBVIOUS
<1>5. SettledAs(c, "ok", got) /\ got # Nothing /\ got \in [admin : BOOLEAN] /\ got.admin = is
  BY <1>1, <1>2, <1>3, <1>4, AnswerSettles, AnswersAssumption DEF WriteAdmin
<1>6. PICK row : row = [server.users[who] EXCEPT !.admin = is]
  OBVIOUS
<1>7. server.users[who] \in AccountRows
  BY <1>3 DEF AdminHeld
<1>8. row \in AccountRows /\ row.admin = is /\ row.max = server.users[who].max /\ row.exempt = server.users[who].exempt
  BY <1>3, <1>6, <1>7 DEF AccountRows
<1>9. PICK users : users = [server.users EXCEPT ![who] = row]
  OBVIOUS
<1>10. server' = [server EXCEPT !.users = users]
  BY <1>2, <1>6, <1>9 DEF WriteAdmin, AdminHeld
<1>11. users = [b \in Accounts |-> IF b = who THEN row ELSE server.users[b]]
  BY <1>3, <1>9 DEF AdminHeld
<1>12. AdminHeld(server') /\ server'.users = users /\ server'.counted = server.counted
  BY <1>3, <1>8, <1>10, <1>11 DEF AdminHeld
<1>13. /\ CallsShape' /\ Out(c)' /\ calls'[c].op = "admin" /\ calls'[c].arg = calls[c].arg
       /\ calls'[c].at = "ok" /\ calls'[c].got = got
       /\ \A d \in Slots \ {c} : calls'[d] = calls[d] /\ (Out(d)' <=> Out(d))
  BY <1>1, <1>5, SettledOut
<1>14. /\ OutAs("me")' = OutAs("me") /\ OutAs("users")' = OutAs("users")
       /\ OutAs("admin")' = OutAs("admin") /\ OutAs("quota")' = OutAs("quota")
       /\ \A d \in OutAs("admin") \cup OutAs("quota") : calls'[d].arg = calls[d].arg
  BY <1>5, OutSettled
<1>15. AdminCall(calls'[c]) /\ AsksFor(ui, calls'[c])
  <2>1. AdminCall(calls[c]) /\ AsksFor(ui, calls[c])
    BY <1>1 DEF UsersBody
  <2> QED BY <1>1, <1>5, <1>13, <2>1 DEF AdminCall, AsksFor
<1>16. \A d \in Slots : Out(d)' => AdminCall(calls'[d]) /\ AsksFor(ui', calls'[d])
  BY <1>1, <1>13, <1>15 DEF UsersBody
<1>17. OneChange' /\ AskedFirst' /\ ShowsRows(ui') /\ (UsersCame(ui)' <=> UsersCame(ui)) /\ UsersCame(ui)
  <2>1. UsersCame(ui)
    BY <1>1 DEF UsersBody
  <2>2. OneChange'
    BY <1>14 DEF UsersBody, OneChange
  <2>3. AskedFirst'
    <3>1. AskedFirst /\ Slots' = Slots /\ \A d \in Slots : Out(d)' <=> Out(d)
      BY <1>1, <1>13 DEF UsersBody, Slots
    <3> QED BY <1>14, <3>1 DEF AskedFirst
  <2> QED BY <1>1, <1>14, <2>1, <2>2, <2>3 DEF UsersBody, ShowsRows, UsersCame
<1>18. ASSUME Undisturbed' PROVE AsTheApiHas'
  <2>1. AsTheApiHas
    BY <1>1, <1>18 DEF Undisturbed, UsersBody
  <2>2. PICK data, old : data = ui.data /\ old = server.users
    OBVIOUS
  <2>3. RowsFit(data, old)
    BY <1>17, <2>1, <2>2 DEF AsTheApiHas
  <2>4. Written(c)' /\ ~Written(c) /\ \A d \in Slots \ {c} : Written(d)' <=> Written(d)
    BY <1>1, <1>5, <1>13 DEF Written
  <2>5. ASSUME NEW b \in Accounts, \A d \in OutAs("admin")' : Written(d)' => calls'[d].arg.who # b
        PROVE  data[b].admin = users[b].admin
    <3>1. b # who
      BY <1>1, <1>2, <1>13, <1>14, <2>4, <2>5
    <3>2. \A d \in OutAs("admin") : Written(d) => calls[d].arg.who # b
      BY <1>1, <1>2, <1>13, <1>14, <2>4, <2>5, <3>1 DEF OutAs
    <3> QED BY <1>11, <2>2, <2>3, <3>1, <3>2 DEF RowsFit
  <2>6. ASSUME NEW d \in OutAs("admin")', Written(d)'
        PROVE  calls'[d].got.admin = users[calls'[d].arg.who].admin
    <3>1. CASE d = c
      BY <1>2, <1>3, <1>5, <1>8, <1>11, <1>13, <3>1
    <3>2. CASE d # c
      <4>1. d \in OutAs("admin") /\ Out(d) /\ calls'[d] = calls[d] /\ Written(d)
        BY <1>13, <1>14, <2>4, <2>6, <3>2 DEF OutAs, Out, Free
      <4>2. calls[d].arg.who # who /\ calls[d].arg.who \in Accounts
        BY <1>1, <1>2, <3>2, <4>1 DEF UsersBody, OneChange, AdminCall, OutAs
      <4> QED BY <1>11, <2>2, <2>3, <4>1, <4>2 DEF RowsFit
    <3> QED BY <3>1, <3>2
  <2>7. \A b \in Accounts : users[b].max = old[b].max /\ users[b].exempt = old[b].exempt
    BY <1>8, <1>11, <2>2
  <2>8. \A d \in OutAs("quota") : calls'[d] = calls[d] /\ (Written(d)' <=> Written(d))
    BY <1>1, <1>13, <2>4 DEF OutAs
  <2>9. RowsFit(data, users)'
    <3>1. Rival \in Accounts
      BY DEF Accounts
    <3> QED BY <1>14, <2>3, <2>5, <2>6, <2>7, <2>8, <3>1 DEF RowsFit
  <2>10. RowsFit(ui.data, server.users)'
    BY <1>1, <1>12, <2>2, <2>9 DEF RowsFit
  <2>11. \A d \in Slots : Out(d)' => calls'[d].at # "failed"
    BY <1>13, <2>1 DEF AsTheApiHas
  <2>12. \A d \in OutAs("users")' : FALSE
    BY <1>14, <1>17 DEF UsersCame
  <2> QED BY <2>10, <2>11, <2>12 DEF AsTheApiHas, Slots
<1>19. faults' \in Nat /\ outside' \in Nat /\ (outside' = 0 => server'.counted = Nothing)
  BY <1>1, <1>12 DEF UsersBody
<1>20. ui'.data \in [Accounts -> ShownRows] /\ AdminTypes(ui')
  BY <1>1, <1>17 DEF UsersBody
<1> QED BY <1>12, <1>13, <1>16, <1>17, <1>18, <1>19, <1>20 DEF UsersBody, Slots
LEMMA QuotaIsServed ==
    ASSUME UsersBody, NEW c \in Slots, ServeQuota(c)
    PROVE  UsersBody'
<1>1. /\ calls[c].op = "quota" /\ calls[c].at = "sent" /\ calls[c].op # "none" /\ Out(c) /\ CallsShape
      /\ c \in OutAs("quota") /\ UNCHANGED <<ui, outside>> /\ AdminHeld(server) /\ AdminCall(calls[c])
  BY DEF ServeQuota, Sent, Out, Free, UsersBody, OutAs
<1>2. ~Written(c) /\ Rival \in Accounts /\ DefaultLimit \in Limits
  BY <1>1 DEF Written, Accounts, DefaultLimit, Limits
<1>3. CASE Answer(c, Nothing) /\ UNCHANGED <<server, faults>>
  <2>1. SettledAs(c, "ok", Nothing)
    BY <1>1, <1>3, AnswerSettles
  <2>2. calls'[c].op = "quota" /\ calls'[c].arg = calls[c].arg /\ calls'[c].at = "ok" /\ calls'[c].got = Nothing
    BY <1>1, <2>1 DEF SettledAs
  <2>3. AdminCall(calls'[c])
    BY <1>1, <2>2 DEF AdminCall
  <2> QED BY <1>1, <1>2, <1>3, <2>1, <2>3, UsersSettle DEF UsersBody
<1>4. ASSUME NEW m \in Limits, NEW x \in BOOLEAN, NEW new, new = [max |-> m, exempt |-> x],
             server' = [server EXCEPT !.users[Rival] = [@ EXCEPT !.max = new.max, !.exempt = new.exempt]],
             \/ Answer(c, new) /\ UNCHANGED faults
             \/ faults' = faults + 1 /\ Answer(c, [max |-> Nothing, exempt |-> FALSE])
      PROVE  UsersBody'
  <2>1. PICK got : /\ SettledAs(c, "ok", got) /\ got \in [max : Limits \cup {Nothing}, exempt : BOOLEAN]
                   /\ faults' \in Nat /\ (faults' = 0 => faults = 0 /\ got = new /\ got # Nothing)
    <3>1. faults \in Nat /\ new \in [max : Limits, exempt : BOOLEAN] /\ new # Nothing
      BY <1>4, AnswersAssumption DEF UsersBody
    <3>2. [max |-> Nothing, exempt |-> FALSE] \in [max : Limits \cup {Nothing}, exempt : BOOLEAN]
      OBVIOUS
    <3>3. CASE Answer(c, new) /\ UNCHANGED faults
      BY <1>1, <3>1, <3>3, AnswerSettles
    <3>4. CASE faults' = faults + 1 /\ Answer(c, [max |-> Nothing, exempt |-> FALSE])
      <4>1. SettledAs(c, "ok", [max |-> Nothing, exempt |-> FALSE])
        BY <1>1, <3>4, AnswerSettles
      <4>2. faults' \in Nat /\ faults' # 0
        BY <3>1, <3>4
      <4> QED BY <3>2, <4>1, <4>2
    <3> QED BY <1>4, <3>3, <3>4
  <2>2. PICK old : old = server.users[Rival]
    OBVIOUS
  <2>3. old \in AccountRows
    BY <1>1, <1>2, <2>2 DEF AdminHeld
  <2>4. PICK row : row = [[old EXCEPT !.max = m] EXCEPT !.exempt = x]
    OBVIOUS
  <2>5. row = [admin |-> old.admin, max |-> m, exempt |-> x]
    BY <2>3, <2>4 DEF AccountRows
  <2>6. row \in AccountRows /\ row.admin = old.admin /\ row.max = m /\ row.exempt = x
    BY <2>3, <2>5 DEF AccountRows
  <2>7. PICK users : users = [server.users EXCEPT ![Rival] = row]
    OBVIOUS
  <2>8. server' = [server EXCEPT !.users = users]
    <3>1. server' = [server EXCEPT !.users = [server.users EXCEPT ![Rival] = [[old EXCEPT !.max = m] EXCEPT !.exempt = x]]]
      BY <1>1, <1>4, <2>2 DEF AdminHeld
    <3> QED BY <2>4, <2>7, <3>1
  <2>9. users = [b \in Accounts |-> IF b = Rival THEN row ELSE server.users[b]]
    BY <1>1, <2>7 DEF AdminHeld
  <2>10. AdminHeld(server') /\ server'.users = users /\ server'.counted = server.counted
    BY <1>1, <2>6, <2>8, <2>9 DEF AdminHeld
  <2>11. /\ CallsShape' /\ Out(c)' /\ calls'[c].op = "quota" /\ calls'[c].arg = calls[c].arg
         /\ calls'[c].at = "ok" /\ calls'[c].got = got
         /\ \A d \in Slots \ {c} : calls'[d] = calls[d] /\ (Out(d)' <=> Out(d))
    BY <1>1, <2>1, SettledOut
  <2>12. /\ OutAs("me")' = OutAs("me") /\ OutAs("users")' = OutAs("users")
         /\ OutAs("admin")' = OutAs("admin") /\ OutAs("quota")' = OutAs("quota")
         /\ \A d \in OutAs("admin") \cup OutAs("quota") : calls'[d].arg = calls[d].arg
    BY <2>1, OutSettled
  <2>13. AdminCall(calls'[c]) /\ AsksFor(ui, calls'[c])
    <3>1. AsksFor(ui, calls[c])
      BY <1>1 DEF UsersBody
    <3> QED BY <1>1, <2>1, <2>11, <3>1 DEF AdminCall, AsksFor
  <2>14. \A d \in Slots : Out(d)' => AdminCall(calls'[d]) /\ AsksFor(ui', calls'[d])
    BY <1>1, <2>11, <2>13 DEF UsersBody
  <2>15. OneChange' /\ AskedFirst' /\ ShowsRows(ui') /\ (UsersCame(ui)' <=> UsersCame(ui)) /\ UsersCame(ui)
    <3>1. UsersCame(ui)
      BY <1>1 DEF UsersBody
    <3>2. OneChange'
      BY <2>12 DEF UsersBody, OneChange
    <3>3. AskedFirst'
      <4>1. AskedFirst /\ Slots' = Slots /\ \A d \in Slots : Out(d)' <=> Out(d)
        BY <1>1, <2>11 DEF UsersBody, Slots
      <4> QED BY <2>12, <4>1 DEF AskedFirst
    <3> QED BY <1>1, <2>12, <3>1, <3>2, <3>3 DEF UsersBody, ShowsRows, UsersCame
  <2>16. ASSUME Undisturbed' PROVE AsTheApiHas'
    <3>1. AsTheApiHas /\ got = new /\ got # Nothing
      BY <1>1, <2>1, <2>16 DEF Undisturbed, UsersBody
    <3>2. PICK data, had : data = ui.data /\ had = server.users
      OBVIOUS
    <3>3. RowsFit(data, had)
      BY <2>15, <3>1, <3>2 DEF AsTheApiHas
    <3>4. Written(c)' /\ \A d \in OutAs("quota") : d = c
      BY <1>1, <2>11, <3>1 DEF Written, UsersBody, OneChange
    <3>5. got.max = m /\ got.exempt = x
      BY <1>4, <3>1
    <3>6. \A b \in Accounts : users[b].admin = had[b].admin
      BY <2>2, <2>6, <2>9, <3>2
    <3>7. \A b \in Accounts \ {Rival} : users[b] = had[b]
      BY <2>9, <3>2
    <3>8. users[Rival].max = m /\ users[Rival].exempt = x
      BY <1>2, <2>6, <2>9
    <3>9. \A d \in OutAs("admin") : calls'[d] = calls[d] /\ (Written(d)' <=> Written(d)) /\ calls[d].arg.who \in Accounts
      <4>1. ASSUME NEW d \in OutAs("admin")
            PROVE  calls'[d] = calls[d] /\ (Written(d)' <=> Written(d)) /\ calls[d].arg.who \in Accounts
        <5>1. d \in Slots \ {c} /\ Out(d) /\ calls[d].op = "admin"
          BY <1>1, <4>1 DEF OutAs, Out, Free
        <5>2. calls'[d] = calls[d] /\ (Written(d)' <=> Written(d))
          BY <2>11, <5>1 DEF Written
        <5>3. AdminCall(calls[d])
          BY <5>1 DEF UsersBody
        <5> QED BY <5>1, <5>2, <5>3 DEF AdminCall
      <4> QED BY <4>1
    <3>10. ASSUME NEW b \in Accounts, \A d \in OutAs("quota")' : Written(d)' => b # Rival
           PROVE  data[b].max = users[b].max /\ data[b].exempt = users[b].exempt
      <4>1. b # Rival
        BY <1>1, <2>12, <3>4, <3>10
      <4> QED BY <3>3, <3>7, <4>1 DEF RowsFit
    <3>11. \A d \in OutAs("quota")' : Written(d)' => calls'[d].got.max = users[Rival].max /\ calls'[d].got.exempt = users[Rival].exempt
      BY <2>11, <2>12, <3>4, <3>5, <3>8
    <3>12. RowsFit(data, users)'
      BY <2>12, <3>3, <3>6, <3>9, <3>10, <3>11 DEF RowsFit
    <3>13. RowsFit(ui.data, server.users)'
      BY <1>1, <2>10, <3>2, <3>12 DEF RowsFit
    <3>14. \A d \in Slots : Out(d)' => calls'[d].at # "failed"
      BY <2>11, <3>1 DEF AsTheApiHas
    <3>15. \A d \in OutAs("users")' : FALSE
      BY <2>12, <2>15 DEF UsersCame
    <3> QED BY <3>13, <3>14, <3>15 DEF AsTheApiHas, Slots
  <2>17. outside' \in Nat /\ (outside' = 0 => server'.counted = Nothing)
    BY <1>1, <2>10 DEF UsersBody
  <2>18. ui'.data \in [Accounts -> ShownRows] /\ AdminTypes(ui')
    BY <1>1, <2>15 DEF UsersBody
  <2> QED BY <2>1, <2>10, <2>11, <2>14, <2>15, <2>16, <2>17, <2>18 DEF UsersBody, Slots
<1>5. CASE ~(Answer(c, Nothing) /\ UNCHANGED <<server, faults>>)
  <2>1. PICK a : a = calls[c].arg
    OBVIOUS
  <2>2. PICK m, x : m = (IF a.max = Nothing THEN DefaultLimit ELSE a.max) /\ x = a.exempt
    OBVIOUS
  <2>3. m \in Limits /\ x \in BOOLEAN
    BY <1>1, <1>2, <2>1, <2>2 DEF AdminCall
  <2>4. PICK new : new = [max |-> m, exempt |-> x]
    OBVIOUS
  <2>5. /\ server' = [server EXCEPT !.users[Rival] = [@ EXCEPT !.max = new.max, !.exempt = new.exempt]]
        /\ \/ Answer(c, new) /\ UNCHANGED faults
           \/ faults' = faults + 1 /\ Answer(c, [max |-> Nothing, exempt |-> FALSE])
    BY <1>5, <2>1, <2>2, <2>4 DEF ServeQuota
  <2> QED BY <1>4, <2>3, <2>4, <2>5
<1> QED BY <1>3, <1>5
(* The other admin, and what is typed of the quota.                         *)
LEMMA RivalComes ==
    ASSUME UsersBody, RivalCounts \/ RivalWrites
    PROVE  UsersBody'
<1>1. CASE RivalCounts
  <2>1. PICK raced : raced = (server.raced \/ \E c \in Slots : calls[c].op = "admin" /\ calls[c].at = "counted")
    OBVIOUS
  <2>2. raced \in BOOLEAN /\ AdminHeld(server) /\ Me \in Accounts
    BY <2>1 DEF UsersBody, AdminHeld, Accounts
  <2>3. server' = [[server EXCEPT !.counted = Me] EXCEPT !.raced = raced]
    BY <1>1, <2>1, <2>2 DEF RivalCounts, Elsewhere, AdminHeld
  <2>4. outside' = outside + 1 /\ outside \in Nat /\ UNCHANGED <<ui, calls, faults>>
    BY <1>1 DEF RivalCounts, Elsewhere, UsersBody
  <2>5. AdminHeld(server')
    BY <2>2, <2>3 DEF AdminHeld
  <2>6. outside' \in Nat /\ outside' # 0
    BY <2>4
  <2> QED BY <2>4, <2>5, <2>6, UsersStill DEF UsersBody, Undisturbed
<1>2. CASE RivalWrites
  <2>1. UNCHANGED <<ui, calls, faults, outside>> /\ server.counted # Nothing /\ AdminHeld(server)
    BY <1>2 DEF RivalWrites, UsersBody
  <2>2. server.counted = Me /\ Me \in Accounts /\ outside # 0
    BY <2>1 DEF UsersBody, AdminHeld, Accounts
  <2>3. PICK row : row = [server.users[Me] EXCEPT !.admin = FALSE]
    OBVIOUS
  <2>4. server.users[Me] \in AccountRows
    BY <2>1, <2>2 DEF AdminHeld
  <2>5. row \in AccountRows
    BY <2>3, <2>4 DEF AccountRows
  <2>6. PICK users : users = [server.users EXCEPT ![Me] = row]
    OBVIOUS
  <2>7. users \in [Accounts -> AccountRows]
    BY <2>1, <2>2, <2>5, <2>6 DEF AdminHeld
  <2>8. server' = [[server EXCEPT !.counted = Nothing] EXCEPT !.users = users]
    BY <1>2, <2>1, <2>2, <2>3, <2>6 DEF RivalWrites, AdminHeld
  <2>9. AdminHeld(server') /\ server'.counted = Nothing
    BY <2>1, <2>7, <2>8 DEF AdminHeld
  <2> QED BY <2>1, <2>2, <2>9, UsersStill DEF UsersBody, Undisturbed
<1> QED BY <1>1, <1>2

LEMMA QuotaTyped ==
    ASSUME UsersBody, EditQuota
    PROVE  UsersBody'
<1>1. /\ UNCHANGED <<server, calls, faults, outside>>
      /\ \/ ui' = [ui EXCEPT !.editing = TRUE]
         \/ \E n \in Limits : ui' = [ui EXCEPT !.draft = n]
         \/ ui' = [ui EXCEPT !.editing = FALSE]
  BY DEF EditQuota, Page, Only
<1>2. /\ AdminTypes(ui') /\ ui'.view = ui.view /\ ui'.phase = ui.phase /\ ui'.filter = ui.filter
      /\ ui'.data = ui.data /\ ui'.err = ui.err /\ ui'.toggling = ui.toggling /\ ui'.saving = ui.saving
  BY <1>1 DEF UsersBody, AdminTypes, AdminFields
<1> QED BY <1>1, <1>2, UsersStill DEF UsersBody, Undisturbed

LEMMA UsersKeeps == UsersBody /\ (AdminNext \/ (\E c \in Slots : Fail(c)) \/ UNCHANGED vars) => UsersBody'
<1> SUFFICES ASSUME UsersBody, AdminNext \/ (\E c \in Slots : Fail(c)) \/ UNCHANGED vars PROVE UsersBody'
  OBVIOUS
<1>1. CASE UNCHANGED vars
  BY <1>1, UsersStill DEF vars, UsersBody, Undisturbed
<1>2. CASE \E c \in Slots : Fail(c)
  BY <1>2, UsersFail
<1>3. CASE AdminNext
  <2>1. ASSUME QuotaButtons PROVE UsersBody'
    <3>1. ui.draft \in Limits \cup {Nothing} /\ TRUE \in BOOLEAN /\ FALSE \in BOOLEAN /\ Nothing \in Limits \cup {Nothing}
      BY DEF UsersBody, AdminTypes
    <3> QED BY <2>1, <3>1, QuotaSaves DEF QuotaButtons
  <2> QED BY <1>3, <2>1, RivalComes, QuotaTyped, FilterPicked, AdminSets, AdminReadServed, GuardIsPassed,
             AdminReads, AdminIsCounted, AdminIsWritten, AdminIsAnswered, QuotaIsServed, QuotaIsAnswered
          DEF AdminNext
<1> QED BY <1>1, <1>2, <1>3

LEMMA UsersHolds ==
    /\ Init => UsersInv
    /\ UsersInv /\ [Next]_vars => UsersInv'
    /\ UsersInv => UsersAreCurrent /\ RowsOfTheFilter /\ AdminTypeOK
<1>1. Init => UsersInv
  BY InitOn, UsersStarts DEF UsersInv
<1>2. UsersInv /\ [Next]_vars => UsersInv'
  <2> SUFFICES ASSUME UsersInv, [Next]_vars, OnAdmin' PROVE UsersBody'
    BY DEF UsersInv
  <2>1. OnAdmin /\ UsersBody
    BY PagesStay DEF OnAdmin, UsersInv
  <2> QED BY <2>1, NextOn, UsersKeeps
<1>3. ASSUME UsersInv, OnAdmin, Listed_Users, Quiet, faults = 0, outside = 0 PROVE ui.data = server.users
  <2>1. UsersBody /\ \A c \in Slots : ~Out(c)
    BY <1>3, QuietIs DEF UsersInv
  <2>2. OutAs("admin") = {} /\ OutAs("quota") = {} /\ OutAs("users") = {}
    BY <2>1 DEF OutAs, Out, Free
  <2>3. UsersCame(ui)
    BY <1>3, <2>2 DEF Listed_Users, UsersCame
  <2>4. RowsFit(ui.data, server.users) /\ ui.data \in [Accounts -> ShownRows] /\ server.users \in [Accounts -> AccountRows]
    BY <1>3, <2>1, <2>3 DEF UsersBody, Undisturbed, AsTheApiHas, AdminHeld
  <2>5. ASSUME NEW a \in Accounts PROVE ui.data[a] = server.users[a]
    <3>1. /\ ui.data[a].admin = server.users[a].admin /\ ui.data[a].max = server.users[a].max
          /\ ui.data[a].exempt = server.users[a].exempt
      BY <2>2, <2>4 DEF RowsFit
    <3>2. ui.data[a] \in ShownRows /\ server.users[a] \in AccountRows
      BY <2>4
    <3> QED BY <3>1, <3>2 DEF ShownRows, AccountRows
  <2> QED BY <2>4, <2>5
<1>4. UsersInv => RowsOfTheFilter /\ AdminTypeOK
  <2>1. UsersInv => RowsOfTheFilter
    BY DEF UsersInv, UsersBody, ShowsRows, RowsOfTheFilter
  <2>2. ASSUME UsersInv, OnAdmin PROVE AdminTypeOK
    <3>1. AdminTypes(ui) /\ AdminHeld(server)
      BY <2>2 DEF UsersInv, UsersBody
    <3> QED BY <3>1 DEF AdminTypeOK, AdminTypes, AdminHeld, AccountRows
  <2> QED BY <2>1, <2>2 DEF AdminTypeOK
<1> QED BY <1>1, <1>2, <1>3, <1>4 DEF UsersAreCurrent
-----------------------------------------------------------------------------
(* The share sheet: what it needs is the invariant of its narrowings.       *)
LEMMA ShareHolds ==
    /\ Init => ShareInv
    /\ ShareInv /\ [Next]_vars => ShareInv'
    /\ ShareInv => SheetShowsTheRow
<1>1. Init => ShareInv
  BY InitOn, ShareStarts DEF ShareInv
<1>2. ShareInv /\ [Next]_vars => ShareInv'
  <2> SUFFICES ASSUME ShareInv, [Next]_vars, OnShare' PROVE ShareBody'
    BY DEF ShareInv
  <2>1. OnShare /\ ShareBody
    BY PagesStay DEF OnShare, ShareInv
  <2>2. CASE UNCHANGED vars
    BY <2>1, <2>2 DEF vars, ShareBody, CallsShape, Out, StaysOnFeed, KeepsTheFeed, IsTheRow, ShareCall
  <2> QED BY <2>1, <2>2, NextOn, ShareKeeps, ShareFails
<1>3. ShareInv => SheetShowsTheRow
  BY DEF ShareInv, ShareBody, SheetShowsTheRow
<1> QED BY <1>1, <1>2, <1>3

(* Once everything has come back, what a page shows is what the API holds,  *)
(* or is not ahead of it.                                                   *)
THEOREM ShownIsAlwaysHeld == Spec => []ShownIsHeld
<1> DEFINE Inv == /\ ShareInv /\ InvitedInv /\ BulkInv /\ UsersInv /\ ListShowsInv /\ AppsShowsInv /\ PlanInv
                  /\ PushInv /\ StripShowsInv /\ SeenShowsInv /\ ThemeInv /\ GateInv /\ BoxShowsInv
<1>1. Init => Inv
  BY ShareHolds, InvitedHolds, BulkHolds, UsersHolds, ListShowsHolds, AppsShowsHolds, PlanHolds, PushHolds,
     StripShowsHolds, SeenShowsHolds, ThemeHolds, GateHolds, BoxShowsHolds
<1>2. Inv /\ [Next]_vars => Inv'
  BY ShareHolds, InvitedHolds, BulkHolds, UsersHolds, ListShowsHolds, AppsShowsHolds, PlanHolds, PushHolds,
     StripShowsHolds, SeenShowsHolds, ThemeHolds, GateHolds, BoxShowsHolds
<1>3. Inv => ShownIsHeld
  BY ShareHolds, InvitedHolds, BulkHolds, UsersHolds, ListShowsHolds, AppsShowsHolds, PlanHolds, PushHolds,
     StripShowsHolds, SeenShowsHolds, ThemeHolds, GateHolds, BoxShowsHolds
     DEF ShownIsHeld
<1> QED BY <1>1, <1>2, <1>3, PTL DEF Spec
-----------------------------------------------------------------------------
(* A new session.  The machine that is chosen is one of the list, and what  *)
(* is picked is of it or was; the form is disabled exactly while a start is *)
(* out or has been asked for.                                               *)

NewFields == {"hosts", "host", "cwd", "agent", "model", "starting", "left"}
NewTypes(u) ==
    /\ u = [f \in NewFields |-> u[f]]
    /\ u.hosts = Nothing \/ u.hosts \in [Machines -> Regs]
    /\ u.host \in Machines \cup {Nothing} /\ u.agent \in {"claude", "codex", Nothing}
    /\ u.starting \in BOOLEAN /\ u.left \in BOOLEAN
IsOffered(u) ==
    u.host # Nothing =>
      /\ u.cwd[1] = u.host /\ u.agent \in {"claude", "codex"}
      /\ u.model # Nothing => \E r \in Registrations : u.model \in ModelsFor(r, u.agent)
IsThere(u) == u.host # Nothing => u.hosts \in [Machines -> Regs] /\ u.hosts[u.host] \in Registrations
NewHeld(s) == s = [reg |-> s.reg, asked |-> s.asked] /\ s.reg \in [Machines -> Regs] /\ s.asked \in BOOLEAN
NewCall(r, asked) ==
    /\ r.op \in {"hosts", "poll", "spawn"}
    /\ r.op \in {"hosts", "poll"} /\ r.at = "ok" => r.got \in [Machines -> Regs]
    /\ r.op = "spawn" /\ r.got = "requested" => asked
NewBody ==
    /\ CallsShape /\ NewTypes(ui) /\ IsOffered(ui) /\ IsThere(ui) /\ NewHeld(server)
    /\ \A c \in Slots : Out(c) => NewCall(calls[c], server.asked)
    /\ \A c, d \in OutAs("spawn") : c = d
    /\ ui.starting <=> ui.left \/ OutAs("spawn") # {}
    /\ ui.left => server.asked /\ OutAs("spawn") = {}
NewInv == OnNew => NewBody

LEMMA AnAgent ==
    ASSUME NEW r \in Registrations
    PROVE  r.agents[1] \in {"claude", "codex"} /\ \A i \in DOMAIN r.agents : r.agents[i] \in {"claude", "codex"}
<1>1. r.agents = <<"claude", "codex">> \/ r.agents = <<"codex">>
  BY DEF Registrations
<1> QED BY <1>1

LEMMA NewStarts == NewInit => NewBody
<1> SUFFICES ASSUME NewInit PROVE NewBody
  OBVIOUS
<1>1. PICK m \in Machines, r \in Registrations :
        Opens("new",
              [hosts |-> Nothing, host |-> Nothing, cwd |-> Nothing, agent |-> Nothing,
               model |-> Nothing, starting |-> FALSE, left |-> FALSE],
              [reg |-> [n \in Machines |-> IF n = m THEN r ELSE Nothing], asked |-> FALSE],
              Request("hosts", Nothing))
  BY DEF NewInit
<1>2. PICK reg : reg = [n \in Machines |-> IF n = m THEN r ELSE Nothing]
  OBVIOUS
<1>3. reg \in [Machines -> Regs]
  BY <1>2 DEF Regs
<1>4. PICK state : state = [hosts |-> Nothing, host |-> Nothing, cwd |-> Nothing, agent |-> Nothing,
                            model |-> Nothing, starting |-> FALSE, left |-> FALSE]
  OBVIOUS
<1>5. Opens("new", state, [reg |-> reg, asked |-> FALSE], Request("hosts", Nothing)) /\ IsCall(Request("hosts", Nothing))
  BY <1>1, <1>2, <1>4 DEF IsCall, Request
<1>6. /\ ui = state /\ server = [reg |-> reg, asked |-> FALSE] /\ CallsShape /\ 1 \in Slots
      /\ calls[1] = Request("hosts", Nothing) /\ \A c \in Slots \ {1} : calls[c] = Free
  BY <1>5, OpensWith
<1>7. NewTypes(ui) /\ IsOffered(ui) /\ IsThere(ui) /\ ui.starting = FALSE /\ ui.left = FALSE
  BY <1>4, <1>6 DEF NewTypes, NewFields, IsOffered, IsThere
<1>8. NewHeld(server)
  BY <1>3, <1>6 DEF NewHeld
<1>9. OutAs("spawn") = {} /\ \A c \in Slots : Out(c) => NewCall(calls[c], server.asked)
  BY <1>6 DEF OutAs, Out, Request, Free, NewCall
<1> QED BY <1>6, <1>7, <1>8, <1>9 DEF NewBody

(* pickHost, and the effect on the list.                                    *)
LEMMA PickHostIs ==
    ASSUME NEW p, NewTypes(p), p.hosts \in [Machines -> Regs], NEW m \in Machines, p.hosts[m] # Nothing,
           m # Nothing, NEW q \in PickHost(p, m)
    PROVE  NewTypes(q) /\ IsOffered(q) /\ IsThere(q) /\ q.starting = p.starting /\ q.left = p.left
<1>1. PICK r \in Registrations : r = p.hosts[m]
  BY DEF Regs
<1>3. PICK cwd : cwd = <<m, r.dirs[1]>>
  OBVIOUS
<1> DEFINE Forms(a) == {[p EXCEPT !.host = m, !.cwd = <<m, p.hosts[m].dirs[1]>>,
                                  !.agent = a, !.model = id] : id \in Remembered(p, m, a)}
<1>10. q \in UNION {Forms(a) : a \in AgentsOf(p.hosts[m])}
  BY Zenon DEF PickHost
<1>2. PICK a \in AgentsOf(r) : q \in Forms(a)
  <2> HIDE DEF Forms
  <2> QED BY <1>1, <1>10
<1>4. PICK id \in ModelsFor(r, a) \cup {Nothing} :
        q = [p EXCEPT !.host = m, !.cwd = cwd, !.agent = a, !.model = id]
  BY <1>1, <1>2, <1>3 DEF Remembered
<1>5. a \in {"claude", "codex"} /\ cwd[1] = m
  BY <1>2, <1>3, AnAgent DEF AgentsOf
<1>6. /\ q = [f \in NewFields |-> q[f]] /\ q.host = m /\ q.cwd = cwd /\ q.agent = a /\ q.model = id
      /\ q.hosts = p.hosts /\ q.starting = p.starting /\ q.left = p.left
  BY <1>4 DEF NewTypes, NewFields
<1>7. NewTypes(q)
  BY <1>5, <1>6 DEF NewTypes
<1>8. IsOffered(q)
  BY <1>5, <1>6 DEF IsOffered
<1>9. IsThere(q)
  BY <1>1, <1>6 DEF IsThere
<1> QED BY <1>6, <1>7, <1>8, <1>9

LEMMA ChosenIs ==
    ASSUME NEW p, NewTypes(p), IsOffered(p), p.hosts \in [Machines -> Regs], NEW v \in Chosen(p)
    PROVE  NewTypes(v) /\ IsOffered(v) /\ IsThere(v) /\ v.starting = p.starting /\ v.left = p.left
<1>1. PICK q : q = IF p.host # Nothing /\ p.hosts[p.host] = Nothing THEN [p EXCEPT !.host = Nothing] ELSE p
  OBVIOUS
<1>2. /\ NewTypes(q) /\ IsOffered(q) /\ IsThere(q) /\ q.hosts = p.hosts
      /\ q.starting = p.starting /\ q.left = p.left
  <2>1. CASE p.host # Nothing /\ p.hosts[p.host] = Nothing
    BY <1>1, <2>1 DEF NewTypes, NewFields, IsOffered, IsThere
  <2>2. CASE ~(p.host # Nothing /\ p.hosts[p.host] = Nothing)
    <3>1. q = p /\ (p.host # Nothing => p.host \in Machines /\ p.hosts[p.host] # Nothing)
      BY <1>1, <2>2 DEF NewTypes
    <3>2. IsThere(p)
      BY <3>1 DEF IsThere, Regs
    <3> QED BY <3>1, <3>2
  <2> QED BY <2>1, <2>2
<1>3. CASE q.host = Nothing /\ Cardinality(Online(q.hosts)) = 1
  <2>1. Online(q.hosts) # {}
    <3>1. Cardinality({}) = 0
      BY FS_EmptySet
    <3> QED BY <1>3, <3>1
  <2>2. PICK m : m = CHOOSE n \in Machines : q.hosts[n] # Nothing
    OBVIOUS
  <2>3. m \in Machines /\ q.hosts[m] # Nothing
    BY <2>1, <2>2 DEF Online
  <2>4. v \in PickHost(q, m)
    BY <1>1, <1>3, <2>2 DEF Chosen
  <2>5. m # Nothing
    BY <2>3, NewAssumption
  <2> QED BY <1>2, <2>3, <2>4, <2>5, PickHostIs
<1>4. CASE ~(q.host = Nothing /\ Cardinality(Online(q.hosts)) = 1)
  <2>1. v = q
    BY <1>1, <1>4 DEF Chosen
  <2> QED BY <1>2, <2>1
<1> QED BY <1>3, <1>4

(* What is picked in the form.                                              *)
LEMMA NewStill ==
    ASSUME NewBody, UNCHANGED calls, NewTypes(ui'), IsOffered(ui'), IsThere(ui'), NewHeld(server'),
           ui'.starting = ui.starting, ui'.left = ui.left, server'.asked = server.asked
    PROVE  NewBody'
<1>1. OutAs("spawn")' = OutAs("spawn")
  BY DEF OutAs, Slots
<1> QED BY <1>1 DEF NewBody, CallsShape, Slots, Out

LEMMA OnScreen ==
    ASSUME NewBody, Screen \in {"machines", "pickers"}
    PROVE  /\ ui.hosts \in [Machines -> Regs]
           /\ Screen = "pickers" => ui.host \in Machines /\ ui.host # Nothing /\ Mine \in Registrations
<1>1. ui.hosts # Nothing
  BY DEF Screen
<1>2. Screen = "pickers" => ui.host # Nothing
  BY DEF Screen
<1> QED BY <1>1, <1>2 DEF NewBody, NewTypes, IsThere, Mine

LEMMA FormPicks ==
    ASSUME NewBody,
           \/ \E m \in Machines : PickMachine(m)
           \/ \E m \in Machines, dir \in {"code", "docs"} : PickDirectory(<<m, dir>>)
           \/ \E a \in {"claude", "codex"} : PickAgent(a)
           \/ \E id \in {"opus", "gpt", Nothing} : PickModel(id)
    PROVE  NewBody'
<1>1. ASSUME NEW m \in Machines, PickMachine(m) PROVE NewBody'
  <2>1. ui.hosts \in [Machines -> Regs] /\ ui.hosts[m] # Nothing /\ UNCHANGED <<server, calls>>
    BY <1>1, OnScreen DEF PickMachine, Online, Only
  <2>2. PICK q \in PickHost(ui, m) : ui' = q
    BY <1>1 DEF PickMachine, Page
  <2>3. m # Nothing
    BY NewAssumption
  <2>4. NewTypes(q) /\ IsOffered(q) /\ IsThere(q) /\ q.starting = ui.starting /\ q.left = ui.left
    BY <2>1, <2>3, PickHostIs DEF NewBody
  <2> QED BY <2>1, <2>2, <2>4, NewStill DEF NewBody
<1>2. ASSUME NEW m \in Machines, NEW dir \in {"code", "docs"}, PickDirectory(<<m, dir>>) PROVE NewBody'
  <2>1. PICK d : d = <<m, dir>>
    OBVIOUS
  <2>2. d \in DirsOf(ui.host, Mine) /\ ui' = [ui EXCEPT !.cwd = d] /\ UNCHANGED <<server, calls>>
    BY <1>2, <2>1 DEF PickDirectory, Page, Only
  <2>3. d[1] = ui.host
    BY <2>2 DEF DirsOf
  <2>4. /\ NewTypes(ui') /\ ui'.host = ui.host /\ ui'.hosts = ui.hosts /\ ui'.cwd = d /\ ui'.agent = ui.agent
        /\ ui'.model = ui.model /\ ui'.starting = ui.starting /\ ui'.left = ui.left
    BY <2>2 DEF NewBody, NewTypes, NewFields
  <2>5. IsOffered(ui') /\ IsThere(ui')
    BY <2>3, <2>4 DEF NewBody, IsOffered, IsThere
  <2> QED BY <2>2, <2>4, <2>5, NewStill DEF NewBody
<1>3. ASSUME NEW a \in {"claude", "codex"}, PickAgent(a) PROVE NewBody'
  <2>1. Mine \in Registrations /\ UNCHANGED <<server, calls>>
    BY <1>3, OnScreen DEF PickAgent, Only
  <2>2. PICK r : r = Mine
    OBVIOUS
  <2>3. PICK id \in ModelsFor(r, a) \cup {Nothing} : ui' = [ui EXCEPT !.agent = a, !.model = id]
    BY <1>3, <2>2 DEF PickAgent, Remembered, Page, Mine
  <2>4. /\ NewTypes(ui') /\ ui'.host = ui.host /\ ui'.hosts = ui.hosts /\ ui'.cwd = ui.cwd /\ ui'.agent = a
        /\ ui'.model = id /\ ui'.starting = ui.starting /\ ui'.left = ui.left
    BY <2>3 DEF NewBody, NewTypes, NewFields
  <2>5. IsOffered(ui') /\ IsThere(ui')
    BY <2>1, <2>2, <2>4 DEF NewBody, IsOffered, IsThere
  <2> QED BY <2>1, <2>4, <2>5, NewStill DEF NewBody
<1>4. ASSUME NEW id \in {"opus", "gpt", Nothing}, PickModel(id) PROVE NewBody'
  <2>1. Mine \in Registrations /\ id \in ModelsFor(Mine, ui.agent) \cup {Nothing} /\ UNCHANGED <<server, calls>>
    BY <1>4, OnScreen DEF PickModel, Only
  <2>2. ui' = [ui EXCEPT !.model = id]
    BY <1>4 DEF PickModel, Page
  <2>3. /\ NewTypes(ui') /\ ui'.host = ui.host /\ ui'.hosts = ui.hosts /\ ui'.cwd = ui.cwd /\ ui'.agent = ui.agent
        /\ ui'.model = id /\ ui'.starting = ui.starting /\ ui'.left = ui.left
    BY <2>2 DEF NewBody, NewTypes, NewFields
  <2>4. IsOffered(ui') /\ IsThere(ui')
    BY <2>1, <2>3 DEF NewBody, IsOffered, IsThere
  <2> QED BY <2>1, <2>3, <2>4, NewStill DEF NewBody
<1> QED BY <1>1, <1>2, <1>3, <1>4

(* Requests of the lists and of the start.                                  *)
LEMMA NewTaken ==
    ASSUME NewBody, NEW op \in {"hosts", "poll"}, Fetch(op, Nothing), UNCHANGED <<ui, server>>
    PROVE  NewBody'
<1>1. PICK q : q = [op |-> op, arg |-> Nothing, at |-> "sent", got |-> Nothing]
  OBVIOUS
<1>2. PICK s \in Slots : TakenBy(s, q)
  BY <1>1, FetchTakes DEF Request, NewBody
<1>3. CallsShape' /\ calls'[s] = q /\ \A d \in Slots \ {s} : calls'[d] = calls[d] /\ (Out(d)' <=> Out(d))
  BY <1>1, <1>2, TakenOut DEF Free
<1>4. OutAs("spawn")' = OutAs("spawn")
  <2>1. calls[s] = Free
    BY <1>2 DEF TakenBy
  <2> QED BY <1>1, <1>3, <2>1 DEF OutAs, Free, Slots
<1>5. NewCall(q, server.asked)
  BY <1>1 DEF NewCall
<1>6. \A d \in Slots : Out(d)' => NewCall(calls'[d], server'.asked)
  BY <1>3, <1>5 DEF NewBody
<1> QED BY <1>3, <1>4, <1>6 DEF NewBody, Slots

LEMMA SpawnSent ==
    ASSUME NewBody, StartSession
    PROVE  NewBody'
<1>1. PICK arg : arg = [host |-> ui.host, agent |-> ui.agent, cwd |-> ui.cwd, model |-> ui.model]
  OBVIOUS
<1>2. PICK q : q = [op |-> "spawn", arg |-> arg, at |-> "sent", got |-> Nothing]
  OBVIOUS
<1>3. PICK s \in Slots : TakenBy(s, q)
  BY <1>1, <1>2, FetchTakes DEF StartSession, Request, NewBody
<1>4. CallsShape' /\ calls'[s] = q /\ \A d \in Slots \ {s} : calls'[d] = calls[d] /\ (Out(d)' <=> Out(d))
  BY <1>2, <1>3, TakenOut DEF Free
<1>5. OutAs("spawn") = {} /\ ~ui.left
  BY DEF StartSession, CanStart, NewBody
<1>6. OutAs("spawn")' = {s}
  BY <1>2, <1>4, <1>5 DEF OutAs, Slots
<1>7. ui' = [ui EXCEPT !.starting = TRUE] /\ server' = server
  BY DEF StartSession, Page, Only
<1>8. /\ NewTypes(ui') /\ ui'.starting = TRUE /\ ui'.left = ui.left /\ ui'.host = ui.host /\ ui'.hosts = ui.hosts
      /\ ui'.cwd = ui.cwd /\ ui'.agent = ui.agent /\ ui'.model = ui.model
  BY <1>7 DEF NewBody, NewTypes, NewFields
<1>9. IsOffered(ui') /\ IsThere(ui')
  BY <1>8 DEF NewBody, IsOffered, IsThere
<1>10. NewCall(q, server.asked)
  BY <1>2, NewAssumption DEF NewCall
<1>11. \A d \in Slots : Out(d)' => NewCall(calls'[d], server'.asked)
  BY <1>4, <1>7, <1>10 DEF NewBody
<1> QED BY <1>4, <1>5, <1>6, <1>7, <1>8, <1>9, <1>11 DEF NewBody, Slots

LEMMA NewSettles ==
    ASSUME NewBody, NEW c \in Slots, Out(c), NEW at, NEW got, SettledAs(c, at, got), UNCHANGED ui,
           NewHeld(server'), server.asked => server'.asked,
           calls[c].op \in {"hosts", "poll"} /\ at = "ok" => got \in [Machines -> Regs],
           calls[c].op = "spawn" /\ got = "requested" => server'.asked
    PROVE  NewBody'
<1>1. calls[c].op # "none" /\ calls[c].op \in {"hosts", "poll", "spawn"}
  BY DEF NewBody, NewCall
<1>2. /\ CallsShape' /\ calls'[c].op = calls[c].op /\ calls'[c].at = at /\ calls'[c].got = got
      /\ \A d \in Slots \ {c} : calls'[d] = calls[d] /\ (Out(d)' <=> Out(d))
  BY <1>1, SettledOut
<1>3. OutAs("spawn")' = OutAs("spawn")
  BY OutSettled
<1>4. NewCall(calls'[c], server'.asked)
  BY <1>1, <1>2 DEF NewCall
<1>5. \A d \in Slots : Out(d)' => NewCall(calls'[d], server'.asked)
  BY <1>2, <1>4 DEF NewBody, NewCall
<1> QED BY <1>2, <1>3, <1>5 DEF NewBody, Slots

LEMMA NewServed ==
    ASSUME NewBody, NEW c \in Slots, ServeHosts(c) \/ ServeSpawn(c)
    PROVE  NewBody'
<1>1. CASE ServeHosts(c)
  <2>1. calls[c].op \in {"hosts", "poll"} /\ calls[c].op # "none" /\ Out(c) /\ UNCHANGED <<ui, server>>
    BY <1>1 DEF ServeHosts, Sent, Only, Out, Free
  <2>2. SettledAs(c, "ok", server.reg)
    BY <1>1, <2>1, AnswerSettles DEF ServeHosts, NewBody
  <2> QED BY <2>1, <2>2, NewSettles DEF NewBody, NewHeld
<1>2. CASE ServeSpawn(c)
  <2>1. calls[c].op = "spawn" /\ calls[c].op # "none" /\ Out(c) /\ UNCHANGED ui
    BY <1>2 DEF ServeSpawn, Sent, Only, Out, Free
  <2>2. PICK how : Answer(c, how) /\ server' = [server EXCEPT !.asked = @ \/ how = "requested"]
    BY <1>2 DEF ServeSpawn
  <2>3. SettledAs(c, "ok", how)
    BY <2>1, <2>2, AnswerSettles DEF NewBody
  <2>4. PICK asked \in BOOLEAN : asked = (server.asked \/ how = "requested")
    OBVIOUS
  <2>5. server' = [server EXCEPT !.asked = asked]
    BY <2>2, <2>4 DEF NewBody, NewHeld
  <2>6. NewHeld(server') /\ server'.asked = asked
    BY <2>5 DEF NewBody, NewHeld
  <2> QED BY <2>1, <2>3, <2>4, <2>6, NewSettles
<1> QED BY <1>1, <1>2

LEMMA NewLeft ==
    ASSUME NewBody, NEW c \in Slots, Out(c), LeftWith(c, Free), UNCHANGED server,
           NewTypes(ui'), IsOffered(ui'), IsThere(ui'),
           ui'.starting <=> ui'.left \/ OutAs("spawn") \ {c} # {},
           ui'.left => server.asked /\ OutAs("spawn") \ {c} = {}
    PROVE  NewBody'
<1>1. CallsShape' /\ ~Out(c)' /\ \A d \in Slots \ {c} : calls'[d] = calls[d] /\ (Out(d)' <=> Out(d))
  BY LeftOut
<1>2. OutAs("spawn")' = OutAs("spawn") \ {c}
  BY OutLeft DEF Free
<1>3. \A d \in Slots : Out(d)' => NewCall(calls'[d], server'.asked)
  BY <1>1 DEF NewBody
<1> QED BY <1>1, <1>2, <1>3 DEF NewBody, Slots

LEMMA NewAnswered ==
    ASSUME NewBody, NEW c \in Slots, HostsAnswered(c) \/ SpawnAnswered(c)
    PROVE  NewBody'
<1>1. CASE HostsAnswered(c)
  <2>1. /\ calls[c].op \in {"hosts", "poll"} /\ Out(c) /\ server' = server /\ Done(c)
        /\ calls[c].at \in {"ok", "failed"} /\ c \notin OutAs("spawn")
    BY <1>1 DEF HostsAnswered, Back, Ok, Failed, Out, Free, Only, OutAs
  <2>2. LeftWith(c, Free)
    BY <2>1, DoneLeaves DEF NewBody
  <2>3. PICK list : list = IF calls[c].at = "ok" THEN calls[c].got
                   ELSE IF calls[c].op = "hosts" /\ ui.hosts # Nothing THEN ui.hosts ELSE Offline
    OBVIOUS
  <2>4. Offline \in [Machines -> Regs] /\ (calls[c].at = "ok" => calls[c].got \in [Machines -> Regs])
    BY <2>1 DEF Offline, Regs, NewBody, NewCall
  <2>5. \/ list = calls[c].got /\ calls[c].at = "ok"
        \/ list = Offline
        \/ list = ui.hosts /\ ui.hosts # Nothing
    BY <2>3
  <2>6. list \in [Machines -> Regs]
    BY <2>4, <2>5 DEF NewBody, NewTypes
  <2>7. PICK p : p = [ui EXCEPT !.hosts = list]
    OBVIOUS
  <2>8. /\ NewTypes(p) /\ p.hosts = list /\ p.host = ui.host /\ p.cwd = ui.cwd /\ p.agent = ui.agent
        /\ p.model = ui.model /\ p.starting = ui.starting /\ p.left = ui.left
    BY <2>6, <2>7 DEF NewBody, NewTypes, NewFields
  <2>9. IsOffered(p)
    BY <2>8 DEF NewBody, IsOffered
  <2>10. PICK v \in Chosen(p) : ui' = v
    BY <1>1, <2>3, <2>7 DEF HostsAnswered, Page
  <2>11. NewTypes(v) /\ IsOffered(v) /\ IsThere(v) /\ v.starting = p.starting /\ v.left = p.left
    BY <2>6, <2>8, <2>9, ChosenIs
  <2>12. OutAs("spawn") \ {c} = OutAs("spawn")
    BY <2>1
  <2> QED BY <2>1, <2>2, <2>8, <2>10, <2>11, <2>12, NewLeft DEF NewBody
<1>2. CASE SpawnAnswered(c)
  <2>1. calls[c].op = "spawn" /\ Out(c) /\ server' = server /\ Done(c) /\ c \in OutAs("spawn")
    BY <1>2 DEF SpawnAnswered, Back, Ok, Failed, Out, Free, Only, OutAs
  <2>2. LeftWith(c, Free) /\ OutAs("spawn") \ {c} = {} /\ ~ui.left
    BY <2>1, DoneLeaves DEF NewBody
  <2>3. \/ ui' = [ui EXCEPT !.left = TRUE] /\ calls[c].got = "requested"
        \/ ui' = [ui EXCEPT !.starting = FALSE]
    BY <1>2 DEF SpawnAnswered, Page
  <2>4. calls[c].got = "requested" => server.asked
    BY <2>1 DEF NewBody, NewCall
  <2>5. ui.starting = TRUE
    BY <2>1 DEF NewBody, NewTypes
  <2>6. /\ NewTypes(ui') /\ ui'.host = ui.host /\ ui'.hosts = ui.hosts /\ ui'.cwd = ui.cwd
        /\ ui'.agent = ui.agent /\ ui'.model = ui.model
        /\ ui'.starting = ui'.left /\ (ui'.left => server.asked)
    BY <2>2, <2>3, <2>4, <2>5 DEF NewBody, NewTypes, NewFields
  <2>7. IsOffered(ui') /\ IsThere(ui')
    BY <2>6 DEF NewBody, IsOffered, IsThere
  <2> QED BY <2>1, <2>2, <2>6, <2>7, NewLeft
<1> QED BY <1>1, <1>2

LEMMA NewKeeps == NewBody /\ (NewNext \/ Fails \/ UNCHANGED vars) => NewBody'
<1> SUFFICES ASSUME NewBody, NewNext \/ Fails \/ UNCHANGED vars PROVE NewBody'
  OBVIOUS
<1>1. CASE UNCHANGED vars
  BY <1>1, NewStill DEF vars, NewBody
<1>2. ASSUME NEW c \in Slots, Fail(c) PROVE NewBody'
  <2>1. SettledAs(c, "failed", Nothing) /\ Out(c) /\ UNCHANGED <<ui, server>>
    BY <1>2, FailSettles DEF Out, NewBody
  <2> QED BY <2>1, NewSettles, NewAssumption DEF NewBody
<1>3. CASE PollHosts \/ CheckAgain
  BY <1>3, NewTaken DEF PollHosts, CheckAgain, Only
<1>4. CASE HostsElsewhere
  <2>1. PICK m \in Machines, r \in Regs : Elsewhere([server EXCEPT !.reg[m] = r])
    BY <1>4 DEF HostsElsewhere, Regs
  <2>2. PICK reg : reg = [server.reg EXCEPT ![m] = r]
    OBVIOUS
  <2>3. reg \in [Machines -> Regs]
    BY <2>2 DEF NewBody, NewHeld
  <2>4. server' = [server EXCEPT !.reg = reg] /\ UNCHANGED <<ui, calls>>
    BY <2>1, <2>2 DEF Elsewhere, NewBody, NewHeld
  <2>5. NewHeld(server') /\ server'.asked = server.asked
    BY <2>3, <2>4 DEF NewBody, NewHeld
  <2> QED BY <2>4, <2>5, NewStill DEF NewBody
<1> QED BY <1>1, <1>2, <1>3, <1>4, SpawnSent, FormPicks, NewServed, NewAnswered DEF NewNext, Fails

LEMMA NewHolds ==
    /\ Init => NewInv
    /\ NewInv /\ [Next]_vars => NewInv'
    /\ NewInv => OneMachinesOffer /\ LeavesForAnAgent /\ NewTypeOK
<1>1. Init => NewInv
  BY OpensOn, NewStarts DEF NewInv
<1>2. NewInv /\ [Next]_vars => NewInv'
  BY TakesStep, NewKeeps, PagesStay DEF NewInv, OnNew
<1>3. NewInv => OneMachinesOffer
  BY DEF NewInv, NewBody, IsOffered, OneMachinesOffer
<1>4. ASSUME NewInv, OnNew PROVE (ui.left => server.asked) /\ (Quiet => ui.starting = ui.left)
  <2>1. Quiet => OutAs("spawn") = {}
    BY DEF Quiet, OutAs, Free
  <2>2. ui.starting \in BOOLEAN /\ ui.left \in BOOLEAN
    BY <1>4 DEF NewInv, NewBody, NewTypes
  <2> QED BY <1>4, <2>1, <2>2 DEF NewInv, NewBody
<1>5. NewInv => NewTypeOK
  BY DEF NewInv, NewBody, NewTypes, NewHeld, NewTypeOK
<1> QED BY <1>1, <1>2, <1>3, <1>4, <1>5 DEF LeavesForAnAgent
-----------------------------------------------------------------------------
(* The sidebar.  A question is shown, or the page is busy with the one      *)
(* before; whatever is asked, sent or renamed is a row of a list that came. *)

HasList(u) == u.list \in [SideRows -> SideRow]
SideTypes(u) ==
    /\ u = [f \in SideFields |-> u[f]]
    /\ u.list = Nothing \/ HasList(u)
    /\ u.view \in SideRows \cup {Nothing} /\ u.editing \in SideRows \cup {Nothing}
    /\ u.open \in BOOLEAN /\ u.busy \in BOOLEAN /\ u.moved \in BOOLEAN
    /\ u.confirm # Nothing /\ ~u.busy => u.open
    /\ u.open => Asks(u.confirm) /\ HasList(u)
SideCall(r, u) ==
    /\ r.op \in {"list", "confirm", "rename"}
    /\ r.op = "list" /\ r.at = "ok" => r.got \in [SideRows -> SideRow]
    /\ r.op = "confirm" => HasList(u) /\ Asks(r.arg) /\ r.got \in SideRow \cup {Nothing}
    /\ r.op = "rename" => HasList(u) /\ r.arg.x \in SideRows /\ r.arg.row \in SideRow
SideShows ==
    /\ SideTypes(ui) /\ server \in [SideRows -> SideRow]
    /\ \A c \in Slots : Out(c) => SideCall(calls[c], ui)
SideShowsInv == OnSide => SideBody /\ SideShows

LEMMA SideShowsFirst == SideInit => SideShows
<1> SUFFICES ASSUME SideInit PROVE SideShows
  OBVIOUS
<1>1. PICK v \in SideRows \cup {Nothing} :
        Opens("side",
              [list |-> Nothing, view |-> v, confirm |-> Nothing, open |-> FALSE,
               busy |-> FALSE, editing |-> Nothing, moved |-> FALSE],
              [x \in SideRows |-> [status |-> "live", title |-> "old"]],
              Request("list", Nothing))
  BY DEF SideInit
<1>2. /\ ui = [list |-> Nothing, view |-> v, confirm |-> Nothing, open |-> FALSE,
               busy |-> FALSE, editing |-> Nothing, moved |-> FALSE]
      /\ server = [x \in SideRows |-> [status |-> "live", title |-> "old"]]
      /\ calls = [NoCalls EXCEPT ![1] = Request("list", Nothing)]
  BY <1>1 DEF Opens
<1>3. \A c \in Slots : calls[c] = Free \/ calls[c] = Request("list", Nothing)
  BY <1>2 DEF NoCalls
<1>4. \A c \in Slots : Out(c) => SideCall(calls[c], ui)
  BY <1>3 DEF Out, SideCall, Request
<1>5. SideTypes(ui)
  BY <1>2 DEF SideTypes, SideFields
<1>6. server \in [SideRows -> SideRow]
  BY <1>2 DEF SideRow
<1> QED BY <1>4, <1>5, <1>6 DEF SideShows

LEMMA SideCalls ==
    ASSUME SideShows, SideTypes(ui'), HasList(ui) => HasList(ui'), server' \in [SideRows -> SideRow], NEW c \in Slots,
           \A d \in Slots \ {c} : calls'[d] = calls[d] /\ (Out(d)' <=> Out(d)),
           Out(c)' => SideCall(calls'[c], ui')
    PROVE  SideShows'
<1>1. \A d \in Slots : Out(d)' => SideCall(calls'[d], ui')
  BY DEF SideShows, SideCall
<1> QED BY <1>1 DEF SideShows, Slots

LEMMA SideShowsStill ==
    ASSUME SideShows, SideTypes(ui'), HasList(ui) => HasList(ui'), server' \in [SideRows -> SideRow], UNCHANGED calls
    PROVE  SideShows'
<1>1. \A d \in Slots : Out(d)' => SideCall(calls'[d], ui')
  BY DEF SideShows, SideCall, Out
<1> QED BY <1>1 DEF SideShows, Slots

(* What is asked for by the page, by its poll and by the dialog.            *)
LEMMA SideSends ==
    ASSUME SideBody, SideShows, UNCHANGED server, SideTypes(ui'), HasList(ui) => HasList(ui'), NEW op, NEW arg,
           Fetch(op, arg), SideCall(Request(op, arg), ui')
    PROVE  SideShows'
<1>1. PICK s, q : s \in Slots /\ TakenBy(s, q) /\ q = Request(op, arg)
  BY FetchTakes DEF SideBody
<1>2. q # Free
  BY <1>1 DEF Request, Free
<1>3. calls'[s] = q /\ \A d \in Slots \ {s} : calls'[d] = calls[d] /\ (Out(d)' <=> Out(d))
  BY <1>1, <1>2, TakenOut
<1> QED BY <1>1, <1>3, SideCalls DEF SideShows

LEMMA SideIsServed ==
    ASSUME SideBody, SideShows, NEW c \in Slots, ServeList(c) \/ ServeConfirm(c) \/ ServeRename(c)
    PROVE  SideShows'
<1>1. Out(c) /\ ui' = ui /\ calls[c].op # "none" /\ CallsShape
  BY DEF ServeList, ServeConfirm, ServeRename, Sent, Only, Out, Free, SideBody
<1>2. PICK held : held = server
  OBVIOUS
<1>3. held \in [SideRows -> SideRow] /\ SideCall(calls[c], ui)
  BY <1>1, <1>2 DEF SideShows
<1>4. PICK a : a = calls[c].arg
  OBVIOUS
<1>5. ASSUME NEW got, Answer(c, got), server' \in [SideRows -> SideRow],
             calls[c].op = "list" => got \in [SideRows -> SideRow],
             calls[c].op = "confirm" => got \in SideRow \cup {Nothing}
      PROVE  SideShows'
  <2>1. SettledAs(c, "ok", got)
    BY <1>1, <1>5, AnswerSettles
  <2>2. /\ calls'[c].op = calls[c].op /\ calls'[c].arg = calls[c].arg /\ calls'[c].got = got
        /\ \A d \in Slots \ {c} : calls'[d] = calls[d] /\ (Out(d)' <=> Out(d))
    BY <1>1, <2>1, SettledOut
  <2>3. SideCall(calls'[c], ui)
    BY <1>3, <1>5, <2>2 DEF SideCall
  <2> QED BY <1>1, <1>5, <2>2, <2>3, SideCalls DEF SideShows
<1>6. CASE ServeList(c)
  BY <1>2, <1>3, <1>5, <1>6 DEF ServeList, Only, Sent
<1>7. CASE ServeConfirm(c)
  <2>1. calls[c].op = "confirm" /\ Asks(a)
    BY <1>3, <1>4, <1>7 DEF ServeConfirm, Sent, SideCall
  <2>2. CASE a.kind = "end" /\ server[a.x].status = "gone"
    BY <1>2, <1>3, <1>4, <1>5, <1>7, <2>1, <2>2 DEF ServeConfirm
  <2>3. CASE ~(a.kind = "end" /\ server[a.x].status = "gone")
    <3>1. PICK status : status = IF a.kind = "end" THEN "ended" ELSE "gone"
      OBVIOUS
    <3>2. PICK new : new = [held EXCEPT ![a.x].status = status]
      OBVIOUS
    <3>3. new \in [SideRows -> SideRow] /\ new[a.x] \in SideRow
      BY <1>3, <2>1, <3>1, <3>2 DEF Asks, SideRow
    <3>4. server' = new /\ Answer(c, new[a.x])
      BY <1>2, <1>4, <1>7, <2>3, <3>1, <3>2 DEF ServeConfirm
    <3> QED BY <1>5, <2>1, <3>3, <3>4
  <2> QED BY <2>2, <2>3
<1>8. CASE ServeRename(c)
  <2>1. calls[c].op = "rename" /\ a.x \in SideRows
    BY <1>3, <1>4, <1>8 DEF ServeRename, Sent, SideCall
  <2>2. PICK new : new = [held EXCEPT ![a.x].title = "new"]
    OBVIOUS
  <2>3. new \in [SideRows -> SideRow]
    BY <1>3, <2>1, <2>2 DEF SideRow
  <2>4. \E got : Answer(c, got) /\ server' \in {held, new}
    BY <1>2, <1>4, <1>8, <2>2 DEF ServeRename
  <2> QED BY <1>3, <1>5, <2>1, <2>3, <2>4
<1> QED BY <1>6, <1>7, <1>8

(* The list, with a row patched or dropped. *)
LEMMA RowPatched ==
    ASSUME NEW u, SideTypes(u), HasList(u), NEW x \in SideRows, NEW row \in SideRow, NEW v,
           v = PatchRow(u, x, row) \/ v = DropRow(u, x)
    PROVE  SideTypes(v) /\ HasList(v) /\ v.view = u.view /\ v.busy = u.busy
<1>1. PICK l : l = [u.list EXCEPT ![x] = row] \/ l = [u.list EXCEPT ![x].status = "gone"]
  OBVIOUS
<1>2. PICK m : m = [u.list EXCEPT ![x].status = "gone"]
  OBVIOUS
<1>3. PICK n : n = [u.list EXCEPT ![x] = row]
  OBVIOUS
<1>4. m \in [SideRows -> SideRow] /\ n \in [SideRows -> SideRow]
  BY <1>2, <1>3 DEF HasList, SideRow
<1>5. v = u \/ v = [u EXCEPT !.list = n] \/ v = [u EXCEPT !.list = m]
  BY <1>2, <1>3 DEF PatchRow, DropRow, SideTypes, SideFields
<1> QED BY <1>4, <1>5 DEF SideTypes, SideFields, HasList

LEMMA SideIsAnswered ==
    ASSUME SideBody, SideShows, NEW c \in Slots, SideLoaded(c) \/ Confirmed(c) \/ Renamed(c)
    PROVE  SideShows'
<1>1. /\ Done(c) /\ server' = server /\ Out(c) /\ SideCall(calls[c], ui) /\ SideTypes(ui)
      /\ calls[c].at \in {"ok", "failed"}
  BY DEF SideLoaded, Confirmed, Renamed, Only, Back, Ok, Failed, Out, Free, SideShows
<1>2. ~Out(c)' /\ \A d \in Slots \ {c} : calls'[d] = calls[d] /\ (Out(d)' <=> Out(d))
  BY <1>1, DoneLeaves, LeftOut DEF SideBody
<1>3. PICK a, got : a = calls[c].arg /\ got = calls[c].got
  OBVIOUS
<1>4. CASE SideLoaded(c)
  <2>1. CASE Ok(c, "list")
    <3>1. got \in [SideRows -> SideRow] /\ ui' = [ui EXCEPT !.list = got]
      BY <1>1, <1>3, <1>4, <2>1 DEF SideLoaded, Ok, SideCall, Page
    <3>2. SideTypes(ui') /\ HasList(ui')
      BY <1>1, <3>1 DEF SideTypes, SideFields, HasList
    <3> QED BY <1>1, <1>2, <3>2, SideCalls DEF SideShows
  <2>2. CASE ~Ok(c, "list")
    <3>1. ui' = ui
      BY <1>4, <2>2 DEF SideLoaded, Page
    <3> QED BY <1>1, <1>2, <3>1, SideCalls DEF SideShows
  <2> QED BY <2>1, <2>2
<1>5. CASE Renamed(c)
  <2>1. HasList(ui) /\ a.x \in SideRows /\ a.row \in SideRow
    BY <1>1, <1>3, <1>5 DEF Renamed, Back, Ok, Failed, SideCall
  <2>2. PICK row : row = [a.row EXCEPT !.title = "new"]
    OBVIOUS
  <2>3. row \in SideRow
    BY <2>1, <2>2 DEF SideRow
  <2>4. ui' = ui \/ ui' = PatchRow(ui, a.x, row)
    BY <1>3, <1>5, <2>2 DEF Renamed, Page
  <2>5. SideTypes(ui') /\ HasList(ui')
    BY <1>1, <2>1, <2>3, <2>4, RowPatched
  <2> QED BY <1>1, <1>2, <2>5, SideCalls DEF SideShows
<1>6. CASE Confirmed(c)
  <2>1. HasList(ui) /\ Asks(a) /\ (got # Nothing => got \in SideRow)
    BY <1>1, <1>3, <1>6 DEF Confirmed, Back, Ok, Failed, SideCall
  <2>2. PICK dropped : dropped = DropRow(ui, a.x)
    OBVIOUS
  <2>3. PICK patched : patched = PatchRow(ui, a.x, got)
    OBVIOUS
  <2>4. PICK gone : gone = [dropped EXCEPT !.view = IF a.viewed THEN Nothing ELSE @]
    OBVIOUS
  <2>5. PICK done : done = IF got = Nothing THEN ui ELSE IF a.kind = "end" THEN patched ELSE gone
    OBVIOUS
  <2>6. ui' = [done EXCEPT !.busy = FALSE, !.confirm = Nothing, !.open = FALSE]
    BY <1>3, <1>6, <2>2, <2>3, <2>4, <2>5 DEF Confirmed, Page
  <2>7. SideTypes(done) /\ HasList(done)
    <3>1. CASE got = Nothing
      BY <1>1, <2>1, <2>5, <3>1
    <3>2. CASE got # Nothing /\ a.kind = "end"
      BY <1>1, <2>1, <2>3, <2>5, <3>2, RowPatched DEF Asks
    <3>3. CASE got # Nothing /\ a.kind # "end"
      <4>1. SideTypes(dropped) /\ HasList(dropped)
        BY <1>1, <2>1, <2>2, <3>3, RowPatched DEF Asks
      <4>2. done = [dropped EXCEPT !.view = IF a.viewed THEN Nothing ELSE @]
        BY <2>4, <2>5, <3>3
      <4> QED BY <4>1, <4>2 DEF SideTypes, SideFields, HasList
    <3> QED BY <3>1, <3>2, <3>3
  <2>8. SideTypes(ui') /\ HasList(ui')
    BY <2>6, <2>7 DEF SideTypes, SideFields, HasList
  <2> QED BY <1>1, <1>2, <2>8, SideCalls DEF SideShows
<1> QED BY <1>4, <1>5, <1>6

LEMMA SideShowsKeeps ==
    ASSUME SideBody, SideShows, SideNext \/ Fails \/ UNCHANGED vars
    PROVE  SideShows'
<1> USE DEF Page, Only
<1>0. SideTypes(ui) /\ server \in [SideRows -> SideRow]
  BY DEF SideShows
<1>1. CASE PollSide
  <2>1. SideCall(Request("list", Nothing), ui)
    BY DEF SideCall, Request
  <2> QED BY <1>0, <1>1, <2>1, SideSends DEF PollSide
<1>2. CASE CloseDialog
  <2>1. SideTypes(ui') /\ (HasList(ui) => HasList(ui')) /\ server' = server /\ UNCHANGED calls
    BY <1>0, <1>2 DEF CloseDialog, SideTypes, SideFields, HasList
  <2> QED BY <1>0, <2>1, SideShowsStill
<1>3. CASE DoConfirm
  <2>1. SideTypes(ui') /\ HasList(ui') /\ server' = server
    BY <1>0, <1>3 DEF DoConfirm, SideTypes, SideFields, HasList
  <2>2. PICK arg : arg = [kind |-> ui.confirm.kind, x |-> ui.confirm.x, viewed |-> ui.view = ui.confirm.x]
    OBVIOUS
  <2>3. Asks(arg)
    BY <1>0, <1>3, <2>2 DEF DoConfirm, SideTypes, Asks
  <2>4. SideCall(Request("confirm", arg), ui')
    BY <2>1, <2>3 DEF SideCall, Request
  <2> QED BY <1>3, <2>1, <2>2, <2>4, SideSends DEF DoConfirm
<1>4. CASE SaveRename
  <2>1. SideTypes(ui') /\ (HasList(ui) => HasList(ui')) /\ server' = server
    BY <1>0, <1>4 DEF SaveRename, SideTypes, SideFields, HasList
  <2>2. CASE ui.editing \in Sections /\ ui.list[ui.editing].title # "new"
    <3>1. PICK arg : arg = [x |-> ui.editing, row |-> ui.list[ui.editing]]
      OBVIOUS
    <3>2. HasList(ui) /\ ui.editing \in SideRows
      BY <1>0, <2>2 DEF Sections, SideTypes
    <3>3. arg.x \in SideRows /\ arg.row \in SideRow
      BY <3>1, <3>2 DEF HasList
    <3>4. SideCall(Request("rename", arg), ui')
      BY <2>1, <3>2, <3>3 DEF SideCall, Request
    <3> QED BY <1>4, <2>1, <2>2, <3>1, <3>4, SideSends DEF SaveRename
  <2>3. CASE ~(ui.editing \in Sections /\ ui.list[ui.editing].title # "new")
    BY <1>0, <1>4, <2>1, <2>3, SideShowsStill DEF SaveRename
  <2> QED BY <2>2, <2>3
<1>5. CASE CancelRename
  <2>1. SideTypes(ui') /\ (HasList(ui) => HasList(ui')) /\ server' = server /\ UNCHANGED calls
    BY <1>0, <1>5 DEF CancelRename, SideTypes, SideFields, HasList
  <2> QED BY <1>0, <2>1, SideShowsStill
<1>6. CASE EndsElsewhere
  <2>1. PICK x \in SideRows : server' = [server EXCEPT ![x].status = "ended"]
    BY <1>6 DEF EndsElsewhere, Elsewhere
  <2>2. server' \in [SideRows -> SideRow] /\ ui' = ui /\ UNCHANGED calls
    BY <1>0, <1>6, <2>1 DEF EndsElsewhere, Elsewhere, SideRow
  <2> QED BY <1>0, <2>2, SideShowsStill
<1>7. ASSUME NEW v \in SideRows \cup {Nothing}, GoTo(v) PROVE SideShows'
  <2>1. SideTypes(ui') /\ (HasList(ui) => HasList(ui')) /\ server' = server /\ UNCHANGED calls
    BY <1>0, <1>7 DEF GoTo, SideTypes, SideFields, HasList
  <2> QED BY <1>0, <2>1, SideShowsStill
<1>8. ASSUME NEW kind \in {"end", "delete"}, NEW x \in SideRows, AskConfirm(kind, x) PROVE SideShows'
  <2>1. PICK q, open : q = [kind |-> kind, x |-> x] /\ open = (ui.confirm = Nothing)
    OBVIOUS
  <2>2. ui' = [[ui EXCEPT !.confirm = q] EXCEPT !.open = open] /\ server' = server /\ UNCHANGED calls
    BY <1>8, <2>1 DEF AskConfirm
  <2>3. Asks(q) /\ HasList(ui) /\ open \in BOOLEAN /\ (~ui.busy => open)
    BY <1>0, <1>8, <2>1 DEF Asks, AskConfirm, Sections, SideTypes
  <2>4. SideTypes(ui') /\ HasList(ui')
    BY <1>0, <2>2, <2>3 DEF SideTypes, SideFields, HasList
  <2> QED BY <1>0, <2>2, <2>4, SideShowsStill
<1>9. ASSUME NEW x \in SideRows, StartRename(x) PROVE SideShows'
  <2>1. SideTypes(ui') /\ (HasList(ui) => HasList(ui')) /\ server' = server /\ UNCHANGED calls
    BY <1>0, <1>9 DEF StartRename, SideTypes, SideFields, HasList
  <2> QED BY <1>0, <2>1, SideShowsStill
<1>10. ASSUME NEW c \in Slots, Fail(c) PROVE SideShows'
  <2>1. SettledAs(c, "failed", Nothing) /\ Out(c) /\ UNCHANGED <<ui, server>>
    BY <1>10, FailSettles DEF Out, SideBody
  <2>2. SideCall(calls[c], ui) /\ calls[c].op # "none"
    BY <2>1 DEF SideShows, SideCall
  <2>3. /\ calls'[c].op = calls[c].op /\ calls'[c].arg = calls[c].arg /\ calls'[c].at = "failed" /\ calls'[c].got = Nothing
        /\ \A d \in Slots \ {c} : calls'[d] = calls[d] /\ (Out(d)' <=> Out(d))
    BY <2>1, <2>2, SettledOut
  <2>4. SideCall(calls'[c], ui)
    BY <2>2, <2>3 DEF SideCall
  <2> QED BY <1>0, <2>1, <2>3, <2>4, SideCalls
<1>11. CASE UNCHANGED vars
  BY <1>0, <1>11, SideShowsStill DEF vars
<1> QED BY <1>1, <1>2, <1>3, <1>4, <1>5, <1>6, <1>7, <1>8, <1>9, <1>10, <1>11, SideIsServed, SideIsAnswered
        DEF SideNext, Fails

LEMMA SideShowsHolds ==
    /\ Init => SideShowsInv
    /\ SideShowsInv /\ [Next]_vars => SideShowsInv'
    /\ SideShowsInv => AskedIsShown /\ SideTypeOK
<1>1. Init => SideShowsInv
  BY StartOn, SideStarts, SideShowsFirst DEF SideShowsInv
<1>2. ASSUME SideShowsInv, [Next]_vars, OnSide' PROVE SideBody' /\ SideShows'
  <2>1. OnSide /\ SideBody /\ SideShows
    BY <1>2, PagesStay DEF OnSide, SideShowsInv
  <2> QED BY <1>2, <2>1, StepOn, SideKeeps, SideShowsKeeps
<1>3. SideShowsInv => AskedIsShown /\ SideTypeOK
  BY DEF SideShowsInv, SideShows, SideTypes, HasList, AskedIsShown, SideTypeOK
<1> QED BY <1>1, <1>2, <1>3 DEF SideShowsInv
-----------------------------------------------------------------------------
(* The landing.  One session is asked for at a time, in the order of the    *)
(* candidates; those that were tried before, while nothing failed and       *)
(* nobody hid a session, are not worth showing or cannot be read.           *)

LandingFields == {"chosen", "try", "shown", "served", "done"}
CandidatesOf(chosen) == IF chosen THEN <<Picked, "f1">> ELSE <<"f1", "f2">>
Dull(s, x) == s.open[x] => ~WorthShowing(s.log[x])
LandingTypes(u) ==
    /\ u = [f \in LandingFields |-> u[f]]
    /\ u.chosen \in BOOLEAN /\ u.done \in BOOLEAN /\ u.try \in 1..3
    /\ u.shown # Nothing => u.done /\ u.shown.id \in u.served
    /\ u.done /\ u.shown = Nothing => u.try = 3
LandingHeld(s) ==
    s = [open |-> s.open, log |-> s.log] /\ s.open \in [Replayable -> BOOLEAN] /\ s.log \in [Replayable -> Logs]
TriedInVain(u, s) == \A i \in 1..2 : i < u.try => Dull(s, CandidatesOf(u.chosen)[i])
ReplayCall(r, u, s) ==
    /\ r.op = "replay" /\ ~u.done /\ u.shown = Nothing /\ u.try \in 1..2 /\ r.arg = CandidatesOf(u.chosen)[u.try]
    /\ r.at \in {"sent", "ok", "failed"}
    /\ r.at = "ok" => r.got = s.log[r.arg] /\ r.arg \in u.served
    /\ r.at = "failed" /\ Undisturbed => ~s.open[r.arg]
LandingBody ==
    /\ CallsShape /\ LandingTypes(ui) /\ LandingHeld(server) /\ faults \in Nat /\ outside \in Nat
    /\ \A c, d \in Slots : Out(c) /\ Out(d) => c = d
    /\ \A c \in Slots : Out(c) => ReplayCall(calls[c], ui, server)
    /\ Undisturbed /\ ui.shown = Nothing => TriedInVain(ui, server)
LandingInv == OnLanding => LandingBody

LEMMA CandidatesAre ==
    ASSUME NEW u, u.chosen \in BOOLEAN
    PROVE  /\ Candidates(u) = CandidatesOf(u.chosen) /\ Len(Candidates(u)) = 2
           /\ \A i \in 1..2 : CandidatesOf(u.chosen)[i] \in Replayable
<1>1. PICK all : all = (IF u.chosen THEN <<Picked>> ELSE <<>>) \o Feed
  OBVIOUS
<1>2. /\ <<Picked>> \in Seq(Replayable) /\ <<>> \in Seq(Replayable) /\ Feed \in Seq(Replayable)
      /\ Len(Feed) = 2 /\ Feed[1] = "f1" /\ Feed[2] = "f2"
  BY DEF Feed, Replayable, Picked
<1>3. /\ all \in Seq(Replayable) /\ Len(all) = IF u.chosen THEN 3 ELSE 2
      /\ all[1] = (IF u.chosen THEN Picked ELSE "f1") /\ all[2] = (IF u.chosen THEN "f1" ELSE "f2")
  <2>1. CASE u.chosen
    <3>1. /\ all = <<Picked>> \o Feed /\ Len(<<Picked>>) = 1 /\ <<Picked>>[1] = Picked
      BY <1>1, <2>1
    <3>2. PICK one : one = <<Picked>>
      OBVIOUS
    <3>3. one \in Seq(Replayable) /\ Len(one) = 1 /\ one[1] = Picked /\ all = one \o Feed
      BY <1>2, <3>1, <3>2
    <3>4. /\ one \o Feed \in Seq(Replayable) /\ Len(one \o Feed) = Len(one) + Len(Feed)
          /\ \A i \in 1..(Len(one) + Len(Feed)) : (one \o Feed)[i] = IF i <= Len(one) THEN one[i] ELSE Feed[i - Len(one)]
      BY <1>2, <3>3, ConcatProperties
    <3>5. /\ all \in Seq(Replayable) /\ Len(all) = 1 + 2
          /\ \A i \in 1..(1 + 2) : all[i] = IF i <= 1 THEN one[i] ELSE Feed[i - 1]
      BY <1>2, <3>3, <3>4
    <3>6. all[1] = one[1] /\ all[2] = Feed[1]
      BY <3>5
    <3> QED BY <1>2, <2>1, <3>3, <3>5, <3>6
  <2>2. CASE ~u.chosen
    <3>1. all = Feed
      BY <1>1, <1>2, <2>2, ConcatEmptySeq
    <3> QED BY <1>2, <2>2, <3>1
  <2> QED BY <2>1, <2>2
<1>4. PICK two : two = SubSeq(all, 1, 2)
  OBVIOUS
<1>5. two \in Seq(Replayable) /\ Len(two) = 2 /\ two[1] = all[1] /\ two[2] = all[2]
  <2>1. \A i \in 1..2 : all[i] \in Replayable
    BY <1>3 DEF Replayable
  <2>2. /\ SubSeq(all, 1, 2) \in Seq(Replayable) /\ Len(SubSeq(all, 1, 2)) = IF 1 <= 2 THEN 2 - 1 + 1 ELSE 0
        /\ \A i \in 1..(2 - 1 + 1) : SubSeq(all, 1, 2)[i] = all[1 + i - 1]
    BY <2>1, SubSeqProperties
  <2> QED BY <1>4, <2>2
<1>6. Candidates(u) = two
  BY <1>1, <1>4 DEF Candidates, TRIES
<1>7. two = CandidatesOf(u.chosen)
  BY <1>3, <1>5 DEF CandidatesOf
<1>8. \A i \in 1..2 : two[i] \in Replayable
  BY <1>5, ElementOfSeq
<1> QED BY <1>5, <1>6, <1>7, <1>8

LEMMA LandingStarts == LandingInit => LandingBody
<1> SUFFICES ASSUME LandingInit PROVE LandingBody
  OBVIOUS
<1>1. PICK chosen \in BOOLEAN, long \in [1..4 -> Events], short \in BOOLEAN, chosenOpen \in BOOLEAN :
        Opens("landing", [chosen |-> chosen, try |-> 1, shown |-> Nothing, served |-> {}, done |-> FALSE],
              [open |-> [x \in Replayable |-> x # Picked \/ chosenOpen],
               log |-> [x \in Replayable |-> IF x = "f1" /\ short THEN <<>> ELSE long]],
              Free)
  BY DEF LandingInit
<1>2. PICK open, log : /\ open = [x \in Replayable |-> x # Picked \/ chosenOpen]
                       /\ log = [x \in Replayable |-> IF x = "f1" /\ short THEN <<>> ELSE long]
  OBVIOUS
<1>3. open \in [Replayable -> BOOLEAN] /\ log \in [Replayable -> Logs]
  BY <1>2 DEF Logs
<1>4. PICK state : state = [chosen |-> chosen, try |-> 1, shown |-> Nothing, served |-> {}, done |-> FALSE]
  OBVIOUS
<1>5. Opens("landing", state, [open |-> open, log |-> log], Free) /\ IsCall(Free)
  BY <1>1, <1>2, <1>4 DEF IsCall
<1>6. /\ ui = state /\ server = [open |-> open, log |-> log] /\ CallsShape
      /\ \A c \in Slots : calls[c] = Free
  BY <1>5, OpensWith
<1>7. faults = 0 /\ outside = 0
  BY <1>5 DEF Opens
<1>8. LandingTypes(ui) /\ ui.try = 1
  <2>1. /\ ui.chosen = chosen /\ ui.try = 1 /\ ui.shown = Nothing /\ ui.done = FALSE
        /\ ui = [f \in LandingFields |-> ui[f]]
    BY <1>4, <1>6 DEF LandingFields
  <2>2. ui.chosen \in BOOLEAN
    BY <2>1
  <2>3. ui.done \in BOOLEAN /\ ~ui.done
    BY <2>1
  <2> QED BY <2>1, <2>2, <2>3 DEF LandingTypes
<1>9. LandingHeld(server)
  BY <1>3, <1>6 DEF LandingHeld
<1>10. TriedInVain(ui, server)
  BY <1>8 DEF TriedInVain
<1> QED BY <1>6, <1>7, <1>8, <1>9, <1>10 DEF LandingBody, Out

LEMMA ReplayAsked ==
    ASSUME LandingBody, TryNext
    PROVE  LandingBody'
<1>1. UNCHANGED <<ui, server, faults, outside>> /\ ~ui.done /\ calls = NoCalls
  BY DEF TryNext, Only
<1>2. \A c \in Slots : ~Out(c)
  BY <1>1 DEF Out, NoCalls
<1>3. PICK arg : arg = CandidatesOf(ui.chosen)[ui.try]
  OBVIOUS
<1>4. Fetch("replay", arg) /\ ui.try \in 1..2 /\ ui.shown = Nothing
  BY <1>3, CandidatesAre DEF TryNext, LandingBody, LandingTypes
<1>5. PICK s, q : s \in Slots /\ TakenBy(s, q) /\ q = Request("replay", arg)
  BY <1>4, FetchTakes DEF LandingBody
<1>6. q # Free /\ q.op = "replay" /\ q.arg = arg /\ q.at = "sent"
  BY <1>5 DEF Request, Free
<1>7. CallsShape' /\ calls'[s] = q /\ \A d \in Slots \ {s} : calls'[d] = calls[d] /\ (Out(d)' <=> Out(d))
  BY <1>5, <1>6, TakenOut
<1>8. \A d \in Slots : Out(d)' => d = s
  BY <1>2, <1>7
<1>9. ReplayCall(q, ui, server)
  BY <1>1, <1>3, <1>4, <1>6 DEF ReplayCall
<1>10. \A d \in Slots : Out(d)' => ReplayCall(calls'[d], ui, server)
  BY <1>7, <1>8, <1>9
<1> QED BY <1>1, <1>7, <1>8, <1>10 DEF LandingBody, Slots, ReplayCall, Undisturbed

(* A request that is settled, by the API or by a failure.                   *)
LEMMA ReplaySettles ==
    ASSUME LandingBody, NEW c \in Slots, NEW at, NEW got, SettledAs(c, at, got), Out(c),
           UNCHANGED server, faults' \in Nat, outside' \in Nat, Undisturbed' => Undisturbed,
           LandingTypes(ui'), ui'.chosen = ui.chosen, ui'.try = ui.try, ui'.done = ui.done, ui'.shown = ui.shown,
           at \in {"ok", "failed"},
           at = "ok" => got = server.log[calls[c].arg] /\ calls[c].arg \in ui'.served,
           at = "failed" /\ Undisturbed' => ~server.open[calls[c].arg]
    PROVE  LandingBody'
<1>1. calls[c].op = "replay" /\ ReplayCall(calls[c], ui, server)
  BY DEF LandingBody, ReplayCall
<1>2. /\ CallsShape' /\ calls'[c].op = calls[c].op /\ calls'[c].arg = calls[c].arg
      /\ calls'[c].at = at /\ calls'[c].got = got
      /\ \A d \in Slots \ {c} : calls'[d] = calls[d] /\ (Out(d)' <=> Out(d))
  BY <1>1, SettledOut
<1>3. \A d \in Slots : Out(d)' => d = c
  BY <1>2 DEF LandingBody
<1>4. ReplayCall(calls[c], ui, server)'
  BY <1>1, <1>2 DEF ReplayCall
<1>5. \A d \in Slots : Out(d)' => ReplayCall(calls[d], ui, server)'
  BY <1>3, <1>4
<1>6. Undisturbed' /\ ui'.shown = Nothing => TriedInVain(ui', server)
  BY DEF LandingBody, TriedInVain
<1> QED BY <1>2, <1>3, <1>5, <1>6 DEF LandingBody, Slots

LEMMA ReplayServed ==
    ASSUME LandingBody, NEW c \in Slots, ServeReplay(c)
    PROVE  LandingBody'
<1>1. /\ Out(c) /\ calls[c].op = "replay" /\ calls[c].at = "sent"
      /\ UNCHANGED <<server, faults, outside>> /\ CallsShape
  BY DEF ServeReplay, Sent, Only, Out, Free, LandingBody
<1>2. PICK x : x = calls[c].arg
  OBVIOUS
<1>3. CASE server.open[x]
  <2>1. Answer(c, server.log[x]) /\ ui' = [ui EXCEPT !.served = ui.served \cup {x}]
    BY <1>2, <1>3 DEF ServeReplay, Page
  <2>2. SettledAs(c, "ok", server.log[x])
    BY <1>1, <2>1, AnswerSettles
  <2>3. /\ LandingTypes(ui') /\ ui'.chosen = ui.chosen /\ ui'.try = ui.try /\ ui'.done = ui.done
        /\ ui'.shown = ui.shown /\ x \in ui'.served
    BY <2>1 DEF LandingBody, LandingTypes, LandingFields
  <2> QED BY <1>1, <1>2, <2>2, <2>3, ReplaySettles DEF LandingBody, Undisturbed
<1>4. CASE ~server.open[x]
  <2>1. calls' = [calls EXCEPT ![c].at = "failed"] /\ ui' = ui
    BY <1>2, <1>4 DEF ServeReplay
  <2>2. calls[c] = [op |-> calls[c].op, arg |-> calls[c].arg, at |-> calls[c].at, got |-> calls[c].got]
    BY <1>1 DEF CallsShape, IsCall, Free
  <2>3. PICK q : q = [calls[c] EXCEPT !.at = "failed"]
    OBVIOUS
  <2>4. q = [op |-> calls[c].op, arg |-> calls[c].arg, at |-> "failed", got |-> calls[c].got]
    BY <2>2, <2>3
  <2>5. calls' = [calls EXCEPT ![c] = q]
    BY <2>1, <2>3 DEF CallsShape
  <2>6. SettledAs(c, "failed", calls[c].got)
    BY <1>1, <2>4, <2>5 DEF SettledAs, Others, CallsShape, IsCall, Slots
  <2> QED BY <1>1, <1>2, <1>4, <2>1, <2>6, ReplaySettles DEF LandingBody, Undisturbed
<1> QED BY <1>3, <1>4

LEMMA ReplayComes ==
    ASSUME LandingBody, NEW c \in Slots, ReplayAnswered(c)
    PROVE  LandingBody'
<1>1. Done(c) /\ UNCHANGED <<server, faults, outside>> /\ Out(c) /\ ReplayCall(calls[c], ui, server)
  BY DEF ReplayAnswered, Only, Back, Ok, Failed, Out, Free, LandingBody
<1>2. CallsShape' /\ ~Out(c)' /\ \A d \in Slots \ {c} : Out(d)' <=> Out(d)
  BY <1>1, DoneLeaves, LeftOut DEF LandingBody
<1>3. \A d \in Slots : ~Out(d)'
  BY <1>1, <1>2 DEF LandingBody
<1>4. PICK x, got, s, log : x = calls[c].arg /\ got = calls[c].got /\ s = server /\ log = server.log[calls[c].arg]
  OBVIOUS
<1>5. /\ x = CandidatesOf(ui.chosen)[ui.try] /\ ui.try \in 1..2 /\ x \in Replayable /\ ui.shown = Nothing
      /\ LandingTypes(ui) /\ LandingHeld(s) /\ log \in Logs
  BY <1>1, <1>4, CandidatesAre DEF ReplayCall, LandingBody, LandingTypes, LandingHeld
<1>6. CASE Ok(c, "replay") /\ WorthShowing(got)
  <2>1. got = log /\ x \in ui.served
    BY <1>1, <1>4, <1>6 DEF Ok, ReplayCall
  <2>2. PICK replay : replay = [id |-> x, lines |-> ReplayLines(got)]
    OBVIOUS
  <2>3. replay # Nothing /\ replay.id = x
    BY <1>5, <2>1, <2>2, ReplayAssumption
  <2>4. ui' = [ui EXCEPT !.shown = replay, !.done = TRUE]
    BY <1>4, <1>6, <2>2 DEF ReplayAnswered, Page
  <2>5. LandingTypes(ui') /\ ui'.shown # Nothing
    BY <1>5, <2>1, <2>3, <2>4 DEF LandingTypes, LandingFields
  <2> QED BY <1>1, <1>2, <1>3, <2>5 DEF LandingBody
<1>7. CASE ~(Ok(c, "replay") /\ WorthShowing(got))
  <2>1. PICK n : n = ui.try + 1
    OBVIOUS
  <2>2. PICK done \in BOOLEAN : done <=> ui.try = 2
    OBVIOUS
  <2>3. ui' = [[ui EXCEPT !.try = n] EXCEPT !.done = done]
    <3>1. Len(Candidates(ui)) = 2
      BY <1>5, CandidatesAre DEF LandingTypes
    <3>2. ui' = [ui EXCEPT !.try = ui.try + 1, !.done = (ui.try = 2)]
      BY <1>4, <1>7, <3>1 DEF ReplayAnswered, Page
    <3>3. done = (ui.try = 2)
      BY <2>2
    <3> QED BY <2>1, <3>2, <3>3
  <2>6. /\ ui' = [f \in LandingFields |-> ui'[f]] /\ ui'.try = n /\ ui'.chosen = ui.chosen /\ ui'.done = done
        /\ ui'.shown = ui.shown
    BY <1>5, <2>3 DEF LandingTypes, LandingFields
  <2>7. LandingTypes(ui')
    BY <1>5, <2>1, <2>2, <2>6 DEF LandingTypes
  <2>4. Undisturbed => Dull(s, x)
    BY <1>1, <1>4, <1>7 DEF ReplayAnswered, Back, Ok, Failed, ReplayCall, Dull
  <2>5. Undisturbed => TriedInVain(ui', s)
    BY <1>4, <1>5, <2>1, <2>4, <2>6 DEF LandingBody, TriedInVain
  <2> QED BY <1>1, <1>2, <1>3, <1>4, <2>5, <2>7 DEF LandingBody, Undisturbed
<1> QED BY <1>6, <1>7

LEMMA LandingKeeps == LandingBody /\ (LandingNext \/ Fails \/ UNCHANGED vars) => LandingBody'
<1> SUFFICES ASSUME LandingBody, LandingNext \/ Fails \/ UNCHANGED vars PROVE LandingBody'
  OBVIOUS
<1>1. CASE UNCHANGED vars
  BY <1>1 DEF vars, LandingBody, CallsShape, Slots, Out, Undisturbed, ReplayCall
<1>2. ASSUME NEW c \in Slots, Fail(c) PROVE LandingBody'
  <2>1. SettledAs(c, "failed", Nothing) /\ Out(c) /\ UNCHANGED <<ui, server>> /\ faults' = faults + 1
    BY <1>2, FailSettles DEF Out, LandingBody
  <2>2. outside' = outside
    BY <1>2 DEF Fail
  <2>3. ~Undisturbed' /\ faults' \in Nat
    BY <2>1 DEF LandingBody, Undisturbed
  <2> QED BY <2>1, <2>2, <2>3, ReplaySettles DEF LandingBody
<1>3. CASE SessionIsHidden
  <2>1. PICK x \in Replayable : Elsewhere([server EXCEPT !.open[x] = FALSE])
    BY <1>3 DEF SessionIsHidden
  <2>2. PICK open : open = [server.open EXCEPT ![x] = FALSE]
    OBVIOUS
  <2>3. server' = [server EXCEPT !.open = open] /\ UNCHANGED <<ui, calls, faults>> /\ outside' = outside + 1
    BY <2>1, <2>2 DEF Elsewhere, LandingBody, LandingHeld
  <2>4. LandingHeld(server') /\ server'.log = server.log /\ ~Undisturbed' /\ outside' \in Nat
    <3>1. LandingHeld(server) /\ outside \in Nat
      BY DEF LandingBody
    <3>2. open \in [Replayable -> BOOLEAN]
      BY <2>2, <3>1 DEF LandingHeld
    <3>3. server' = [open |-> open, log |-> server.log]
      BY <2>3, <3>1 DEF LandingHeld
    <3> QED BY <2>3, <3>1, <3>2, <3>3 DEF LandingHeld, Undisturbed
  <2>5. \A c \in Slots : Out(c)' => ReplayCall(calls[c], ui, server)'
    BY <2>3, <2>4 DEF LandingBody, ReplayCall, Out
  <2> QED BY <2>3, <2>4, <2>5 DEF LandingBody, CallsShape, Slots, Out
<1> QED BY <1>1, <1>2, <1>3, ReplayAsked, ReplayServed, ReplayComes DEF LandingNext, Fails

LEMMA LandingHolds ==
    /\ Init => LandingInv
    /\ LandingInv /\ [Next]_vars => LandingInv'
    /\ LandingInv => ReplayIsFound /\ LandingTypeOK
<1>1. Init => LandingInv
  BY OpensOn, LandingStarts DEF LandingInv
<1>2. LandingInv /\ [Next]_vars => LandingInv'
  BY TakesStep, LandingKeeps, PagesStay DEF LandingInv, OnLanding
<1>3. LandingInv => ReplayIsFound
  <2> SUFFICES ASSUME LandingInv, OnLanding, ui.done, ui.shown = Nothing, faults = 0, outside = 0,
                      NEW i \in DOMAIN Candidates(ui)
               PROVE  LET x == Candidates(ui)[i] IN server.open[x] => ~WorthShowing(server.log[x])
    BY DEF ReplayIsFound
  <2>1. TriedInVain(ui, server) /\ ui.try = 3 /\ ui.chosen \in BOOLEAN
    BY DEF LandingInv, LandingBody, LandingTypes, Undisturbed
  <2>2. DOMAIN Candidates(ui) = 1..2 /\ Candidates(ui) = CandidatesOf(ui.chosen)
    BY <2>1, CandidatesAre DEF CandidatesOf
  <2> QED BY <2>1, <2>2 DEF TriedInVain, Dull
<1>4. LandingInv => LandingTypeOK
  BY DEF LandingInv, LandingBody, LandingTypes, LandingTypeOK, TRIES
<1> QED BY <1>1, <1>2, <1>3, <1>4
-----------------------------------------------------------------------------
(* What a filter keeps: the places it takes, in their order, and no others. *)

KeepsAt(seq, n, S, m, r) ==
    /\ Sifted(seq, S) = [k \in 1..m |-> seq[r[k]]]
    /\ \A k \in 1..m : seq[r[k]] \in S
    /\ \A k, l \in 1..m : k < l => r[k] < r[l]
    /\ \A i \in 1..n : seq[i] \in S => \E k \in 1..m : r[k] = i

LEMMA SiftedIs ==
    ASSUME NEW seq, NEW n \in Nat, DOMAIN seq = 1..n, NEW S
    PROVE  \E m \in Nat : \E r \in [1..m -> 1..n] : KeepsAt(seq, n, S, m, r)
<1> DEFINE at == {i \in DOMAIN seq : seq[i] \in S}
           Upto(i) == {j \in at : j <= i}
           rank == [i \in at |-> Cardinality(Upto(i))]
<1>1. PICK m : m = Cardinality(at)
  OBVIOUS
<1>2. IsFiniteSet(at) /\ at \subseteq 1..n /\ m \in Nat
  <2>1. IsFiniteSet(1..n)
    BY FS_Interval
  <2>2. at \in SUBSET (1..n)
    OBVIOUS
  <2>3. IsFiniteSet(at)
    BY <2>1, <2>2, FS_Subset
  <2> QED BY <1>1, <2>2, <2>3, FS_CardinalityType
<1>3. \A i \in at : IsFiniteSet(Upto(i)) /\ Cardinality(Upto(i)) \in 1..m
  <2> SUFFICES ASSUME NEW i \in at PROVE IsFiniteSet(Upto(i)) /\ Cardinality(Upto(i)) \in 1..m
    OBVIOUS
  <2>1. Upto(i) \in SUBSET at /\ i \in Upto(i)
    BY <1>2
  <2>2. IsFiniteSet(Upto(i)) /\ Cardinality(Upto(i)) <= m
    BY <1>1, <1>2, <2>1, FS_Subset
  <2>3. Cardinality(Upto(i)) \in Nat /\ Cardinality(Upto(i)) # 0
    BY <2>1, <2>2, FS_CardinalityType, FS_EmptySet
  <2> QED BY <1>2, <2>2, <2>3
<1>4. \A i, j \in at : i < j => Cardinality(Upto(i)) < Cardinality(Upto(j))
  <2> SUFFICES ASSUME NEW i \in at, NEW j \in at, i < j PROVE Cardinality(Upto(i)) < Cardinality(Upto(j))
    OBVIOUS
  <2>1. Upto(i) \in SUBSET Upto(j) /\ j \in Upto(j) /\ j \notin Upto(i)
    BY <1>2
  <2>2. Cardinality(Upto(i)) <= Cardinality(Upto(j)) /\ Cardinality(Upto(i)) # Cardinality(Upto(j))
    BY <1>3, <2>1, FS_Subset
  <2> HIDE DEF Upto, at
  <2>3. Cardinality(Upto(i)) \in 1..m /\ Cardinality(Upto(j)) \in 1..m
    BY <1>3
  <2> QED BY <2>2, <2>3
<1>5. \A k \in 1..m : \E i \in at : Cardinality(Upto(i)) = k
  <2>1. rank \in [at -> 1..m]
    BY <1>3
  <2>2. \A i, j \in at : rank[i] = rank[j] => i = j
    <3> SUFFICES ASSUME NEW i \in at, NEW j \in at, rank[i] = rank[j], i # j PROVE FALSE
      OBVIOUS
    <3>1. i \in Int /\ j \in Int
      BY <1>2
    <3> HIDE DEF Upto, at
    <3>2. Cardinality(Upto(i)) = Cardinality(Upto(j)) /\ Cardinality(Upto(i)) \in 1..m
      BY <1>3
    <3> QED BY <1>4, <3>1, <3>2
  <2>3. rank \in Injection(at, 1..m)
    BY <2>1, <2>2 DEF Injection, IsInjective
  <2>4. IsFiniteSet(1..m) /\ Cardinality(1..m) = m
    BY <1>2, FS_Interval
  <2>5. rank \in Surjection(at, 1..m)
    BY <1>1, <2>3, <2>4, FS_Injection
  <2> QED BY <2>5 DEF Surjection
<1> DEFINE Nth(k) == CHOOSE i \in at : Cardinality(Upto(i)) = k
<1>6. \A k \in 1..m : Nth(k) \in at /\ Cardinality(Upto(Nth(k))) = k
  BY <1>5
<1>7. PICK r : r = [k \in 1..m |-> Nth(k)]
  OBVIOUS
<1> HIDE DEF at, Upto, Nth
<1>8. r \in [1..m -> 1..n] /\ \A k \in 1..m : r[k] \in at /\ r[k] = Nth(k)
  BY <1>2, <1>6, <1>7
<1>9. Sifted(seq, S) = [k \in 1..m |-> seq[r[k]]]
  <2>1. Sifted(seq, S) = [k \in 1..m |-> seq[Nth(k)]]
    BY <1>1 DEF Sifted, at, Upto, Nth
  <2> QED BY <1>8, <2>1
<1>10. \A k \in 1..m : seq[r[k]] \in S
  BY <1>8 DEF at
<1>11. \A k, l \in 1..m : k < l => r[k] < r[l]
  <2> SUFFICES ASSUME NEW k \in 1..m, NEW l \in 1..m, k < l, ~(r[k] < r[l]) PROVE FALSE
    OBVIOUS
  <2>1. r[k] \in at /\ r[l] \in at /\ r[k] \in 1..n /\ r[l] \in 1..n
    BY <1>8
  <2>2. Cardinality(Upto(r[k])) = k /\ Cardinality(Upto(r[l])) = l
    BY <1>6, <1>8
  <2>3. r[l] < r[k] \/ r[l] = r[k]
    BY <2>1
  <2> QED BY <1>4, <2>1, <2>2, <2>3
<1>12. \A i \in 1..n : seq[i] \in S => \E k \in 1..m : r[k] = i
  <2> SUFFICES ASSUME NEW i \in 1..n, seq[i] \in S PROVE \E k \in 1..m : r[k] = i
    OBVIOUS
  <2>1. i \in at
    BY DEF at
  <2>2. PICK k \in 1..m : k = Cardinality(Upto(i))
    BY <1>3, <2>1
  <2>3. r[k] \in at /\ r[k] \in 1..n /\ Cardinality(Upto(r[k])) = k
    BY <1>6, <1>8
  <2>4. r[k] = i
    BY <1>4, <2>1, <2>2, <2>3
  <2> QED BY <2>4
<1>13. KeepsAt(seq, n, S, m, r)
  BY <1>9, <1>10, <1>11, <1>12 DEF KeepsAt
<1> QED BY <1>2, <1>8, <1>13
-----------------------------------------------------------------------------
(* The palette.  However the rows change, their number is one, and so is    *)
(* where the highlight is: a row is under it, or there is none.             *)

LEMMA AsSeq ==
    ASSUME NEW f, NEW n \in Nat, NEW S, f \in [1..n -> S]
    PROVE  f \in Seq(S) /\ Len(f) = n
<1>1. f \in Seq(S)
  BY SeqDef
<1>2. Len(f) \in Nat /\ DOMAIN f = 1..Len(f)
  BY <1>1, LenProperties
<1> QED BY <1>1, <1>2

LEMMA SiftedSeq ==
    ASSUME NEW S, NEW seq \in Seq(S), NEW T
    PROVE  Sifted(seq, T) \in Seq(S)
<1>1. PICK n \in Nat : DOMAIN seq = 1..n /\ \A i \in 1..n : seq[i] \in S
  BY LenProperties, ElementOfSeq
<1>2. PICK m \in Nat : \E r \in [1..m -> 1..n] : KeepsAt(seq, n, T, m, r)
  BY <1>1, SiftedIs
<1>3. PICK r \in [1..m -> 1..n] : KeepsAt(seq, n, T, m, r)
  BY <1>2
<1>4. Sifted(seq, T) \in [1..m -> S]
  BY <1>1, <1>3 DEF KeepsAt
<1> QED BY <1>4, AsSeq

LEMMA TakenSeq ==
    ASSUME NEW S, NEW seq \in Seq(S), NEW q
    PROVE  Take(seq, q) \in Seq(S)
<1>1. PICK n : n = IF q = <<>> THEN Unasked ELSE Asked
  OBVIOUS
<1>2. PICK m : m = IF Len(seq) < n THEN Len(seq) ELSE n
  OBVIOUS
<1>3. Len(seq) \in Nat /\ m \in Nat /\ m <= Len(seq)
  BY <1>1, <1>2, LenProperties DEF Unasked, Asked
<1>4. \A i \in 1..m : seq[i] \in S
  BY <1>3, ElementOfSeq
<1>5. SubSeq(seq, 1, m) \in Seq(S)
  BY <1>3, <1>4, SubSeqProperties
<1> QED BY <1>1, <1>2, <1>5 DEF Take

LEMMA RecentSeq ==
    ASSUME NEW S, IsFiniteSet(S), NEW rows
    PROVE  \E T : ByRecent(S, rows) \in Seq(T)
<1> DEFINE there == {x \in S : rows[x] # "gone"}
           Before(a, b) == IF rows[a] = rows[b] THEN Created[a] > Created[b] ELSE rows[a] = "live"
           Nth(k) == CHOOSE x \in there : Cardinality({y \in there : Before(y, x)}) = k - 1
<1>1. PICK n : n = Cardinality(there)
  OBVIOUS
<1>2. n \in Nat
  <2>1. there \in SUBSET S
    OBVIOUS
  <2> QED BY <1>1, <2>1, FS_Subset, FS_CardinalityType
<1>3. ByRecent(S, rows) = [k \in 1..n |-> Nth(k)]
  BY <1>1 DEF ByRecent
<1> HIDE DEF Nth
<1>4. ByRecent(S, rows) \in [1..n -> {Nth(k) : k \in 1..n}]
  BY <1>3
<1> QED BY <1>2, <1>4, AsSeq

LEMMA SizeIs == ASSUME NEW p PROVE Size(p) \in Nat
<1> DEFINE Of(S) == {x \in S : Fuzzy(p.query, TitleOf[x])}
           found(S) == Take(Sifted(ByRecent(S, p.rows), Of(S)), p.query)
           asked == {a \in Range(Actions) : Fuzzy(p.query, ActionTitle[a])}
<1>1. IsFiniteSet(Own) /\ IsFiniteSet({"sh"})
  <2>1. IsFiniteSet({"s1"}) /\ IsFiniteSet({"sh"})
    BY FS_Singleton
  <2>2. Own = {"s1"} \cup {"s2"}
    BY DEF Own
  <2> QED BY <2>1, <2>2, FS_AddElement
<1>2. \A S : IsFiniteSet(S) => \E T : found(S) \in Seq(T)
  <2> SUFFICES ASSUME NEW S, IsFiniteSet(S) PROVE \E T : found(S) \in Seq(T)
    OBVIOUS
  <2>1. PICK T : ByRecent(S, p.rows) \in Seq(T)
    BY RecentSeq
  <2>2. PICK K : K = Of(S)
    OBVIOUS
  <2>3. Sifted(ByRecent(S, p.rows), K) \in Seq(T)
    BY <2>1, SiftedSeq
  <2>4. Take(Sifted(ByRecent(S, p.rows), K), p.query) \in Seq(T)
    BY <2>3, TakenSeq
  <2> QED BY <2>2, <2>4
<1>3. PICK A : A = asked
  OBVIOUS
<1>4. PICK own, shared, sess : own = found(Own) /\ shared = found({"sh"}) /\ sess = own \o shared
  OBVIOUS
<1>5. Results(p).acts = Sifted(Actions, A) /\ Results(p).sess = sess
  BY <1>3, <1>4 DEF Results
<1>6. PICK T, U : own \in Seq(T) /\ shared \in Seq(U)
  BY <1>1, <1>2, <1>4
<1> HIDE DEF found, asked
<1>7. Len(Results(p).acts) \in Nat
  <2>1. Actions \in Seq({"new", "theme"})
    BY DEF Actions
  <2>2. Sifted(Actions, A) \in Seq({"new", "theme"})
    BY <2>1, SiftedSeq
  <2>3. PICK acts : acts = Sifted(Actions, A)
    OBVIOUS
  <2>4. Len(acts) \in Nat
    BY <2>2, <2>3, LenProperties
  <2> QED BY <1>5, <2>3, <2>4
<1>8. Len(Results(p).sess) \in Nat
  <2>1. own \in Seq(T \cup U) /\ shared \in Seq(T \cup U)
    BY <1>6, SeqDef
  <2>2. own \o shared \in Seq(T \cup U)
    BY <2>1, ConcatProperties
  <2>3. sess \in Seq(T \cup U)
    BY <1>4, <2>2
  <2>4. Len(sess) \in Nat
    BY <2>3, LenProperties
  <2> QED BY <1>5, <2>4
<1>9. PICK a, b : a = Len(Results(p).acts) /\ b = Len(Results(p).sess)
  OBVIOUS
<1>10. Size(p) = a + b /\ a \in Nat /\ b \in Nat
  BY <1>7, <1>8, <1>9 DEF Size
<1> QED BY <1>10

LEMMA SelIs ==
    ASSUME NEW p, p.hi \in Nat, Size(p) # 0
    PROVE  Sel(p) \in 0..(Size(p) - 1)
BY SizeIs DEF Sel

PaletteFields == {"open", "query", "hi", "rows", "went"}
FoundRows == [PaletteRows -> {"live", "ended", "gone"}]
PaletteTypes(u) ==
    /\ u = [f \in PaletteFields |-> u[f]]
    /\ u.open \in BOOLEAN /\ u.query \in PaletteQueries /\ u.hi \in Nat /\ u.rows \in FoundRows
FoundCall(r) ==
    r # Free => /\ r.op = "found"
                /\ r.at = "ok" => r.got \in FoundRows
PaletteBody ==
    /\ CallsShape /\ PaletteTypes(ui) /\ server \in FoundRows
    /\ \A c \in Slots : FoundCall(calls[c])
PaletteInv == OnPalette => PaletteBody

LEMMA PaletteStarts == PaletteInit => PaletteBody
<1> SUFFICES ASSUME PaletteInit PROVE PaletteBody
  OBVIOUS
<1>1. PICK rows : rows = [x \in PaletteRows |-> "live"]
  OBVIOUS
<1>2. PICK state : state = [open |-> FALSE, query |-> <<>>, hi |-> 0, rows |-> rows, went |-> Nothing]
  OBVIOUS
<1>3. Opens("palette", state, rows, Free) /\ IsCall(Free)
  BY <1>1, <1>2 DEF PaletteInit, IsCall
<1>4. ui = state /\ server = rows /\ CallsShape /\ \A c \in Slots : calls[c] = Free
  BY <1>3, OpensWith
<1>5. rows \in FoundRows
  BY <1>1 DEF FoundRows
<1>6. PaletteTypes(ui)
  <2>1. /\ ui = [f \in PaletteFields |-> ui[f]] /\ ui.open = FALSE /\ ui.query = <<>> /\ ui.hi = 0
        /\ ui.rows = rows
    BY <1>2, <1>4 DEF PaletteFields
  <2>2. ui.query \in PaletteQueries
    BY <2>1 DEF PaletteQueries
  <2>3. ui.open \in BOOLEAN
    BY <2>1
  <2> QED BY <1>5, <2>1, <2>2, <2>3 DEF PaletteTypes
<1> QED BY <1>4, <1>5, <1>6 DEF PaletteBody, FoundCall, Free

(* What a key or the pointer does. *)
LEMMA PaletteMoves ==
    ASSUME PaletteBody, PaletteTypes(ui'), UNCHANGED <<server, calls>>
    PROVE  PaletteBody'
BY DEF PaletteBody, CallsShape, Slots

LEMMA HighlightMoves ==
    ASSUME PaletteBody, NEW i \in Nat, Highlight(i)
    PROVE  PaletteBody'
<1>1. ui' = [ui EXCEPT !.hi = i] /\ UNCHANGED <<server, calls>>
  BY DEF Highlight, Page, Only
<1>2. PaletteTypes(ui')
  BY <1>1 DEF PaletteBody, PaletteTypes, PaletteFields
<1> QED BY <1>1, <1>2, PaletteMoves

LEMMA ItemRuns ==
    ASSUME PaletteBody, NEW i, RunItem(i)
    PROVE  PaletteBody'
<1>1. PICK went : went = Item(ui, i)
  OBVIOUS
<1>2. (ui' = [ui EXCEPT !.open = FALSE, !.went = went] \/ ui' = ui) /\ UNCHANGED <<server, calls>>
  BY <1>1 DEF RunItem, Page, Only
<1>3. PaletteTypes(ui')
  BY <1>2 DEF PaletteBody, PaletteTypes, PaletteFields
<1> QED BY <1>2, <1>3, PaletteMoves

LEMMA PaletteKeeps == PaletteBody /\ (PaletteNext \/ Fails \/ UNCHANGED vars) => PaletteBody'
<1> SUFFICES ASSUME PaletteBody, PaletteNext \/ Fails \/ UNCHANGED vars PROVE PaletteBody'
  OBVIOUS
<1>1. CASE UNCHANGED vars
  BY <1>1, PaletteMoves DEF vars, PaletteBody
<1>2. ASSUME NEW c \in Slots, Fail(c) PROVE PaletteBody'
  <2>1. SettledAs(c, "failed", Nothing) /\ UNCHANGED <<ui, server>> /\ calls[c] # Free
    BY <1>2, FailSettles DEF PaletteBody
  <2>2. calls[c].op # "none"
    BY <2>1 DEF PaletteBody, FoundCall
  <2>3. CallsShape' /\ calls'[c].at = "failed" /\ calls'[c].op = calls[c].op /\ \A d \in Slots \ {c} : calls'[d] = calls[d]
    BY <2>1, <2>2, SettledOut DEF Sent
  <2> QED BY <2>1, <2>2, <2>3 DEF PaletteBody, FoundCall, Slots
<1>3. CASE OpenPalette \/ ClosePalette \/ \E q \in PaletteQueries : TypeToFind(q)
  <2>2. PICK none \in PaletteQueries : none = <<>>
    BY DEF PaletteQueries
  <2>1. /\ UNCHANGED <<server, calls>>
        /\ \/ ui' = [ui EXCEPT !.open = TRUE, !.query = none, !.hi = 0, !.went = Nothing]
           \/ ui' = [ui EXCEPT !.open = FALSE]
           \/ \E q \in PaletteQueries : ui' = [ui EXCEPT !.query = q, !.hi = 0]
    BY <1>3, <2>2 DEF OpenPalette, ClosePalette, TypeToFind, Page, Only
  <2>3. PaletteTypes(ui) /\ 0 \in Nat
    BY DEF PaletteBody
  <2>4. ASSUME ui' = [ui EXCEPT !.open = TRUE, !.query = none, !.hi = 0, !.went = Nothing] PROVE PaletteTypes(ui')
    BY <2>3, <2>4 DEF PaletteTypes, PaletteFields
  <2>5. ASSUME ui' = [ui EXCEPT !.open = FALSE] PROVE PaletteTypes(ui')
    BY <2>3, <2>5 DEF PaletteTypes, PaletteFields
  <2>6. ASSUME NEW q \in PaletteQueries, ui' = [ui EXCEPT !.query = q, !.hi = 0] PROVE PaletteTypes(ui')
    BY <2>3, <2>6 DEF PaletteTypes, PaletteFields
  <2> QED BY <2>1, <2>4, <2>5, <2>6, PaletteMoves
<1>4. CASE ArrowDown \/ ArrowUp
  <2>1. Size(ui) \in Nat /\ Size(ui) # 0 /\ Sel(ui) \in 0..(Size(ui) - 1)
    BY <1>4, SizeIs, SelIs DEF ArrowDown, ArrowUp, PaletteBody, PaletteTypes
  <2>2. PICK down, up : down = (Sel(ui) + 1) % Size(ui) /\ up = (Sel(ui) - 1 + Size(ui)) % Size(ui)
    OBVIOUS
  <2>3. down \in Nat /\ up \in Nat
    BY <2>1, <2>2
  <2> QED BY <1>4, <2>2, <2>3, HighlightMoves DEF ArrowDown, ArrowUp
<1>5. ASSUME NEW i \in 0..4, HoverRow(i) PROVE PaletteBody'
  BY <1>5, HighlightMoves DEF HoverRow
<1>6. ASSUME NEW i \in 0..4, ClickRow(i) PROVE PaletteBody'
  BY <1>6, ItemRuns DEF ClickRow
<1>7. CASE Enter
  BY <1>7, ItemRuns DEF Enter
<1>8. CASE PollPalette
  <2>1. PICK q : q = Request("found", Nothing)
    OBVIOUS
  <2>2. PICK s \in Slots : TakenBy(s, q)
    BY <1>8, <2>1, FetchTakes DEF PollPalette, PaletteBody
  <2>3. q # Free /\ q.at = "sent" /\ q.op = "found"
    BY <2>1 DEF Request, Free
  <2>4. CallsShape' /\ calls'[s] = q /\ \A d \in Slots \ {s} : calls'[d] = calls[d]
    BY <2>2, <2>3, TakenOut
  <2> QED BY <1>8, <2>3, <2>4 DEF PollPalette, Only, PaletteBody, FoundCall, Slots
<1>9. ASSUME NEW c \in Slots, ServeFound(c) PROVE PaletteBody'
  <2>1. Sent(c, "found") /\ Answer(c, server) /\ UNCHANGED <<ui, server>> /\ calls[c].op # "none" /\ CallsShape
    BY <1>9 DEF ServeFound, Sent, Only, PaletteBody
  <2>2. SettledAs(c, "ok", server)
    BY <2>1, AnswerSettles
  <2>3. CallsShape' /\ calls'[c].got = server /\ calls'[c].op = "found" /\ \A d \in Slots \ {c} : calls'[d] = calls[d]
    BY <2>1, <2>2, SettledOut DEF Sent
  <2> QED BY <2>1, <2>2, <2>3 DEF PaletteBody, FoundCall, Slots
<1>10. ASSUME NEW c \in Slots, FoundAnswered(c) PROVE PaletteBody'
  <2>1. LeftWith(c, Free) /\ UNCHANGED server
    BY <1>10, DoneLeaves DEF FoundAnswered, Only, PaletteBody
  <2>2. CallsShape' /\ calls'[c] = Free /\ \A d \in Slots \ {c} : calls'[d] = calls[d]
    BY <2>1, LeftOut
  <2>3. PICK rows : rows = calls[c].got
    OBVIOUS
  <2>4. \/ ui' = [ui EXCEPT !.rows = rows] /\ rows \in FoundRows
        \/ ui' = ui
    BY <1>10, <2>3 DEF FoundAnswered, Page, Ok, PaletteBody, FoundCall, Free
  <2>5. PaletteTypes(ui')
    BY <2>4 DEF PaletteBody, PaletteTypes, PaletteFields
  <2> QED BY <2>1, <2>2, <2>5 DEF PaletteBody, FoundCall, Slots, Free
<1>11. CASE FoundChanges
  <2>1. PICK x \in PaletteRows, s \in {"ended", "gone"} : Elsewhere([server EXCEPT ![x] = s])
    BY <1>11 DEF FoundChanges
  <2>2. PICK new : new = [server EXCEPT ![x] = s]
    OBVIOUS
  <2>3. new \in FoundRows
    BY <2>2 DEF PaletteBody, FoundRows
  <2>4. server' \in FoundRows /\ UNCHANGED <<ui, calls>>
    BY <2>1, <2>2, <2>3 DEF Elsewhere
  <2> QED BY <2>4 DEF PaletteBody, CallsShape, Slots
<1>12. PaletteNext => \/ OpenPalette \/ ClosePalette \/ ArrowDown \/ ArrowUp \/ Enter \/ PollPalette \/ FoundChanges
                      \/ \E q \in PaletteQueries : TypeToFind(q)
                      \/ \E i \in 0..4 : HoverRow(i) \/ ClickRow(i)
                      \/ \E c \in Slots : ServeFound(c) \/ FoundAnswered(c)
  BY DEF PaletteNext
<1> QED BY <1>1, <1>2, <1>3, <1>4, <1>5, <1>6, <1>7, <1>8, <1>9, <1>10, <1>11, <1>12 DEF Fails

LEMMA PaletteHolds ==
    /\ Init => PaletteInv
    /\ PaletteInv /\ [Next]_vars => PaletteInv'
    /\ PaletteInv => EnterRunsAListedRow /\ PaletteTypeOK
<1>1. Init => PaletteInv
  BY OpensOn, PaletteStarts DEF PaletteInv
<1>2. PaletteInv /\ [Next]_vars => PaletteInv'
  BY TakesStep, PaletteKeeps, PagesStay DEF PaletteInv, OnPalette
<1>3. PaletteInv => EnterRunsAListedRow
  BY SelIs DEF PaletteInv, PaletteBody, PaletteTypes, EnterRunsAListedRow
<1>4. PaletteInv => PaletteTypeOK
  BY DEF PaletteInv, PaletteBody, PaletteTypes, PaletteTypeOK, FoundRows
<1> QED BY <1>1, <1>2, <1>3, <1>4
-----------------------------------------------------------------------------
(* Pages of a list that is strictly descending.                             *)

Descends(seq) == seq \in Seq(Nat) /\ \A i, j \in 1..Len(seq) : i < j => seq[j] < seq[i]
Once(seq) == seq \in Seq(Nat) /\ \A i, j \in 1..Len(seq) : seq[i] = seq[j] => i = j
In(seq) == {seq[i] : i \in 1..Len(seq)}

LEMMA DescendsOnce == ASSUME NEW seq, Descends(seq) PROVE Once(seq)
<1> SUFFICES ASSUME NEW i \in 1..Len(seq), NEW j \in 1..Len(seq), seq[i] = seq[j], i # j PROVE FALSE
  BY DEF Descends, Once
<1>1. Len(seq) \in Nat /\ seq[i] \in Nat /\ seq[j] \in Nat
  BY LenProperties, ElementOfSeq DEF Descends
<1>2. i < j \/ j < i
  BY <1>1
<1> QED BY <1>1, <1>2 DEF Descends

(* A part of a descending list, given by the places it takes. *)
PartOf(part, seq, m, r) ==
    /\ m \in Nat /\ r \in [1..m -> 1..Len(seq)] /\ part = [k \in 1..m |-> seq[r[k]]]
    /\ \A k, l \in 1..m : k < l => r[k] < r[l]
Within(part, seq) == Descends(part) /\ In(part) \subseteq In(seq)

LEMMA PartDescends ==
    ASSUME NEW seq, Descends(seq), NEW part, NEW m, NEW r, PartOf(part, seq, m, r)
    PROVE  Within(part, seq) /\ Len(part) = m
<1>1. /\ m \in Nat /\ r \in [1..m -> 1..Len(seq)] /\ part = [k \in 1..m |-> seq[r[k]]]
      /\ \A k, l \in 1..m : k < l => r[k] < r[l]
  BY DEF PartOf
<1>2. \A i \in 1..Len(seq) : seq[i] \in Nat
  BY ElementOfSeq DEF Descends
<1>3. part \in [1..m -> Nat]
  BY <1>2, <1>1
<1>4. part \in Seq(Nat) /\ Len(part) = m
  BY <1>3, <1>1, AsSeq
<1>5. \A k, l \in 1..m : k < l => part[l] < part[k]
  BY <1>1 DEF Descends
<1>6. In(part) \subseteq In(seq)
  BY <1>4, <1>1 DEF In
<1> QED BY <1>4, <1>5, <1>6 DEF Descends, Within

LEMMA SiftedDescends ==
    ASSUME NEW seq, Descends(seq), NEW S
    PROVE  Descends(Sifted(seq, S)) /\ In(Sifted(seq, S)) = In(seq) \cap S
<1>1. PICK n \in Nat : n = Len(seq) /\ DOMAIN seq = 1..n
  BY LenProperties DEF Descends
<1>2. PICK m \in Nat : \E r \in [1..m -> 1..n] : KeepsAt(seq, n, S, m, r)
  BY <1>1, SiftedIs
<1>3. PICK r \in [1..m -> 1..n] : KeepsAt(seq, n, S, m, r)
  BY <1>2
<1>4. PICK part : part = Sifted(seq, S)
  OBVIOUS
<1>5. part = [k \in 1..m |-> seq[r[k]]]
  BY <1>3, <1>4 DEF KeepsAt
<1>6. Descends(part) /\ In(part) \subseteq In(seq) /\ Len(part) = m
  <2>1. PartOf(part, seq, m, r)
    BY <1>1, <1>3, <1>5 DEF KeepsAt, PartOf
  <2> QED BY <2>1, PartDescends DEF Within
<1>7. In(part) \subseteq S
  BY <1>3, <1>6, <1>5 DEF KeepsAt, In
<1>8. In(seq) \cap S \subseteq In(part)
  <2> SUFFICES ASSUME NEW x \in In(seq), x \in S PROVE x \in In(part)
    OBVIOUS
  <2>1. PICK i \in 1..n : x = seq[i]
    BY <1>1 DEF In
  <2>2. PICK k \in 1..m : r[k] = i
    BY <1>3, <2>1 DEF KeepsAt
  <2> QED BY <1>6, <1>5, <2>1, <2>2 DEF In
<1> QED BY <1>4, <1>6, <1>7, <1>8

(* Consecutive places of a list. *)
RunOf(part, seq, a, b) ==
    /\ Within(part, seq)
    /\ Len(part) = IF a <= b THEN b - a + 1 ELSE 0
    /\ \A i \in 1..Len(part) : part[i] = seq[a + i - 1]

LEMMA RunDescends ==
    ASSUME NEW seq, Descends(seq), NEW a \in Nat \ {0}, NEW b \in Nat, b <= Len(seq)
    PROVE  RunOf(SubSeq(seq, a, b), seq, a, b)
<1>1. PICK part : part = SubSeq(seq, a, b)
  OBVIOUS
<1>2. Len(seq) \in Nat /\ \A i \in 1..Len(seq) : seq[i] \in Nat
  BY LenProperties, ElementOfSeq DEF Descends
<1>3. \A i \in a..b : seq[i] \in Nat
  BY <1>2
<1>4. /\ part \in Seq(Nat) /\ Len(part) = IF a <= b THEN b - a + 1 ELSE 0
      /\ \A i \in 1..(b - a + 1) : part[i] = seq[a + i - 1]
  BY <1>3, <1>1, SubSeqProperties
<1>5. PICK m \in Nat : m = Len(part)
  BY <1>4, LenProperties
<1>6. \A i \in 1..m : part[i] = seq[a + i - 1] /\ a + i - 1 \in 1..Len(seq)
  BY <1>2, <1>4, <1>5
<1>7. \A k, l \in 1..m : k < l => part[l] < part[k]
  <2> SUFFICES ASSUME NEW k \in 1..m, NEW l \in 1..m, k < l PROVE part[l] < part[k]
    OBVIOUS
  <2>1. PICK x, y \in 1..Len(seq) : x = a + k - 1 /\ y = a + l - 1 /\ part[k] = seq[x] /\ part[l] = seq[y]
    BY <1>6
  <2>2. x < y
    BY <2>1
  <2> QED BY <2>1, <2>2 DEF Descends
<1>8. In(part) \subseteq In(seq)
  BY <1>5, <1>6 DEF In
<1>9. RunOf(part, seq, a, b)
  BY <1>4, <1>5, <1>6, <1>7, <1>8 DEF Descends, RunOf, Within
<1> QED BY <1>1, <1>9

(* A page: what it leaves out is below its last, and there is nothing left  *)
(* out when it is not full.                                                 *)
PageIn(part, seq) ==
    /\ Within(part, seq)
    /\ Len(part) = PAGE_SIZE => /\ Last(part) \in In(part)
                                /\ \A x \in In(seq) : x \in In(part) \/ x < Last(part)
    /\ Len(part) # PAGE_SIZE => In(part) = In(seq)

LEMMA PageIs ==
    ASSUME NEW seq, Descends(seq)
    PROVE  PageIn(PageOf(seq), seq)
<1>1. PICK part : part = PageOf(seq)
  OBVIOUS
<1>2. PICK n : n = IF Len(seq) > PAGE_SIZE THEN PAGE_SIZE ELSE Len(seq)
  OBVIOUS
<1>3. Len(seq) \in Nat /\ PAGE_SIZE \in Nat \ {0} /\ seq \in Seq(Nat)
  BY LenProperties DEF Descends, PAGE_SIZE
<1>4. n \in Nat /\ n <= Len(seq) /\ n <= PAGE_SIZE
  BY <1>2, <1>3
<1>5. part = SubSeq(seq, 1, n)
  BY <1>2, <1>1 DEF PageOf
<1>6. PICK a \in Nat \ {0} : a = 1
  OBVIOUS
<1>7. /\ Descends(part) /\ In(part) \subseteq In(seq)
      /\ Len(part) = IF a <= n THEN n - a + 1 ELSE 0
      /\ \A i \in 1..Len(part) : part[i] = seq[a + i - 1]
  <2>1. RunOf(SubSeq(seq, a, n), seq, a, n)
    BY <1>4, RunDescends
  <2>2. RunOf(part, seq, a, n)
    BY <1>5, <1>6, <2>1
  <2> QED BY <2>2 DEF RunOf, Within
<1>8. Len(part) = n /\ \A i \in 1..n : part[i] = seq[i]
  BY <1>4, <1>6, <1>7
<1>9. ASSUME n = PAGE_SIZE
      PROVE  Last(part) \in In(part) /\ \A x \in In(seq) : x \in In(part) \/ x < Last(part)
  <2>1. Last(part) = seq[n] /\ n \in 1..n /\ Last(part) = part[n]
    BY <1>3, <1>4, <1>8, <1>9 DEF Last
  <2>2. Last(part) \in In(part)
    BY <1>8, <2>1 DEF In
  <2>3. ASSUME NEW i \in 1..Len(seq) PROVE seq[i] \in In(part) \/ seq[i] < Last(part)
    <3>1. CASE i <= n
      BY <1>3, <1>4, <1>8, <2>3, <3>1 DEF In
    <3>2. CASE n < i
      <4>1. n \in 1..Len(seq) /\ i \in 1..Len(seq) /\ n < i
        BY <1>3, <1>4, <2>1, <2>3, <3>2
      <4>2. seq[i] < seq[n]
        BY <4>1 DEF Descends
      <4> QED BY <2>1, <4>2
    <3> QED BY <1>3, <1>4, <2>3, <3>1, <3>2
  <2> QED BY <2>2, <2>3 DEF In
<1>10. ASSUME n # PAGE_SIZE PROVE In(part) = In(seq)
  BY <1>2, <1>3, <1>8, <1>10 DEF In
<1>11. PageIn(part, seq)
  BY <1>7, <1>8, <1>9, <1>10 DEF PageIn, Within
<1> QED BY <1>1, <1>11

(* The rows of a page that are not there yet, after those that are.  *)
Joins(more, items, rows) == Once(more) /\ In(more) = In(items) \cup In(rows)

LEMMA AddedOnce ==
    ASSUME NEW items, Once(items), NEW rows, Once(rows)
    PROVE  Joins(items \o Sifted(rows, Range(rows) \ Range(items)), items, rows)
<1>1. PICK n \in Nat, k \in Nat : /\ n = Len(rows) /\ DOMAIN rows = 1..n
                                   /\ k = Len(items) /\ DOMAIN items = 1..k
  BY LenProperties DEF Once
<1>2. PICK S : S = Range(rows) \ Range(items)
  OBVIOUS
<1>3. S = In(rows) \ In(items)
  BY <1>1, <1>2 DEF Range, In
<1>4. PICK m \in Nat : \E r \in [1..m -> 1..n] : KeepsAt(rows, n, S, m, r)
  BY <1>1, SiftedIs
<1>5. PICK r \in [1..m -> 1..n] : KeepsAt(rows, n, S, m, r)
  BY <1>4
<1>6. PICK new : new = Sifted(rows, S)
  OBVIOUS
<1>7. /\ new = [i \in 1..m |-> rows[r[i]]]
      /\ \A i \in 1..m : rows[r[i]] \in S
      /\ \A i, j \in 1..m : i < j => r[i] < r[j]
      /\ \A i \in 1..n : rows[i] \in S => \E j \in 1..m : r[j] = i
  BY <1>5, <1>6 DEF KeepsAt
<1>8. \A i \in 1..n : rows[i] \in Nat
  BY <1>1, ElementOfSeq DEF Once
<1>9. new \in [1..m -> Nat]
  BY <1>7, <1>8
<1>10. new \in Seq(Nat) /\ Len(new) = m
  BY <1>9, AsSeq
<1>11. items \in Seq(Nat)
  BY DEF Once
<1>12. /\ items \o new \in Seq(Nat) /\ Len(items \o new) = Len(items) + Len(new)
       /\ \A i \in 1..(Len(items) + Len(new)) :
            (items \o new)[i] = IF i <= Len(items) THEN items[i] ELSE new[i - Len(items)]
  BY <1>10, <1>11, ConcatProperties
<1>13. PICK more : more = items \o new
  OBVIOUS
<1>14. /\ more \in Seq(Nat) /\ Len(more) = k + m
       /\ \A i \in 1..(k + m) : more[i] = IF i <= k THEN items[i] ELSE new[i - k]
  BY <1>1, <1>10, <1>12, <1>13
<1>15. \A i, j \in 1..m : new[i] = new[j] => i = j
  <2> SUFFICES ASSUME NEW i \in 1..m, NEW j \in 1..m, new[i] = new[j], i # j PROVE FALSE
    OBVIOUS
  <2>1. rows[r[i]] = rows[r[j]] /\ r[i] \in 1..n /\ r[j] \in 1..n
    BY <1>7
  <2>2. r[i] = r[j]
    BY <1>1, <2>1 DEF Once
  <2>3. i < j \/ j < i
    OBVIOUS
  <2> QED BY <1>7, <2>1, <2>2, <2>3
<1>16. \A i \in 1..m : new[i] \in In(rows) /\ new[i] \notin In(items)
  BY <1>3, <1>7
<1>17. \A i \in 1..(k + m) : (i \in 1..k /\ more[i] = items[i]) \/ \E j \in 1..m : i = k + j /\ more[i] = new[j]
  <2> SUFFICES ASSUME NEW i \in 1..(k + m), ~(i <= k) PROVE \E j \in 1..m : i = k + j /\ more[i] = new[j]
    BY <1>14
  <2>1. i - k \in 1..m /\ i = k + (i - k) /\ more[i] = new[i - k]
    BY <1>14
  <2> QED BY <2>1
<1>18. \A i \in 1..k : items[i] \in In(items) /\ \A j \in 1..k : items[i] = items[j] => i = j
  BY <1>1 DEF In, Once
<1>19. Once(more)
  <2> SUFFICES ASSUME NEW i \in 1..(k + m), NEW j \in 1..(k + m), more[i] = more[j] PROVE i = j
    BY <1>14 DEF Once
  <2>1. (i \in 1..k /\ more[i] = items[i]) \/ \E x \in 1..m : i = k + x /\ more[i] = new[x]
    BY <1>17
  <2>2. (j \in 1..k /\ more[j] = items[j]) \/ \E x \in 1..m : j = k + x /\ more[j] = new[x]
    BY <1>17
  <2> QED BY <1>15, <1>16, <1>18, <2>1, <2>2
<1>20. In(more) = {more[i] : i \in 1..(k + m)}
  BY <1>14 DEF In
<1>21. In(more) \subseteq In(items) \cup In(rows)
  <2> SUFFICES ASSUME NEW i \in 1..(k + m) PROVE more[i] \in In(items) \cup In(rows)
    BY <1>20
  <2>1. (i \in 1..k /\ more[i] = items[i]) \/ \E x \in 1..m : i = k + x /\ more[i] = new[x]
    BY <1>17
  <2> QED BY <1>16, <1>18, <2>1
<1>22. In(items) \subseteq In(more)
  <2> SUFFICES ASSUME NEW i \in 1..k PROVE items[i] \in In(more)
    BY <1>1 DEF In
  <2>1. i \in 1..(k + m) /\ more[i] = items[i]
    BY <1>14
  <2> QED BY <1>20, <2>1
<1>23. ASSUME NEW x \in In(rows), x \notin In(items) PROVE x \in In(more)
  <2>1. PICK i \in 1..n : x = rows[i]
    BY <1>1 DEF In
  <2>2. PICK j \in 1..m : r[j] = i
    BY <1>3, <1>7, <1>23, <2>1
  <2>3. new[j] = x
    BY <1>7, <2>1, <2>2
  <2>4. PICK y \in 1..(k + m) : y = k + j /\ ~(y <= k) /\ y - k = j
    OBVIOUS
  <2>5. more[y] = new[y - k]
    BY <1>14, <2>4
  <2> QED BY <1>20, <2>3, <2>4, <2>5
<1>24. Joins(more, items, rows)
  BY <1>19, <1>21, <1>22, <1>23 DEF Joins
<1> QED BY <1>2, <1>6, <1>13, <1>24

(* One is published at the head of the list, or one of it is withdrawn.  *)
Heads(x, more, seq) == Descends(more) /\ In(more) = In(seq) \cup {x}

LEMMA PublishedDescends ==
    ASSUME NEW seq, Descends(seq), NEW x \in Nat, \A y \in In(seq) : y < x
    PROVE  Heads(x, <<x>> \o seq, seq)
<1>1. PICK one : one = <<x>>
  OBVIOUS
<1>2. one \in Seq(Nat) /\ Len(one) = 1 /\ one[1] = x
  BY <1>1
<1>3. PICK n \in Nat : n = Len(seq)
  BY LenProperties DEF Descends
<1>4. /\ one \o seq \in Seq(Nat) /\ Len(one \o seq) = Len(one) + Len(seq)
      /\ \A i \in 1..(Len(one) + Len(seq)) : (one \o seq)[i] = IF i <= Len(one) THEN one[i] ELSE seq[i - Len(one)]
  BY <1>2, ConcatProperties DEF Descends
<1>5. PICK more : more = one \o seq
  OBVIOUS
<1>6. /\ more \in Seq(Nat) /\ Len(more) = 1 + n
      /\ \A i \in 1..(1 + n) : more[i] = IF i <= 1 THEN one[i] ELSE seq[i - 1]
  BY <1>2, <1>3, <1>4, <1>5
<1>7. more[1] = x /\ \A i \in 1..n : more[1 + i] = seq[i] /\ seq[i] \in In(seq)
  BY <1>2, <1>3, <1>6 DEF In
<1>8. \A i \in 1..(1 + n) : i = 1 \/ (i - 1 \in 1..n /\ more[i] = seq[i - 1])
  BY <1>6
<1>9. Descends(more)
  <2> SUFFICES ASSUME NEW i \in 1..(1 + n), NEW j \in 1..(1 + n), i < j PROVE more[j] < more[i]
    BY <1>6 DEF Descends
  <2>1. j - 1 \in 1..n /\ more[j] = seq[j - 1] /\ seq[j - 1] \in In(seq)
    BY <1>7, <1>8
  <2>2. CASE i = 1
    BY <1>7, <2>1, <2>2
  <2>3. CASE i # 1
    <3>1. PICK a, b \in 1..Len(seq) : a = i - 1 /\ b = j - 1 /\ more[i] = seq[a] /\ more[j] = seq[b]
      BY <1>3, <1>8, <2>1, <2>3
    <3>2. a < b
      BY <3>1
    <3> QED BY <3>1, <3>2 DEF Descends
  <2> QED BY <2>2, <2>3
<1>10. In(more) = {more[i] : i \in 1..(1 + n)}
  BY <1>6 DEF In
<1>11. In(more) \subseteq In(seq) \cup {x}
  <2> SUFFICES ASSUME NEW i \in 1..(1 + n) PROVE more[i] \in In(seq) \cup {x}
    BY <1>10
  <2> QED BY <1>7, <1>8
<1>12. In(seq) \cup {x} \subseteq In(more)
  <2>1. x \in In(more)
    <3>1. PICK i \in 1..(1 + n) : i = 1
      OBVIOUS
    <3> QED BY <1>7, <1>10, <3>1
  <2>2. ASSUME NEW i \in 1..n PROVE seq[i] \in In(more)
    <3>1. PICK y \in 1..(1 + n) : y = 1 + i
      OBVIOUS
    <3> QED BY <1>7, <1>10, <3>1
  <2> QED BY <1>3, <2>1, <2>2 DEF In
<1>13. Heads(x, more, seq)
  BY <1>9, <1>11, <1>12 DEF Heads
<1> QED BY <1>1, <1>5, <1>13

LEMMA WithdrawnDescends ==
    ASSUME NEW seq, Descends(seq), NEW k \in DOMAIN seq
    PROVE  Within(RemoveAt(seq, k), seq)
<1>1. PICK n \in Nat : n = Len(seq) /\ k \in 1..n
  BY LenProperties DEF Descends
<1>2. PICK one \in Nat \ {0} : one = 1
  OBVIOUS
<1>3. PICK b \in Nat : b = k - 1
  BY <1>1
<1>4. PICK c \in Nat \ {0} : c = k + 1
  BY <1>1
<1>5. PICK before : before = SubSeq(seq, one, b)
  OBVIOUS
<1>6. PICK after : after = SubSeq(seq, c, n)
  OBVIOUS
<1>7. PICK left : left = before \o after
  OBVIOUS
<1>8. left = RemoveAt(seq, k)
  BY <1>1, <1>2, <1>3, <1>4, <1>5, <1>6, <1>7 DEF RemoveAt
<1>9. before \in Seq(Nat) /\ Len(before) = b /\ \A i \in 1..b : before[i] = seq[i]
  <2>1. RunOf(SubSeq(seq, one, b), seq, one, b)
    BY <1>1, <1>3, RunDescends
  <2>2. RunOf(before, seq, one, b)
    BY <1>5, <2>1
  <2>3. /\ before \in Seq(Nat) /\ Len(before) = IF one <= b THEN b - one + 1 ELSE 0
        /\ \A i \in 1..Len(before) : before[i] = seq[one + i - 1]
    BY <2>2 DEF RunOf, Within, Descends
  <2> QED BY <1>2, <2>3
<1>10. /\ after \in Seq(Nat) /\ Len(after) = n - k /\ \A i \in 1..(n - k) : after[i] = seq[k + i]
  <2>1. RunOf(SubSeq(seq, c, n), seq, c, n)
    BY <1>1, RunDescends
  <2>2. RunOf(after, seq, c, n)
    BY <1>6, <2>1
  <2>3. /\ after \in Seq(Nat) /\ Len(after) = IF c <= n THEN n - c + 1 ELSE 0
        /\ \A i \in 1..Len(after) : after[i] = seq[c + i - 1]
    BY <2>2 DEF RunOf, Within, Descends
  <2>4. Len(after) = n - k
    BY <1>1, <1>4, <2>3
  <2>5. ASSUME NEW i \in 1..(n - k) PROVE after[i] = seq[k + i]
    <3>1. after[i] = seq[c + i - 1] /\ c + i - 1 = k + i
      BY <1>1, <1>4, <2>3, <2>4
    <3> QED BY <3>1
  <2> QED BY <2>3, <2>4, <2>5
<1>11. /\ before \o after \in Seq(Nat) /\ Len(before \o after) = Len(before) + Len(after)
       /\ \A i \in 1..(Len(before) + Len(after)) :
            (before \o after)[i] = IF i <= Len(before) THEN before[i] ELSE after[i - Len(before)]
  BY <1>9, <1>10, ConcatProperties
<1>12. PICK m \in Nat : m = n - 1
  BY <1>1
<1>13. b + (n - k) = m
  BY <1>1, <1>3, <1>12
<1>14. /\ left \in Seq(Nat) /\ Len(left) = m
       /\ \A i \in 1..m : left[i] = IF i <= b THEN before[i] ELSE after[i - b]
  BY <1>7, <1>9, <1>10, <1>11, <1>13
<1>15. PICK r : r = [i \in 1..m |-> IF i <= b THEN i ELSE i + 1]
  OBVIOUS
<1>16. r \in [1..m -> 1..n]
  <2>1. \A i \in 1..m : (IF i <= b THEN i ELSE i + 1) \in 1..n
    BY <1>1, <1>12
  <2> QED BY <1>15, <2>1
<1>17. \A i \in 1..m : left[i] = seq[r[i]]
  <2> SUFFICES ASSUME NEW i \in 1..m PROVE left[i] = seq[r[i]]
    OBVIOUS
  <2>1. CASE i <= b
    <3>1. i \in 1..b /\ r[i] = i /\ left[i] = before[i]
      BY <1>14, <1>15, <2>1
    <3> QED BY <1>9, <3>1
  <2>2. CASE ~(i <= b)
    <3>1. left[i] = after[i - b] /\ r[i] = i + 1
      BY <1>14, <1>15, <2>2
    <3>2. PICK j \in 1..(n - k) : j = i - b /\ k + j = i + 1
      BY <1>1, <1>3, <1>12, <2>2
    <3>3. after[j] = seq[k + j]
      BY <1>10
    <3> QED BY <3>1, <3>2, <3>3
  <2> QED BY <2>1, <2>2
<1>18. \A i, j \in 1..m : i < j => r[i] < r[j]
  BY <1>15
<1>19. left = [i \in 1..m |-> seq[r[i]]]
  <2>1. left \in [1..m -> Nat]
    BY <1>14, LenProperties
  <2> QED BY <1>17, <2>1
<1>20. PartOf(left, seq, m, r)
  BY <1>1, <1>16, <1>18, <1>19 DEF PartOf
<1> QED BY <1>8, <1>20, PartDescends
-----------------------------------------------------------------------------
(* The feed.  One page of the query that is shown is out at a time, and     *)
(* while it is, loading says so.  Browsing goes on below the last of a      *)
(* page: what was published when it began and still is has been listed, or  *)
(* is below the cursor; and a page that has come back, still to be received *)
(* and read from a list that has changed since, has what was below the      *)
(* cursor it was asked with, or a cursor above it.                          *)

FeedFields == {"query", "debounced", "items", "cursor", "loading", "done", "err", "first", "agent", "since"}
FeedTypes(u) ==
    /\ u = [f \in FeedFields |-> u[f]]
    /\ u.query \in Queries /\ u.debounced \in Queries /\ Once(u.items) /\ u.cursor \in Nat
    /\ u.loading \in BOOLEAN /\ u.done \in BOOLEAN /\ u.since \subseteq Nat
    /\ u.debounced = "q" => 2 \notin In(u.items)
FeedHeld(s) ==
    /\ s = [feed |-> s.feed, next |-> s.next] /\ Descends(s.feed) /\ s.next \in Nat \ {0}
    /\ \A x \in In(s.feed) : 0 < x /\ x < s.next
Browsed(u, s) ==
    /\ \A x \in u.since : x < s.next
    /\ u.debounced = "" =>
         /\ u.cursor < s.next
         /\ u.done => \A x \in u.since : x \in In(s.feed) => x \in In(u.items)
         /\ u.cursor # 0 => \A x \in u.since : x \in In(s.feed) => x \in In(u.items) \/ x < u.cursor
Brought(got, q, cursor, s) ==
    /\ Once(got.rows) /\ got.next \in Nat /\ \A x \in In(got.rows) : x < s.next
    /\ q = "q" => 2 \notin In(got.rows)
    /\ q = "" =>
         /\ got.next < s.next
         /\ got.next # 0 => got.next \in In(got.rows)
         /\ \A x \in In(s.feed) : x < cursor => x \in In(got.rows) \/ (got.next # 0 /\ x < got.next)
FeedCall(r, u, s) ==
    r # Free =>
      /\ r.op \in {"first", "more", "late"} /\ r.arg.q \in Queries /\ r.arg.cursor \in Nat
      /\ r.at = "failed" => r.got = Nothing
      /\ r.op # "late" =>
           /\ r.arg.q = u.debounced /\ r.arg.cursor = u.cursor /\ ~u.done
           /\ r.op = "first" <=> u.cursor = 0
           /\ r.at = "ok" => Brought(r.got, r.arg.q, r.arg.cursor, s)
AsksPage(c) == calls[c].op = "first" \/ calls[c].op = "more"
FeedBody ==
    /\ CallsShape /\ FeedTypes(ui) /\ FeedHeld(server) /\ Browsed(ui, server)
    /\ \A c \in Slots : FeedCall(calls[c], ui, server)
    /\ \A c, d \in Slots : AsksPage(c) /\ AsksPage(d) => c = d
    /\ ui.loading <=> \E c \in Slots : AsksPage(c)
FeedInv == OnFeed => FeedBody

LEMMA FeedStarts == FeedInit => FeedBody
<1> SUFFICES ASSUME FeedInit PROVE FeedBody
  OBVIOUS
<1>1. PICK rendered \in BOOLEAN :
        Opens("feed",
              [query |-> "", debounced |-> "", items |-> IF rendered THEN <<2>> ELSE <<>>,
               cursor |-> IF rendered THEN 2 ELSE 0, loading |-> ~rendered, done |-> FALSE,
               err |-> FALSE, first |-> rendered, agent |-> Nothing, since |-> {1, 2}],
              [feed |-> <<2, 1>>, next |-> 3],
              IF rendered THEN Free ELSE FeedReq("first", "", 0))
  BY DEF FeedInit
<1>2. PICK items : items = IF rendered THEN <<2>> ELSE <<>>
  OBVIOUS
<1>3. PICK feed : feed = <<2, 1>>
  OBVIOUS
<1>4. PICK cursor \in Nat : cursor = IF rendered THEN 2 ELSE 0
  OBVIOUS
<1>5. PICK request : request = IF rendered THEN Free ELSE FeedReq("first", "", 0)
  OBVIOUS
<1>6. PICK loading \in BOOLEAN : loading = ~rendered
  OBVIOUS
<1>7. PICK state : state = [query |-> "", debounced |-> "", items |-> items,
               cursor |-> cursor, loading |-> loading, done |-> FALSE,
               err |-> FALSE, first |-> rendered, agent |-> Nothing, since |-> {1, 2}]
  OBVIOUS
<1>8. Opens("feed", state, [feed |-> feed, next |-> 3], request)
  BY <1>1, <1>2, <1>3, <1>4, <1>5, <1>6, <1>7
<1>9. IsCall(request)
  BY <1>5 DEF IsCall, FeedReq, Request
<1>10. /\ ui = state /\ server = [feed |-> feed, next |-> 3] /\ CallsShape
       /\ 1 \in Slots /\ calls[1] = request /\ \A c \in Slots \ {1} : calls[c] = Free
  BY <1>8, <1>9, OpensWith
<1>11. Descends(feed) /\ In(feed) = {1, 2}
  <2>1. feed \in Seq(Nat) /\ Len(feed) = 2 /\ feed[1] = 2 /\ feed[2] = 1
    BY <1>3
  <2> QED BY <2>1 DEF Descends, In
<1>12. Once(items) /\ (rendered => In(items) = {2})
  <2>1. CASE rendered
    <3>1. items = <<2>>
      BY <1>2, <2>1
    <3>2. items \in Seq(Nat) /\ Len(items) = 1 /\ items[1] = 2
      BY <3>1
    <3> QED BY <3>2 DEF Once, In
  <2>2. CASE ~rendered
    <3>1. items = <<>>
      BY <1>2, <2>2
    <3>2. items \in Seq(Nat) /\ Len(items) = 0
      BY <3>1
    <3> QED BY <2>2, <3>2 DEF Once
  <2> QED BY <2>1, <2>2
<1>13. /\ ui = [f \in FeedFields |-> ui[f]] /\ ui.query = "" /\ ui.debounced = "" /\ ui.items = items
       /\ ui.cursor = cursor /\ ui.since = {1, 2}
  BY <1>7, <1>10 DEF FeedFields
<1>14. ui.loading = loading /\ ui.done \in BOOLEAN /\ ~ui.done
  BY <1>7, <1>10
<1>15. FeedTypes(ui)
  <2>1. ui.query \in Queries /\ ui.debounced \in Queries /\ ui.debounced # "q"
    BY <1>13 DEF Queries
  <2>2. {1, 2} \subseteq Nat
    OBVIOUS
  <2> QED BY <1>6, <1>12, <1>13, <1>14, <2>1, <2>2 DEF FeedTypes
<1>16. server.feed = feed /\ server.next = 3 /\ FeedHeld(server)
  BY <1>10, <1>11 DEF FeedHeld
<1>17. Browsed(ui, server)
  <2>1. cursor < 3 /\ \A x \in {1, 2} : x < 3
    BY <1>4
  <2>2. cursor # 0 => rendered /\ cursor = 2
    BY <1>4
  <2>3. cursor # 0 => \A x \in {1, 2} : x \in In(items) \/ x < cursor
    BY <1>12, <2>2
  <2> QED BY <1>13, <1>14, <1>16, <2>1, <2>3 DEF Browsed
<1>18. ASSUME ~rendered
       PROVE  /\ request # Free /\ request.op = "first" /\ request.at = "sent"
              /\ request.arg.q = "" /\ request.arg.cursor = 0
  BY <1>5, <1>18 DEF FeedReq, Request, Free
<1>19. rendered => request = Free
  BY <1>5
<1>20. \A c \in Slots : calls[c] = Free \/ (c = 1 /\ ~rendered /\ calls[c] = request)
  BY <1>10, <1>19
<1>21. FeedCall(request, ui, server)
  BY <1>4, <1>13, <1>14, <1>18, <1>19 DEF FeedCall, Queries
<1>22. FeedCall(Free, ui, server)
  BY DEF FeedCall
<1>23. \A c \in Slots : FeedCall(calls[c], ui, server)
  BY <1>20, <1>21, <1>22
<1>24. \A c \in Slots : AsksPage(c) => c = 1 /\ ~rendered
  BY <1>20 DEF AsksPage, Free
<1>25. ~rendered => AsksPage(1)
  BY <1>10, <1>18 DEF AsksPage
<1> QED BY <1>6, <1>10, <1>14, <1>15, <1>16, <1>17, <1>23, <1>24, <1>25 DEF FeedBody

(* What the API answers. *)
LEMMA FeedAnswered ==
    ASSUME FeedHeld(server), NEW q \in Queries, NEW cursor \in Nat
    PROVE  Brought(FeedAnswer(q, cursor), q, cursor, server)
<1>1. PICK feed, next : feed = server.feed /\ next = server.next
  OBVIOUS
<1>2. Descends(feed) /\ next \in Nat \ {0} /\ \A x \in In(feed) : 0 < x /\ x < next
  BY <1>1 DEF FeedHeld
<1>3. CASE q = ""
  <2>1. PICK S : S = {s \in Finds(q) : cursor = 0 \/ s < cursor}
    OBVIOUS
  <2>2. PICK below : below = Sifted(feed, S)
    OBVIOUS
  <2>3. Descends(below) /\ In(below) = In(feed) \cap S
    BY <1>2, <2>2, SiftedDescends
  <2>4. PICK rows : rows = PageOf(below)
    OBVIOUS
  <2>5. PageIn(rows, below)
    BY <2>3, <2>4, PageIs
  <2>6. PICK after : after = IF Len(rows) = PAGE_SIZE THEN Last(rows) ELSE 0
    OBVIOUS
  <2>7. FeedAnswer(q, cursor) = [rows |-> rows, next |-> after]
    BY <1>1, <1>3, <2>1, <2>2, <2>4, <2>6 DEF FeedAnswer
  <2>8. Finds("") = In(feed)
    <3>1. DOMAIN feed = 1..Len(feed)
      BY <1>2, LenProperties DEF Descends
    <3> QED BY <1>1, <3>1 DEF Finds, Range, In
  <2>9. Descends(rows) /\ In(rows) \subseteq In(feed)
    BY <2>3, <2>5 DEF PageIn, Within
  <2>10. \A x \in In(feed) : x < cursor => x \in In(below)
    BY <1>3, <2>1, <2>3, <2>8
  <2>11. /\ after \in Nat /\ after < next
         /\ after # 0 => after \in In(rows)
         /\ \A x \in In(below) : x \in In(rows) \/ (after # 0 /\ x < after)
    <3>1. CASE Len(rows) = PAGE_SIZE
      <4>1. after \in In(rows) /\ \A x \in In(below) : x \in In(rows) \/ x < after
        BY <2>5, <2>6, <3>1 DEF PageIn
      <4>2. after \in In(feed) /\ after \in Nat
        BY <1>2, <2>9, <4>1, ElementOfSeq DEF In, Descends
      <4> QED BY <1>2, <4>1, <4>2
    <3>2. CASE Len(rows) # PAGE_SIZE
      BY <1>2, <2>5, <2>6, <3>2 DEF PageIn
    <3> QED BY <3>1, <3>2
  <2>12. Once(rows)
    BY <2>9, DescendsOnce
  <2>13. Brought([rows |-> rows, next |-> after], q, cursor, server)
    BY <1>1, <1>2, <1>3, <2>9, <2>10, <2>11, <2>12 DEF Brought
  <2> QED BY <2>7, <2>13
<1>4. CASE q # ""
  <2>1. PICK S : S = Finds(q)
    OBVIOUS
  <2>2. PICK found : found = Sifted(feed, S)
    OBVIOUS
  <2>3. Descends(found) /\ In(found) \subseteq S /\ In(found) \subseteq In(feed)
    BY <1>2, <2>2, SiftedDescends
  <2>4. PICK n \in Nat : n = Len(found)
    BY <2>3, LenProperties DEF Descends
  <2>5. PICK a \in Nat \ {0} : a = cursor + 1
    OBVIOUS
  <2>6. PICK rest : rest = SubSeq(found, a, n)
    OBVIOUS
  <2>7. Within(rest, found)
    <3>1. RunOf(SubSeq(found, a, n), found, a, n)
      BY <2>3, <2>4, RunDescends
    <3> QED BY <2>6, <3>1 DEF RunOf
  <2>8. PICK rows : rows = PageOf(rest)
    OBVIOUS
  <2>9. PageIn(rows, rest)
    BY <2>7, <2>8, PageIs DEF Within
  <2>10. PICK after \in Nat : after = IF Len(rows) = PAGE_SIZE THEN cursor + PAGE_SIZE ELSE 0
    BY DEF PAGE_SIZE
  <2>11. FeedAnswer(q, cursor) = [rows |-> rows, next |-> after]
    BY <1>1, <1>4, <2>1, <2>2, <2>4, <2>5, <2>6, <2>8, <2>10 DEF FeedAnswer, Found
  <2>12. Once(rows) /\ In(rows) \subseteq S /\ In(rows) \subseteq In(feed)
    BY <2>3, <2>7, <2>9, DescendsOnce DEF PageIn, Within
  <2>13. 2 \notin S
    BY <1>4, <2>1 DEF Finds
  <2>14. Brought([rows |-> rows, next |-> after], q, cursor, server)
    BY <1>1, <1>2, <1>4, <2>12, <2>13 DEF Brought
  <2> QED BY <2>11, <2>14
<1> QED BY <1>3, <1>4

LEMMA IsBelow == \A x, y \in Nat : x <= y /\ x # y => x < y
OBVIOUS
LEMMA StaysBelow == \A x, y, z \in Nat : x < y /\ (y < z \/ y <= z) => x < z
OBVIOUS

(* What changes neither the list nor what is asked for. *)
LEMMA FeedTurns ==
    ASSUME FeedBody, UNCHANGED <<server, calls>>, FeedTypes(ui'), ui'.debounced = ui.debounced,
           ui'.items = ui.items, ui'.cursor = ui.cursor, ui'.loading = ui.loading, ui'.done = ui.done,
           ui'.since = ui.since
    PROVE  FeedBody'
<1>1. Browsed(ui', server')
  BY DEF FeedBody, Browsed
<1>2. \A c \in Slots : FeedCall(calls[c], ui', server)
  BY DEF FeedBody, FeedCall
<1> QED BY <1>1, <1>2 DEF FeedBody, CallsShape, Slots, AsksPage

LEMMA FeedDebounced ==
    ASSUME FeedBody, Debounce
    PROVE  FeedBody'
<1>1. PICK d \in Slots : /\ Late(d) = Free
                         /\ calls' = [c \in Slots |-> IF c = d THEN FeedReq("first", ui.query, 0) ELSE Late(c)]
  BY DEF Debounce
<1>2. PICK q, empty, request, items :
        /\ q = ui.query /\ empty = {} /\ request = FeedReq("first", ui.query, 0) /\ items = <<>>
  OBVIOUS
<1>3. ui' = [ui EXCEPT !.debounced = q, !.items = items, !.cursor = 0, !.done = FALSE,
                       !.err = FALSE, !.first = FALSE, !.loading = TRUE]
  BY <1>2 DEF Debounce, Page
<1>4. /\ ui' = [f \in FeedFields |-> ui'[f]] /\ ui'.query = ui.query /\ ui'.debounced = q
      /\ ui'.items = items /\ ui'.cursor = 0 /\ ui'.since = ui.since
      /\ ui'.loading = TRUE /\ ui'.done = FALSE
  <2>1. ui = [f \in FeedFields |-> ui[f]]
    BY DEF FeedBody, FeedTypes
  <2> QED BY <1>3, <2>1 DEF FeedFields
<1>5. ui'.loading \in BOOLEAN /\ ui'.loading /\ ui'.done \in BOOLEAN /\ ~ui'.done
  BY <1>4
<1>6. Once(items) /\ In(items) = {}
  <2>1. items \in Seq(Nat) /\ Len(items) = 0
    BY <1>2
  <2> QED BY <2>1 DEF Once, In
<1>7. FeedTypes(ui') /\ q \in Queries
  <2>1. q \in Queries /\ ui.query \in Queries /\ ui.since \subseteq Nat
    BY <1>2 DEF FeedBody, FeedTypes
  <2>2. 0 \in Nat /\ 2 \notin In(items)
    BY <1>6
  <2> QED BY <1>4, <1>5, <1>6, <2>1, <2>2 DEF FeedTypes
<1>8. server' = server /\ Slots' = Slots
  BY DEF Debounce, Only, Slots
<1>9. /\ IsCall(request) /\ request # Free /\ request.op = "first" /\ request.arg.q = q
      /\ request.arg.cursor = 0 /\ request.at = "sent"
  BY <1>2 DEF FeedReq, Request, IsCall, Free
<1>10. ASSUME NEW c \in Slots
       PROVE  /\ IsCall(Late(c)) /\ FeedCall(Late(c), ui', server)
              /\ Late(c) # Free => Late(c).op = "late"
  <2>1. PICK r : r = calls[c]
    OBVIOUS
  <2>2. IsCall(r) /\ FeedCall(r, ui, server)
    BY <2>1 DEF FeedBody, CallsShape
  <2>3. CASE r.op = "more" /\ r # Free
    <3>1. PICK late : late = [r EXCEPT !.op = "late"]
      OBVIOUS
    <3>2. late = [op |-> "late", arg |-> r.arg, at |-> r.at, got |-> r.got]
      BY <2>2, <2>3, <3>1 DEF IsCall
    <3>3. Late(c) = late
      BY <2>1, <2>3, <3>1 DEF Late
    <3>4. IsCall(late) /\ late.op = "late" /\ late.arg = r.arg /\ late.at = r.at /\ late.got = r.got
      BY <3>2 DEF IsCall
    <3> QED BY <2>2, <2>3, <3>3, <3>4 DEF FeedCall
  <2>4. CASE r = Free
    BY <2>1, <2>4 DEF Late, Free, IsCall, FeedCall
  <2>5. CASE r # Free /\ r.op # "more"
    BY <2>1, <2>2, <2>5 DEF Late, FeedCall, IsCall
  <2> QED BY <2>3, <2>4, <2>5
<1>11. calls'[d] = request /\ \A c \in Slots \ {d} : calls'[c] = Late(c)
  BY <1>1, <1>2
<1>12. CallsShape'
  <2>1. calls' = [c \in Slots |-> calls'[c]]
    BY <1>1
  <2>2. \A c \in Slots : IsCall(calls'[c])
    BY <1>9, <1>10, <1>11
  <2> QED BY <1>8, <2>1, <2>2 DEF CallsShape, IsCall
<1>13. FeedCall(request, ui', server)
  BY <1>4, <1>5, <1>7, <1>9 DEF FeedCall
<1>14. \A c \in Slots : FeedCall(calls'[c], ui', server)
  BY <1>10, <1>11, <1>13
<1>15. AsksPage(d)' /\ \A c \in Slots : AsksPage(c)' => c = d
  BY <1>9, <1>10, <1>11 DEF AsksPage, Free
<1>16. Browsed(ui', server)
  <2>1. 0 < server.next
    BY DEF FeedBody, FeedHeld
  <2>2. \A x \in ui.since : x < server.next
    BY DEF FeedBody, Browsed
  <2> QED BY <1>4, <1>5, <2>1, <2>2 DEF Browsed
<1> QED BY <1>5, <1>7, <1>8, <1>12, <1>14, <1>15, <1>16 DEF FeedBody

(* A page that was out has been received: no other is. *)
LEMMA PageReceived ==
    ASSUME FeedBody, NEW c \in Slots, AsksPage(c), Done(c), UNCHANGED server,
           FeedTypes(ui'), Browsed(ui', server), ui'.loading = FALSE
    PROVE  FeedBody'
<1>1. CallsShape' /\ calls'[c] = Free /\ \A d \in Slots \ {c} : calls'[d] = calls[d]
  BY DoneLeaves, LeftOut DEF FeedBody
<1>2. \A d \in Slots : ~AsksPage(d)'
  BY <1>1 DEF FeedBody, AsksPage, Free
<1>3. \A d \in Slots : FeedCall(calls'[d], ui', server)
  <2> SUFFICES ASSUME NEW d \in Slots, calls'[d] # Free PROVE FeedCall(calls'[d], ui', server)
    BY DEF FeedCall
  <2>1. calls'[d] = calls[d] /\ FeedCall(calls[d], ui, server) /\ ~AsksPage(d)'
    BY <1>1, <1>2 DEF FeedBody
  <2>2. calls[d].op = "late"
    BY <2>1 DEF FeedCall, AsksPage
  <2> QED BY <2>1, <2>2 DEF FeedCall
<1> QED BY <1>1, <1>2, <1>3 DEF FeedBody, Slots

LEMMA FirstComes ==
    ASSUME FeedBody, NEW c \in Slots, FirstAnswered(c)
    PROVE  FeedBody'
<1>1. /\ AsksPage(c) /\ Done(c) /\ UNCHANGED server /\ calls[c].op = "first" /\ calls[c] # Free
      /\ FeedTypes(ui) /\ Browsed(ui, server) /\ FeedHeld(server)
  BY DEF FirstAnswered, Back, Ok, Failed, AsksPage, Only, FeedBody, Free
<1>2. PICK got : got = calls[c].got
  OBVIOUS
<1>3. CASE Ok(c, "first")
  <2>1. Brought(got, ui.debounced, 0, server)
    BY <1>1, <1>2, <1>3 DEF FeedBody, FeedCall, Ok
  <2>2. PICK rows, next : rows = got.rows /\ next = got.next
    OBVIOUS
  <2>3. PICK since : since = Range(rows) \cup {s \in Range(server.feed) : s <= next}
    OBVIOUS
  <2>4. PICK done \in BOOLEAN : done <=> next = 0
    OBVIOUS
  <2>5. done = (next = 0)
    BY <2>4
  <2>6. ui' = [ui EXCEPT !.items = rows, !.cursor = next, !.done = done, !.loading = FALSE, !.first = TRUE,
                         !.since = since]
    BY <1>2, <1>3, <2>2, <2>3, <2>5 DEF FirstAnswered, Page
  <2>7. /\ ui' = [f \in FeedFields |-> ui'[f]] /\ ui'.query = ui.query /\ ui'.debounced = ui.debounced
        /\ ui'.items = rows /\ ui'.cursor = next /\ ui'.done = done /\ ui'.since = since
        /\ ui'.loading = FALSE
    BY <1>1, <2>6 DEF FeedTypes, FeedFields
  <2>8. FeedTypes(ui')
    <3>1. ui'.loading \in BOOLEAN
      BY <2>7
    <3>2. ui.debounced = "q" => 2 \notin In(rows)
      BY <2>1, <2>2 DEF Brought
    <3>3. since \subseteq Nat
      <4>1. rows \in Seq(Nat) /\ server.feed \in Seq(Nat)
        BY <1>1, <2>1, <2>2 DEF Brought, Once, FeedHeld, Descends
      <4>2. Range(rows) \subseteq Nat
        BY <4>1, LenProperties, ElementOfSeq DEF Range
      <4>3. Range(server.feed) \subseteq Nat
        BY <4>1, LenProperties, ElementOfSeq DEF Range
      <4> QED BY <2>3, <4>2, <4>3
    <3> QED BY <1>1, <2>1, <2>2, <2>7, <3>1, <3>2, <3>3 DEF FeedTypes, Brought
  <2>9. /\ \A x \in since : x < server.next
        /\ ui.debounced = "" =>
               /\ next < server.next
               /\ done => \A x \in since : x \in In(server.feed) => x \in In(rows)
               /\ next # 0 => \A x \in since : x \in In(server.feed) => x \in In(rows) \/ x < next
    <3>1. Range(rows) = In(rows)
      <4>1. rows \in Seq(Nat)
        BY <2>1, <2>2 DEF Brought, Once
      <4> QED BY <4>1, LenProperties DEF Range, In
    <3>2. next \in Nat /\ \A x \in In(rows) : x < server.next
      BY <2>1, <2>2 DEF Brought
    <3>3. ui.debounced = "" => next < server.next /\ (next # 0 => next \in In(rows))
      BY <2>1, <2>2 DEF Brought
    <3>4. \A x \in In(server.feed) : x \in Nat /\ 0 < x /\ x < server.next
      BY <1>1, ElementOfSeq DEF FeedHeld, Descends, In
    <3>5. Range(server.feed) = In(server.feed)
      <4>1. server.feed \in Seq(Nat)
        BY <1>1 DEF FeedHeld, Descends
      <4> QED BY <4>1, LenProperties DEF Range, In
    <3>6. \A x \in since : x \in In(rows) \/ (x \in In(server.feed) /\ x <= next)
      BY <2>3, <3>1, <3>5
    <3>7. \A x \in since : x < server.next
      BY <3>2, <3>4, <3>6
    <3>8. done => \A x \in since : x \in In(rows)
      BY <2>4, <3>4, <3>6
    <3>9. ui.debounced = "" /\ next # 0 => \A x \in since : x \in In(rows) \/ x < next
      <4> SUFFICES ASSUME ui.debounced = "", next # 0, NEW x \in since, x \notin In(rows) PROVE x < next
        OBVIOUS
      <4>1. x \in In(server.feed) /\ x <= next
        BY <3>6
      <4>2. x # next
        BY <3>3
      <4>3. x \in Nat /\ next \in Nat
        BY <3>2, <3>4, <4>1
      <4> QED BY <4>1, <4>2, <4>3, IsBelow
    <3> QED BY <3>3, <3>7, <3>8, <3>9
  <2>10. Browsed(ui', server)
    BY <2>7, <2>9 DEF Browsed
  <2> QED BY <1>1, <2>7, <2>8, <2>10, PageReceived
<1>4. CASE ~Ok(c, "first")
  <2>1. ui' = [ui EXCEPT !.err = TRUE, !.loading = FALSE, !.first = TRUE]
    BY <1>4 DEF FirstAnswered, Page
  <2>2. /\ ui' = [f \in FeedFields |-> ui'[f]] /\ ui'.query = ui.query /\ ui'.debounced = ui.debounced
        /\ ui'.items = ui.items /\ ui'.cursor = ui.cursor /\ ui'.done = ui.done /\ ui'.since = ui.since
        /\ ui'.loading = FALSE
    BY <1>1, <2>1 DEF FeedTypes, FeedFields
  <2>3. ui'.loading \in BOOLEAN
    BY <2>2
  <2>4. FeedTypes(ui') /\ Browsed(ui', server)
    BY <1>1, <2>2, <2>3 DEF FeedTypes, Browsed
  <2> QED BY <1>1, <2>2, <2>4, PageReceived
<1> QED BY <1>3, <1>4

LEMMA MoreAsked ==
    ASSUME FeedBody, LoadMoreFeed
    PROVE  FeedBody'
<1>1. PICK arg : arg = [q |-> ui.debounced, cursor |-> ui.cursor]
  OBVIOUS
<1>2. PICK r : r = Request("more", arg)
  OBVIOUS
<1>3. PICK s \in Slots : TakenBy(s, r)
  <2>1. Fetch("more", arg) /\ CallsShape
    BY <1>1 DEF LoadMoreFeed, FeedReq, Fetch, FeedBody
  <2> QED BY <1>2, <2>1, FetchTakes
<1>4. r # Free /\ r.op = "more" /\ r.arg = arg /\ r.at = "sent"
  BY <1>2 DEF Request, Free
<1>5. CallsShape' /\ calls'[s] = r /\ \A d \in Slots \ {s} : calls'[d] = calls[d]
  BY <1>3, <1>4, TakenOut
<1>6. /\ ui' = [ui EXCEPT !.loading = TRUE] /\ UNCHANGED server
      /\ ui.loading \in BOOLEAN /\ ~ui.loading /\ ~ui.done /\ ui.cursor # 0
      /\ FeedTypes(ui) /\ Browsed(ui, server)
  BY DEF LoadMoreFeed, Page, Only, FeedBody, FeedTypes
<1>7. /\ ui' = [f \in FeedFields |-> ui'[f]] /\ ui'.query = ui.query /\ ui'.debounced = ui.debounced
      /\ ui'.items = ui.items /\ ui'.cursor = ui.cursor /\ ui'.done = ui.done /\ ui'.since = ui.since
      /\ ui'.loading = TRUE
  BY <1>6 DEF FeedTypes, FeedFields
<1>8. ui'.loading \in BOOLEAN /\ ui'.loading
  BY <1>7
<1>9. FeedTypes(ui') /\ Browsed(ui', server)
  BY <1>6, <1>7, <1>8 DEF FeedTypes, Browsed
<1>10. \A d \in Slots : ~AsksPage(d)
  BY <1>6 DEF FeedBody
<1>11. FeedCall(r, ui', server)
  BY <1>1, <1>4, <1>6, <1>7 DEF FeedCall, FeedTypes
<1>12. \A d \in Slots : FeedCall(calls'[d], ui', server)
  <2> SUFFICES ASSUME NEW d \in Slots, d # s PROVE FeedCall(calls[d], ui', server)
    BY <1>5, <1>11
  <2> QED BY <1>7 DEF FeedBody, FeedCall
<1>13. AsksPage(s)' /\ \A d \in Slots : AsksPage(d)' => d = s
  BY <1>4, <1>5, <1>10 DEF AsksPage
<1> QED BY <1>5, <1>6, <1>8, <1>9, <1>12, <1>13 DEF FeedBody, Slots

LEMMA MoreComes ==
    ASSUME FeedBody, NEW c \in Slots, MoreAnswered(c)
    PROVE  FeedBody'
<1>1. /\ Done(c) /\ UNCHANGED server /\ calls[c].op \in {"more", "late"} /\ calls[c] # Free
      /\ calls[c].at \in {"ok", "failed"} /\ FeedCall(calls[c], ui, server)
      /\ FeedTypes(ui) /\ Browsed(ui, server) /\ FeedHeld(server)
  BY DEF MoreAnswered, Back, Ok, Failed, Only, FeedBody, Free
<1>2. PICK got : got = calls[c].got
  OBVIOUS
<1>3. CASE calls[c].op = "late"
  <2>1. ui' = ui /\ ~AsksPage(c)
    BY <1>3 DEF MoreAnswered, Page, AsksPage
  <2>2. CallsShape' /\ calls'[c] = Free /\ \A d \in Slots \ {c} : calls'[d] = calls[d]
    BY <1>1, DoneLeaves, LeftOut DEF FeedBody
  <2>3. \A d \in Slots : FeedCall(calls'[d], ui', server) /\ (AsksPage(d)' <=> AsksPage(d))
    BY <2>1, <2>2 DEF FeedBody, FeedCall, AsksPage, Free
  <2> QED BY <1>1, <2>1, <2>2, <2>3 DEF FeedBody, Slots
<1>4. CASE calls[c].op = "more" /\ got = Nothing
  <2>1. AsksPage(c) /\ ui' = [ui EXCEPT !.loading = FALSE]
    BY <1>2, <1>4 DEF MoreAnswered, Page, AsksPage
  <2>2. /\ ui' = [f \in FeedFields |-> ui'[f]] /\ ui'.query = ui.query /\ ui'.debounced = ui.debounced
        /\ ui'.items = ui.items /\ ui'.cursor = ui.cursor /\ ui'.done = ui.done /\ ui'.since = ui.since
        /\ ui'.loading = FALSE
    BY <1>1, <2>1 DEF FeedTypes, FeedFields
  <2>3. ui'.loading \in BOOLEAN
    BY <2>2
  <2>4. FeedTypes(ui') /\ Browsed(ui', server)
    BY <1>1, <2>2, <2>3 DEF FeedTypes, Browsed
  <2> QED BY <1>1, <2>1, <2>2, <2>4, PageReceived
<1>5. CASE calls[c].op = "more" /\ got # Nothing
  <2>1. AsksPage(c)
    BY <1>5 DEF AsksPage
  <2>2. Brought(got, ui.debounced, ui.cursor, server) /\ ui.cursor # 0
    BY <1>1, <1>2, <1>5 DEF FeedCall
  <2>3. PICK rows, next : rows = got.rows /\ next = got.next
    OBVIOUS
  <2>4. PICK items : items = ui.items \o Sifted(rows, Range(rows) \ Range(ui.items))
    OBVIOUS
  <2>5. Once(items) /\ In(items) = In(ui.items) \cup In(rows)
    <3>1. Joins(ui.items \o Sifted(rows, Range(rows) \ Range(ui.items)), ui.items, rows)
      BY <1>1, <2>2, <2>3, AddedOnce DEF FeedTypes, Brought
    <3> QED BY <2>4, <3>1 DEF Joins
  <2>6. PICK done \in BOOLEAN : done <=> next = 0
    OBVIOUS
  <2>7. done = (next = 0)
    BY <2>6
  <2>8. ui' = [ui EXCEPT !.items = items, !.cursor = next, !.done = done, !.loading = FALSE]
    BY <1>2, <1>5, <2>3, <2>4, <2>7 DEF MoreAnswered, Page, Added
  <2>9. /\ ui' = [f \in FeedFields |-> ui'[f]] /\ ui'.query = ui.query /\ ui'.debounced = ui.debounced
        /\ ui'.items = items /\ ui'.cursor = next /\ ui'.done = done /\ ui'.since = ui.since
        /\ ui'.loading = FALSE
    BY <1>1, <2>8 DEF FeedTypes, FeedFields
  <2>10. FeedTypes(ui')
    <3>1. ui'.loading \in BOOLEAN
      BY <2>9
    <3>2. ui.debounced = "q" => 2 \notin In(items)
      BY <1>1, <2>2, <2>3, <2>5 DEF Brought, FeedTypes
    <3> QED BY <1>1, <2>2, <2>3, <2>5, <2>9, <3>1, <3>2 DEF FeedTypes, Brought
  <2>11. ASSUME ui.debounced = ""
         PROVE  /\ next < server.next
                /\ done => \A x \in ui.since : x \in In(server.feed) => x \in In(items)
                /\ next # 0 => \A x \in ui.since : x \in In(server.feed) => x \in In(items) \/ x < next
    <3>1. \A x \in ui.since : x \in In(server.feed) => x \in In(ui.items) \/ x < ui.cursor
      BY <1>1, <2>2, <2>11 DEF Browsed
    <3>2. /\ next < server.next
          /\ \A x \in In(server.feed) : x < ui.cursor => x \in In(rows) \/ (next # 0 /\ x < next)
      BY <2>2, <2>3, <2>11 DEF Brought
    <3> QED BY <2>5, <2>6, <3>1, <3>2
  <2>12. Browsed(ui', server)
    BY <1>1, <2>9, <2>11 DEF Browsed
  <2> QED BY <1>1, <2>1, <2>9, <2>10, <2>12, PageReceived
<1> QED BY <1>1, <1>3, <1>4, <1>5

(* A request that is settled, by the API or by a failure. *)
LEMMA FeedSettles ==
    ASSUME FeedBody, NEW c \in Slots, NEW at, NEW got, SettledAs(c, at, got), calls[c] # Free,
           UNCHANGED <<ui, server>>, at \in {"ok", "failed"}, at = "failed" => got = Nothing,
           at = "ok" => Brought(got, calls[c].arg.q, calls[c].arg.cursor, server)
    PROVE  FeedBody'
<1>1. FeedCall(calls[c], ui, server) /\ calls[c].op \in {"first", "more", "late"}
  BY DEF FeedBody, FeedCall
<1>2. /\ CallsShape' /\ calls'[c].op = calls[c].op /\ calls'[c].arg = calls[c].arg
      /\ calls'[c].at = at /\ calls'[c].got = got
      /\ \A d \in Slots \ {c} : calls'[d] = calls[d]
  BY <1>1, SettledOut
<1>3. FeedCall(calls'[c], ui, server)
  BY <1>1, <1>2 DEF FeedCall
<1>4. \A d \in Slots : FeedCall(calls'[d], ui, server) /\ (AsksPage(d)' <=> AsksPage(d))
  BY <1>2, <1>3 DEF FeedBody, AsksPage
<1> QED BY <1>2, <1>4 DEF FeedBody, Slots

(* Others publish, or withdraw what they published. *)
LEMMA FeedMoves ==
    ASSUME FeedBody, UNCHANGED <<ui, calls>>, FeedHeld(server'), server.next <= server'.next,
           \A x \in In(server'.feed) : x \in In(server.feed) \/ x = server.next
    PROVE  FeedBody'
<1>1. PICK old, new : old = server /\ new = server'
  OBVIOUS
<1>2. FeedHeld(old) /\ FeedHeld(new) /\ FeedTypes(ui) /\ Browsed(ui, old)
  BY <1>1 DEF FeedBody
<1>3. PICK before, after : /\ before = old.next /\ after = new.next
                          /\ before \in Nat /\ after \in Nat /\ before <= after
  BY <1>1, <1>2 DEF FeedHeld
<1>4. \A x \in In(new.feed) : x \in Nat
  <2>1. new.feed \in Seq(Nat)
    BY <1>2 DEF FeedHeld, Descends
  <2> QED BY <2>1, ElementOfSeq DEF In
<1>5. \A x \in In(new.feed) : x < before => x \in In(old.feed)
  BY <1>1, <1>3, <1>4
<1>6. Browsed(ui, new)
  <2>1. \A x \in ui.since : x < before
    BY <1>2, <1>3 DEF Browsed
  <2>2. \A x \in ui.since : x \in In(new.feed) => x \in In(old.feed)
    BY <1>5, <2>1
  <2>3. \A x \in ui.since : x < after
    BY <1>2, <1>3, <2>1 DEF FeedTypes
  <2>4. ui.debounced = "" => ui.cursor < after
    <3>1. ui.cursor \in Nat /\ (ui.debounced = "" => ui.cursor < before)
      BY <1>2, <1>3 DEF Browsed, FeedTypes
    <3> QED BY <1>3, <3>1, StaysBelow
  <2> QED BY <1>2, <1>3, <2>2, <2>3, <2>4 DEF Browsed
<1>7. ASSUME NEW got, NEW q, NEW cursor \in Nat, Brought(got, q, cursor, old), q = "" => cursor < before
      PROVE  Brought(got, q, cursor, new)
  <2>1. PICK rows, next : rows = got.rows /\ next = got.next
    OBVIOUS
  <2>2. /\ Once(rows) /\ next \in Nat /\ \A x \in In(rows) : x < before
        /\ q = "" => /\ next < before
                     /\ \A x \in In(old.feed) : x < cursor => x \in In(rows) \/ (next # 0 /\ x < next)
    BY <1>3, <1>7, <2>1 DEF Brought
  <2>3. \A x \in In(rows) : x \in Nat
    <3>1. rows \in Seq(Nat)
      BY <2>2 DEF Once
    <3> QED BY <3>1, ElementOfSeq DEF In
  <2>4. /\ \A x \in In(rows) : x < after
        /\ q = "" => next < after
    <3>1. \A x \in In(rows) : x < after
      <4> SUFFICES ASSUME NEW x \in In(rows) PROVE x < after
        OBVIOUS
      <4>1. x \in Nat /\ x < before
        BY <2>2, <2>3
      <4> QED BY <1>3, <4>1, StaysBelow
    <3>2. ASSUME q = "" PROVE next < after
      <4>1. next \in Nat /\ next < before
        BY <2>2, <3>2
      <4> QED BY <1>3, <4>1
    <3> QED BY <3>1, <3>2
  <2>5. ASSUME q = "", NEW x \in In(new.feed), x < cursor
        PROVE  x \in In(rows) \/ (next # 0 /\ x < next)
    <3>1. x \in Nat /\ cursor < before
      BY <1>4, <1>7, <2>5
    <3>2. x < before
      <4>1. cursor \in Nat /\ x < cursor
        BY <2>5
      <4> QED BY <1>3, <3>1, <4>1, StaysBelow
    <3>3. x \in In(old.feed)
      BY <1>5, <2>5, <3>2
    <3> QED BY <2>2, <2>5, <3>3
  <2> QED BY <1>3, <1>7, <2>1, <2>4, <2>5 DEF Brought
<1>8. \A c \in Slots : FeedCall(calls[c], ui, new)
  BY <1>1, <1>2, <1>3, <1>7 DEF FeedBody, FeedCall, Browsed
<1> QED BY <1>1, <1>2, <1>6, <1>8 DEF FeedBody, CallsShape, Slots, AsksPage

LEMMA FeedKeeps ==
    ASSUME FeedBody, FeedNext \/ (\E c \in Slots : Fail(c)) \/ UNCHANGED vars
    PROVE  FeedBody'
<1>1. CASE UNCHANGED vars
  BY <1>1, FeedTurns DEF vars, FeedBody
<1>2. ASSUME NEW c \in Slots, Fail(c) PROVE FeedBody'
  <2>1. SettledAs(c, "failed", Nothing) /\ UNCHANGED <<ui, server>> /\ calls[c] # Free
    BY <1>2, FailSettles DEF FeedBody
  <2> QED BY <2>1, FeedSettles
<1>3. ASSUME NEW q \in Queries, TypeQuery(q) PROVE FeedBody'
  <2>1. ui' = [ui EXCEPT !.query = q] /\ UNCHANGED <<server, calls>> /\ FeedTypes(ui)
    BY <1>3 DEF TypeQuery, Page, Only, FeedBody
  <2>2. /\ ui' = [f \in FeedFields |-> ui'[f]] /\ ui'.query = q /\ ui'.debounced = ui.debounced
        /\ ui'.items = ui.items /\ ui'.cursor = ui.cursor /\ ui'.done = ui.done /\ ui'.since = ui.since
        /\ ui'.loading = ui.loading
    BY <2>1 DEF FeedTypes, FeedFields
  <2>3. FeedTypes(ui')
    BY <2>1, <2>2 DEF FeedTypes
  <2> QED BY <2>1, <2>2, <2>3, FeedTurns
<1>4. ASSUME NEW a, PickAgentTab(a) PROVE FeedBody'
  <2>1. ui' = [ui EXCEPT !.agent = a] /\ UNCHANGED <<server, calls>> /\ FeedTypes(ui)
    BY <1>4 DEF PickAgentTab, Page, Only, FeedBody
  <2>2. /\ ui' = [f \in FeedFields |-> ui'[f]] /\ ui'.query = ui.query /\ ui'.debounced = ui.debounced
        /\ ui'.items = ui.items /\ ui'.cursor = ui.cursor /\ ui'.done = ui.done /\ ui'.since = ui.since
        /\ ui'.loading = ui.loading
    BY <2>1 DEF FeedTypes, FeedFields
  <2>3. FeedTypes(ui')
    BY <2>1, <2>2 DEF FeedTypes
  <2> QED BY <2>1, <2>2, <2>3, FeedTurns
<1>5. ASSUME NEW c \in Slots, ServeFeed(c) PROVE FeedBody'
  <2>1. /\ calls[c] # Free /\ calls[c].op # "none" /\ UNCHANGED <<ui, server>>
        /\ calls[c].arg.q \in Queries /\ calls[c].arg.cursor \in Nat
        /\ Answer(c, FeedAnswer(calls[c].arg.q, calls[c].arg.cursor))
    BY <1>5 DEF ServeFeed, Only, FeedBody, FeedCall, Free
  <2>2. PICK got : got = FeedAnswer(calls[c].arg.q, calls[c].arg.cursor)
    OBVIOUS
  <2>3. SettledAs(c, "ok", got)
    BY <2>1, <2>2, AnswerSettles DEF FeedBody
  <2>4. Brought(got, calls[c].arg.q, calls[c].arg.cursor, server)
    BY <2>1, <2>2, FeedAnswered DEF FeedBody
  <2> QED BY <2>1, <2>3, <2>4, FeedSettles
<1>6. CASE FeedElsewhere
  <2>1. PICK feed, next : feed = server.feed /\ next = server.next
    OBVIOUS
  <2>2. /\ server = [feed |-> feed, next |-> next] /\ Descends(feed) /\ next \in Nat \ {0}
        /\ \A x \in In(feed) : x \in Nat /\ 0 < x /\ x < next
    <3>1. /\ server = [feed |-> feed, next |-> next] /\ Descends(feed) /\ next \in Nat \ {0}
          /\ \A x \in In(feed) : 0 < x /\ x < next
      BY <2>1 DEF FeedBody, FeedHeld
    <3>2. feed \in Seq(Nat)
      BY <3>1 DEF Descends
    <3>3. \A x \in In(feed) : x \in Nat
      BY <3>2, ElementOfSeq DEF In
    <3> QED BY <3>1, <3>3
  <2>3. CASE Elsewhere([feed |-> <<server.next>> \o server.feed, next |-> server.next + 1])
    <3>1. PICK more : more = <<next>> \o feed
      OBVIOUS
    <3>2. Descends(more) /\ In(more) = In(feed) \cup {next}
      <4>1. Heads(next, <<next>> \o feed, feed)
        BY <2>2, PublishedDescends
      <4> QED BY <3>1, <4>1 DEF Heads
    <3>3. server' = [feed |-> more, next |-> next + 1] /\ UNCHANGED <<ui, calls>>
      BY <2>1, <2>3, <3>1 DEF Elsewhere
    <3>4. server'.feed = more /\ server'.next = next + 1 /\ server' = [feed |-> server'.feed, next |-> server'.next]
      BY <3>3
    <3>5. FeedHeld(server')
      BY <2>2, <3>2, <3>4 DEF FeedHeld
    <3> QED BY <2>1, <2>2, <3>2, <3>3, <3>4, <3>5, FeedMoves
  <2>4. ASSUME NEW k \in DOMAIN server.feed, Elsewhere([server EXCEPT !.feed = RemoveAt(server.feed, k)])
        PROVE  FeedBody'
    <3>1. PICK left : left = RemoveAt(feed, k)
      OBVIOUS
    <3>2. Descends(left) /\ In(left) \subseteq In(feed)
      <4>1. Within(RemoveAt(feed, k), feed)
        BY <2>1, <2>2, <2>4, WithdrawnDescends
      <4> QED BY <3>1, <4>1 DEF Within
    <3>3. server' = [server EXCEPT !.feed = left] /\ UNCHANGED <<ui, calls>>
      BY <2>1, <2>4, <3>1 DEF Elsewhere
    <3>4. server'.feed = left /\ server'.next = next /\ server' = [feed |-> server'.feed, next |-> server'.next]
      BY <2>2, <3>3
    <3>5. FeedHeld(server')
      BY <2>2, <3>2, <3>4 DEF FeedHeld
    <3> QED BY <2>1, <2>2, <3>2, <3>3, <3>4, <3>5, FeedMoves
  <2> QED BY <1>6, <2>3, <2>4 DEF FeedElsewhere
<1> QED BY <1>1, <1>2, <1>3, <1>4, <1>5, <1>6, FeedDebounced, MoreAsked, FirstComes, MoreComes DEF FeedNext

LEMMA FeedHolds ==
    /\ Init => FeedInv
    /\ FeedInv /\ [Next]_vars => FeedInv'
    /\ FeedInv => LoadingIsOut /\ ItemsAreOfTheQuery /\ BrowsingSkipsNothing
<1>1. Init => FeedInv
  BY InitOn, FeedStarts DEF FeedInv
<1>2. FeedInv /\ [Next]_vars => FeedInv'
  BY NextOn, FeedKeeps, PagesStay DEF FeedInv, OnFeed
<1>3. FeedInv => LoadingIsOut
  <2> SUFFICES ASSUME FeedBody PROVE ui.loading <=> OutAs("first") \cup OutAs("more") # {}
    BY DEF FeedInv, LoadingIsOut
  <2>1. \A c \in Slots : AsksPage(c) <=> c \in OutAs("first") \cup OutAs("more")
    BY DEF AsksPage, OutAs
  <2>2. OutAs("first") \cup OutAs("more") \subseteq Slots
    BY DEF OutAs
  <2> QED BY <2>1, <2>2 DEF FeedBody
<1>4. FeedInv => ItemsAreOfTheQuery
  <2> SUFFICES ASSUME FeedBody PROVE (ui.debounced = "q" => ~Contains(ui.items, 2)) /\ IsInjective(ui.items)
    BY DEF FeedInv, ItemsAreOfTheQuery
  <2>1. Once(ui.items) /\ (ui.debounced = "q" => 2 \notin In(ui.items))
    BY DEF FeedBody, FeedTypes
  <2>2. DOMAIN ui.items = 1..Len(ui.items)
    BY <2>1, LenProperties DEF Once
  <2> QED BY <2>1, <2>2 DEF Once, In, Contains, IsInjective
<1>5. FeedInv => BrowsingSkipsNothing
  <2> SUFFICES ASSUME FeedBody, ui.debounced = "", ui.done, NEW x \in ui.since, Contains(server.feed, x)
               PROVE  Contains(ui.items, x)
    BY DEF FeedInv, BrowsingSkipsNothing
  <2>1. x \in In(server.feed)
    BY DEF Contains, In
  <2>2. x \in In(ui.items)
    BY <2>1 DEF FeedBody, Browsed
  <2> QED BY <2>2 DEF Contains, In
<1> QED BY <1>1, <1>2, <1>3, <1>4, <1>5

(* Browsing to the end skips no session that was published when it began    *)
(* and still is, and repeats none, however many are published or withdrawn  *)
(* between the pages.                                                       *)
THEOREM FeedSkipsNothing == Spec => []BrowsingSkipsNothing
<1>1. Init => FeedInv
  BY FeedHolds
<1>2. FeedInv /\ [Next]_vars => FeedInv'
  BY FeedHolds
<1>3. FeedInv => BrowsingSkipsNothing
  BY FeedHolds
<1> QED BY <1>1, <1>2, <1>3, PTL DEF Spec

(* What a page lists, offers, asks or leaves for is of what was asked last. *)
THEOREM AnswersAlwaysFit == Spec => []AnswersFitTheQuestion
<1> DEFINE Inv == UsersInv /\ FeedInv /\ NewInv /\ SideShowsInv /\ PaletteInv /\ GateInv /\ LandingInv
<1>1. Init => Inv
  BY UsersHolds, FeedHolds, NewHolds, SideShowsHolds, PaletteHolds, GateHolds, LandingHolds
<1>2. Inv /\ [Next]_vars => Inv'
  BY UsersHolds, FeedHolds, NewHolds, SideShowsHolds, PaletteHolds, GateHolds, LandingHolds
<1>3. Inv => AnswersFitTheQuestion
  BY UsersHolds, FeedHolds, NewHolds, SideShowsHolds, PaletteHolds, GateHolds, LandingHolds
     DEF AnswersFitTheQuestion
<1> QED BY <1>1, <1>2, <1>3, PTL DEF Spec
=============================================================================
