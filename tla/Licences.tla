------------------------------ MODULE Licences ------------------------------
(***************************************************************************)
(* The licence worker: webhooks that mint, refund and revoke keys, keys    *)
(* issued by hand and for free, keys sent again, and the devices that a    *)
(* key activates.  Every await on the database or the mailer is a step, so *)
(* calls interleave there; a call may be cut off at any of them, and the   *)
(* payment provider delivers an event again, and in any order.             *)
(***************************************************************************)
EXTENDS Integers, FiniteSets, Sequences, FiniteSetsExt

CONSTANTS
    Calls,        \* requests that run at a time
    Payments,     \* payments of one buyer
    Cart,         \* the products of each payment, a sequence
    Devices,      \* Macs
    Kinds,        \* kinds of requests, a subset of AllKinds
    DeviceLimit,  \* limits.devices of a key
    RateLimit,    \* keys sent again an hour, free keys asked for a day
    DayHours,     \* hours of a day
    MaxLicences,  \* licences minted, over a behaviour
    MaxCuts       \* calls cut off, over a behaviour

Products == {"pocketai-mac", "ls-pro"}
AllKinds == {"payment", "refund", "dispute", "issue", "free", "resend", "activate", "deactivate"}
Limited == {"free", "resend"}
Webhooks == {"payment", "refund", "dispute"}

ASSUME LicencesAssumption ==
    /\ Cart \in [Payments -> Seq(Products)] /\ Kinds \subseteq AllKinds
    /\ {DeviceLimit, RateLimit, DayHours} \subseteq Nat \ {0} /\ {MaxLicences, MaxCuts} \subseteq Nat
    /\ IsFiniteSet(Calls) /\ IsFiniteSet(Devices)


VARIABLES
    licenses,     \* the table, a set of rows
    events,       \* webhook events recorded as handled
    activations,  \* pairs of a licence and a device
    resends,      \* requests counted in this hour, by kind
    earlier,      \* free keys counted earlier in the day, and still on record
    erased,       \* free keys of the day whose rows a resend has deleted
    hours,        \* hours of the day that are over
    emailed,      \* ids of the licences whose keys were sent
    calls,        \* the requests that run
    cuts

windows == <<resends, earlier, erased, hours>>
vars == <<licenses, events, activations, windows, emailed, calls, cuts>>

None == "none"
ASSUME NoneAssumption == None \notin Payments

Requests == [kind : Kinds \cap Webhooks, of : Payments]
     \cup [kind : Kinds \cap {"issue", "free", "resend"}, of : {None}]
     \cup [kind : Kinds \cap {"activate", "deactivate"}, of : 1..MaxLicences, device : Devices]

Idle == [pc |-> "idle"]
At(c, pc) == calls[c].pc = pc
Kind(c) == calls[c].req.kind
Goes(c, call) == calls' = [calls EXCEPT ![c] = call]
Ends(c) == Goes(c, Idle)
To(c, pc) == Goes(c, [calls[c] EXCEPT !.pc = pc])
Keeps(v) == UNCHANGED <<v, cuts>>

OfPayment(p) == {l \in licenses : l.payment = p}
Active == {l \in licenses : l.status = "active"}
Ids(rows) == {l.id : l \in rows}
DevicesOf(id) == {d \in Devices : <<id, d>> \in activations}

Init ==
    /\ licenses = {} /\ events = {} /\ activations = {} /\ emailed = {}
    /\ resends = [k \in Limited |-> 0] /\ earlier = 0 /\ erased = 0 /\ hours = 0
    /\ calls = [c \in Calls |-> Idle] /\ cuts = 0

(* A request arrives, signed or authorised.                                 *)
FirstPc(kind) ==
    CASE kind \in Webhooks -> "event" [] kind \in Limited -> "limit"
      [] kind = "issue" -> "stack" [] OTHER -> "licence"
CartOf(req) ==
    CASE req.kind = "payment" -> Cart[req.of] [] req.kind = "issue" -> <<"ls-pro">>
      [] req.kind = "free" -> <<"pocketai-mac">> [] OTHER -> <<>>
Receive(c, req) ==
    /\ At(c, "idle")
    /\ Goes(c, [pc |-> FirstPc(req.kind), req |-> req, cart |-> CartOf(req), base |-> 0, keys |-> {}])
    /\ Keeps(<<licenses, events, activations, windows, emailed>>)

(* A webhook that was handled is answered again.                            *)
(* Mutated form: it is recorded before it is handled.                       *)
CheckEvent_Records(c) ==
    /\ At(c, "event") /\ events' = events \cup {calls[c].req}
    /\ IF calls[c].req \in events THEN Ends(c)
       ELSE To(c, IF Kind(c) # "payment" THEN "status" ELSE IF calls[c].cart = <<>> THEN "keys" ELSE "stack")
    /\ Keeps(<<licenses, activations, windows, emailed>>)
CheckEvent(c) ==
    /\ At(c, "event")
    /\ IF calls[c].req \in events THEN Ends(c)
       ELSE To(c, IF Kind(c) # "payment" THEN "status" ELSE IF calls[c].cart = <<>> THEN "keys" ELSE "stack")
    /\ Keeps(<<licenses, events, activations, windows, emailed>>)

(* issue: an ls-pro licence of a year starts where the buyer's last active  *)
(* one ends.  The years a key has run are left out.                         *)
Stack(c) ==
    /\ At(c, "stack")
    /\ LET years == {l.expiry : l \in {m \in Active : m.product = "ls-pro"}} \cup {0}
       IN Goes(c, [calls[c] EXCEPT !.pc = "insert", !.base = Max(years)])
    /\ Keeps(<<licenses, events, activations, windows, emailed>>)

(* INSERT OR IGNORE: one key per provider, payment and product.             *)
(* Mutated forms: the constraint is forgotten, or on the product alone, or  *)
(* a row is replaced.                                                       *)
Minted(c) ==
    [id |-> Cardinality(licenses) + 1, product |-> Head(calls[c].cart), provider |-> Kind(c),
     payment |-> calls[c].req.of, status |-> "active",
     expiry |-> IF Kind(c) # "free" /\ Head(calls[c].cart) = "ls-pro" THEN calls[c].base + 1 ELSE 0]
Same(l, m) == l.payment # None /\ [l EXCEPT !.id = 0, !.status = None, !.expiry = 0]
                                    = [m EXCEPT !.id = 0, !.status = None, !.expiry = 0]
Inserted_Again(lic) == licenses \cup {lic}
Inserted_PerProduct(lic) ==
    IF \E l \in licenses : l.product = lic.product THEN licenses ELSE licenses \cup {lic}
Inserted_Replace(lic) == {IF Same(l, lic) THEN [l EXCEPT !.status = "active"] ELSE l : l \in licenses}
                           \cup (IF \E l \in licenses : Same(l, lic) THEN {} ELSE {lic})
Inserted(lic) == IF \E l \in licenses : Same(l, lic) THEN licenses ELSE licenses \cup {lic}
Insert(c) ==
    /\ At(c, "insert") /\ Cardinality(Inserted(Minted(c))) <= MaxLicences
    /\ licenses' = Inserted(Minted(c))
    /\ LET rest == Tail(calls[c].cart) IN
         Goes(c, [calls[c] EXCEPT
           !.cart = rest,
           !.pc = IF rest # <<>> THEN "stack" ELSE IF Kind(c) = "payment" THEN "keys" ELSE "send",
           !.keys = IF Kind(c) = "payment" THEN {} ELSE {Minted(c).id}])
    /\ Keeps(<<events, activations, windows, emailed>>)

(* The keys to send: all of the payment, or what the buyer holds.           *)
Keys(c) ==
    /\ At(c, "keys")
    /\ Goes(c, [calls[c] EXCEPT !.pc = "send",
         !.keys = Ids(IF Kind(c) = "payment" THEN OfPayment(calls[c].req.of) ELSE Active)])
    /\ Keeps(<<licenses, events, activations, windows, emailed>>)

(* sendKeys, and what follows it.                                           *)
Send(c) ==
    /\ At(c, "send") /\ emailed' = emailed \cup calls[c].keys
    /\ IF Kind(c) = "payment" THEN To(c, "record") ELSE Ends(c)
    /\ Keeps(<<licenses, events, activations, windows>>)

(* The event is recorded when all of its work is done.                      *)
Record(c) ==
    /\ At(c, "record") /\ events' = events \cup {calls[c].req} /\ Ends(c)
    /\ Keeps(<<licenses, activations, windows, emailed>>)

SetStatus(c) ==
    /\ At(c, "status")
    /\ licenses' = {IF l.payment = calls[c].req.of
                      THEN [l EXCEPT !.status = IF Kind(c) = "refund" THEN "refunded" ELSE "revoked"]
                      ELSE l : l \in licenses}
    /\ To(c, "record") /\ Keeps(<<events, activations, windows, emailed>>)

(* The rate limits: counted, then added to.  Keys are sent again so often   *)
(* an hour, free keys given so often a day; both count rows of one table.   *)
Counted(kind) == resends[kind] + (IF kind = "free" THEN earlier ELSE 0)
Passes(kind) == Counted(kind) < RateLimit
CheckLimit(c) ==
    /\ At(c, "limit")
    /\ IF Passes(Kind(c)) THEN To(c, "count") ELSE Ends(c)
    /\ Keeps(<<licenses, events, activations, windows, emailed>>)
Count(c) ==
    /\ At(c, "count") /\ resends' = [resends EXCEPT ![Kind(c)] = @ + 1]
    /\ To(c, IF Kind(c) = "free" THEN "existing" ELSE "purge")
    /\ Keeps(<<licenses, events, activations, earlier, erased, hours, emailed>>)

(* A resend deletes the rows that are an hour old, of free keys too.        *)
(* Mutated form: it deletes every row.                                      *)
Purge_All(c) ==
    /\ At(c, "purge") /\ erased' = erased + Counted("free") /\ earlier' = 0
    /\ resends' = [k \in Limited |-> 0]
    /\ To(c, "keys") /\ Keeps(<<licenses, events, activations, hours, emailed>>)
Purge(c) ==
    /\ At(c, "purge") /\ erased' = erased + earlier /\ earlier' = 0
    /\ To(c, "keys") /\ Keeps(<<licenses, events, activations, resends, hours, emailed>>)

(* The windows slide; here hours and days are told apart whole.             *)
HourPasses ==
    /\ hours + 1 < DayHours /\ \E k \in Limited : resends[k] > 0
    /\ resends' = [k \in Limited |-> 0] /\ earlier' = earlier + resends["free"]
    /\ hours' = hours + 1
    /\ UNCHANGED <<licenses, events, activations, erased, emailed, calls, cuts>>
DayPasses ==
    /\ hours > 0 /\ resends' = [k \in Limited |-> 0]
    /\ earlier' = 0 /\ erased' = 0 /\ hours' = 0
    /\ UNCHANGED <<licenses, events, activations, emailed, calls, cuts>>

(* A free key that is active is given again.                                *)
FreeKeys == {l \in Active : l.provider = "free"}
Existing(c) ==
    /\ At(c, "existing")
    /\ IF FreeKeys # {} THEN Ends(c) ELSE To(c, "insert")
    /\ Keeps(<<licenses, events, activations, windows, emailed>>)

(* actPreflight: the key is one that was issued for a Mac and is active.    *)
Usable(id) == \E l \in Active : l.id = id /\ l.product = "pocketai-mac"
Licence(c) ==
    /\ At(c, "licence")
    /\ IF Usable(calls[c].req.of)
         THEN To(c, IF Kind(c) = "activate" THEN "devices" ELSE "remove")
         ELSE Ends(c)
    /\ Keeps(<<licenses, events, activations, windows, emailed>>)

(* A device that is known, or one more while there is room.                 *)
(* Mutated form: one too many.                                              *)
HasRoom_OneMore(id) == Cardinality(DevicesOf(id)) <= DeviceLimit
HasRoom(id) == Cardinality(DevicesOf(id)) < DeviceLimit
ReadDevices(c) ==
    /\ At(c, "devices")
    /\ IF calls[c].req.device \in DevicesOf(calls[c].req.of) THEN To(c, "touch")
       ELSE IF HasRoom(calls[c].req.of) THEN To(c, "register") ELSE Ends(c)
    /\ Keeps(<<licenses, events, activations, windows, emailed>>)
Touch(c) ==
    At(c, "touch") /\ Ends(c) /\ Keeps(<<licenses, events, activations, windows, emailed>>)

(* A second row of a device is refused by the key of the table.             *)
Register(c) ==
    /\ At(c, "register")
    /\ activations' = activations \cup {<<calls[c].req.of, calls[c].req.device>>}
    /\ Ends(c) /\ Keeps(<<licenses, events, windows, emailed>>)
Deactivate(c) ==
    /\ At(c, "remove")
    /\ activations' = activations \ {<<calls[c].req.of, calls[c].req.device>>}
    /\ Ends(c) /\ Keeps(<<licenses, events, windows, emailed>>)

(* The database or the mailer fails, or the worker is stopped.              *)
Cut(c) ==
    /\ ~At(c, "idle") /\ cuts < MaxCuts /\ cuts' = cuts + 1 /\ Ends(c)
    /\ UNCHANGED <<licenses, events, activations, windows, emailed>>

Next ==
    \/ HourPasses \/ DayPasses
    \/ \E c \in Calls :
         \/ \E req \in Requests : Receive(c, req)
         \/ CheckEvent(c) \/ Stack(c) \/ Insert(c) \/ Keys(c) \/ Send(c) \/ Record(c) \/ SetStatus(c)
         \/ CheckLimit(c) \/ Count(c) \/ Purge(c) \/ Existing(c)
         \/ Licence(c) \/ ReadDevices(c) \/ Touch(c) \/ Register(c) \/ Deactivate(c) \/ Cut(c)

Spec == Init /\ [][Next]_vars
-----------------------------------------------------------------------------
TypeOK ==
    /\ licenses \subseteq [id : 1..MaxLicences, product : Products, provider : AllKinds,
                           payment : Payments \cup {None}, expiry : 0..MaxLicences,
                           status : {"active", "refunded", "revoked"}]
    /\ activations \subseteq (1..MaxLicences) \X Devices /\ emailed \subseteq Ids(licenses)
    /\ events \subseteq Requests

(* However often, and however many at a time, a payment is delivered, it    *)
(* has one key for each of its products.                                    *)
OneKeyPerProduct ==
    \A l, m \in licenses :
      (l.payment # None /\ l.payment = m.payment /\ l.product = m.product) => l = m

(* A payment that will not be delivered again has its keys, and they were   *)
(* sent: whatever failed on the way.                                        *)
HandledIsSent ==
    \A e \in events : e.kind = "payment" =>
      \A k \in DOMAIN Cart[e.of] :
        \E l \in OfPayment(e.of) : l.product = Cart[e.of][k] /\ l.id \in emailed

(* A key that was taken back stays so, and stays on the published list: a   *)
(* payment that is delivered late does not revive it.                       *)
TakenBackIsFinal ==
    [][Ids(licenses \ Active) \subseteq Ids(licenses' \ Active')]_vars

(* Calls that overlap pass a limit by less than their number.  The limit on *)
(* the free keys of a day holds for those whose rows are kept; a resend     *)
(* that deletes rows allows as many again, but once for each hour that is   *)
(* over, because the rows of the last hour stay.                            *)
Allowance == RateLimit + Cardinality(Calls) - 1
OvershootIsBounded ==
    /\ \A k \in Limited : Counted(k) <= Allowance
    /\ erased <= hours * Allowance
    /\ \A l \in licenses : Cardinality(DevicesOf(l.id)) <= DeviceLimit + Cardinality(Calls) - 1
=============================================================================
