--------------------------- MODULE Licences_proofs ---------------------------
(***************************************************************************)
(* Theorems about Licences, for any payments and carts, any number of      *)
(* calls at a time and any limits.                                         *)
(***************************************************************************)
EXTENDS Licences, FiniteSetTheorems, WellFoundedInduction, TLAPS

USE LicencesAssumption, NoneAssumption

-----------------------------------------------------------------------------
(* The inductive invariant: what the calls hold, ... *)

PCs == {"event", "stack", "insert", "keys", "send", "record", "status", "limit", "count", "purge",
        "existing", "licence", "devices", "touch", "register", "remove"}

(* A call that runs carries its request, what is left of its cart and the   *)
(* keys it will send.                                                       *)
Running(call) ==
    /\ call = [pc |-> call.pc, req |-> call.req, cart |-> call.cart, base |-> call.base, keys |-> call.keys]
    /\ call.pc \in PCs /\ call.req \in Requests /\ call.cart \in Seq(Products)

CallsOK == calls = [c \in Calls |-> calls[c]] /\ \A c \in Calls : At(c, "idle") \/ Running(calls[c])

(* ... which rows there are: those of a payment were minted for one, ... *)
IsRow(l) == l = [id |-> l.id, product |-> l.product, provider |-> l.provider, payment |-> l.payment,
                 status |-> l.status, expiry |-> l.expiry]
RowsOK == \A l \in licenses : IsRow(l) /\ (l.payment # None => l.provider = "payment")

(* ... and how far a delivery of a payment has come. *)
Has(p, product, ids) == \E l \in licenses : l.payment = p /\ l.product = product /\ l.id \in ids
HasKey(p, product) == \E l \in licenses : l.payment = p /\ l.product = product

Progress(c) ==
    (~At(c, "idle") /\ Kind(c) = "payment") =>
      LET p == calls[c].req.of IN
        \A k \in DOMAIN Cart[p] :
          /\ calls[c].pc \in {"event", "stack", "insert"} =>
               HasKey(p, Cart[p][k]) \/ \E j \in DOMAIN calls[c].cart : calls[c].cart[j] = Cart[p][k]
          /\ At(c, "keys") => HasKey(p, Cart[p][k])
          /\ At(c, "send") => Has(p, Cart[p][k], calls[c].keys)
          /\ At(c, "record") => Has(p, Cart[p][k], emailed)

(* A call is where its kind can be. *)
Places(c) ==
    ~At(c, "idle") =>
      /\ calls[c].pc \in {"stack", "insert"} => Kind(c) \in {"payment", "issue", "free"}
      /\ At(c, "event") => Kind(c) \in Webhooks
      /\ At(c, "status") => Kind(c) \in {"refund", "dispute"}
      /\ At(c, "existing") => Kind(c) = "free"
      /\ calls[c].pc \in {"stack", "insert"} => calls[c].cart # <<>>
      /\ calls[c].pc \in {"limit", "count", "purge"} => Kind(c) \in Limited
      /\ (calls[c].pc \in {"limit", "count", "existing"} /\ Kind(c) = "free") =>
           calls[c].cart = <<"pocketai-mac">>
      /\ At(c, "event") => calls[c].cart = CartOf(calls[c].req)

IInv ==
    /\ CallsOK /\ RowsOK /\ OneKeyPerProduct /\ HandledIsSent
    /\ \A c \in Calls : Progress(c) /\ Places(c)

-----------------------------------------------------------------------------
(* Lemmas: the steps of one call leave the others, and its request, alone. *)

LEMMA GoesOne ==
    ASSUME CallsOK, NEW c \in Calls, NEW call, Goes(c, call),
           call.pc = "idle" \/ Running(call)
    PROVE  CallsOK' /\ calls'[c] = call /\ \A d \in Calls \ {c} : calls'[d] = calls[d]
<1>1. calls' = [d \in Calls |-> IF d = c THEN call ELSE calls[d]]
  BY DEF CallsOK, Goes
<1>2. calls'[c] = call /\ \A d \in Calls \ {c} : calls'[d] = calls[d]
  BY <1>1
<1>3. calls' = [d \in Calls |-> calls'[d]]
  BY <1>1
<1>4. \A d \in Calls : At(d, "idle")' \/ Running(calls'[d])
  BY <1>2 DEF CallsOK, At
<1> QED BY <1>2, <1>3, <1>4 DEF CallsOK

LEMMA ToOne ==
    ASSUME CallsOK, NEW c \in Calls, NEW pc \in PCs, ~At(c, "idle"), To(c, pc)
    PROVE  /\ CallsOK' /\ \A d \in Calls \ {c} : calls'[d] = calls[d]
           /\ At(c, pc)' /\ Running(calls'[c])
           /\ calls'[c].req = calls[c].req /\ calls'[c].cart = calls[c].cart
           /\ calls'[c].keys = calls[c].keys
<1> DEFINE call == [calls[c] EXCEPT !.pc = pc]
<1>1. Running(calls[c])
  BY DEF CallsOK
<1>2. /\ Running(call) /\ call.pc = pc /\ call.req = calls[c].req /\ call.cart = calls[c].cart
      /\ call.keys = calls[c].keys
  BY <1>1 DEF Running
<1>3. Goes(c, call)
  BY DEF To
<1>4. CallsOK' /\ calls'[c] = call /\ \A d \in Calls \ {c} : calls'[d] = calls[d]
  <2> HIDE DEF call
  <2> QED BY <1>2, <1>3, GoesOne
<1> QED BY <1>2, <1>4 DEF At

(* Rows are never removed, and keep all but their status; what was emailed  *)
(* stays so.  A call that does not move keeps what it has achieved.         *)
Grows ==
    /\ emailed \subseteq emailed'
    /\ \A l \in licenses : \E m \in licenses' :
         m.id = l.id /\ m.product = l.product /\ m.payment = l.payment

LEMMA StillHas ==
    ASSUME Grows, NEW p, NEW product, NEW ids, NEW more, ids \subseteq more
    PROVE  /\ HasKey(p, product) => HasKey(p, product)'
           /\ Has(p, product, ids) => \E l \in licenses' : l.payment = p /\ l.product = product /\ l.id \in more
<1> QED BY DEF Grows, HasKey, Has

LEMMA OthersKeep ==
    ASSUME Grows, NEW c \in Calls, calls'[c] = calls[c], Progress(c), Places(c)
    PROVE  Progress(c)' /\ Places(c)'
<1>1. Places(c)'
  BY DEF Places, At, Kind
<1>2. Progress(c)'
  <2> SUFFICES ASSUME ~At(c, "idle"), Kind(c) = "payment", NEW k \in DOMAIN Cart[calls[c].req.of]
               PROVE  LET p == calls[c].req.of IN
                        /\ calls[c].pc \in {"event", "stack", "insert"} =>
                             HasKey(p, Cart[p][k])' \/ \E j \in DOMAIN calls[c].cart : calls[c].cart[j] = Cart[p][k]
                        /\ At(c, "keys") => HasKey(p, Cart[p][k])'
                        /\ At(c, "send") => Has(p, Cart[p][k], calls[c].keys)'
                        /\ At(c, "record") => Has(p, Cart[p][k], emailed)'
    BY DEF Progress, At, Kind
  <2> DEFINE p == calls[c].req.of
  <2>1. HasKey(p, Cart[p][k]) => HasKey(p, Cart[p][k])'
    BY DEF Grows, HasKey
  <2>2. Has(p, Cart[p][k], calls[c].keys) => Has(p, Cart[p][k], calls[c].keys)'
    BY DEF Grows, Has
  <2>3. Has(p, Cart[p][k], emailed) => Has(p, Cart[p][k], emailed)'
    BY DEF Grows, Has
  <2> QED BY <2>1, <2>2, <2>3 DEF Progress
<1> QED BY <1>1, <1>2

LEMMA StaysHandled ==
    ASSUME Grows, HandledIsSent, NEW e \in events, e.kind = "payment", NEW k \in DOMAIN Cart[e.of]
    PROVE  \E l \in OfPayment(e.of)' : l.product = Cart[e.of][k] /\ l.id \in emailed'
<1>1. PICK l \in OfPayment(e.of) : l.product = Cart[e.of][k] /\ l.id \in emailed
  BY DEF HandledIsSent
<1>2. PICK m \in licenses' : m.id = l.id /\ m.product = l.product /\ m.payment = l.payment
  BY <1>1 DEF Grows, OfPayment
<1> QED BY <1>1, <1>2 DEF Grows, OfPayment

(* What is left to show of a step of c. *)
LEMMA StepOfOne ==
    ASSUME IInv, NEW c \in Calls, Grows, CallsOK', RowsOK', OneKeyPerProduct',
           \A d \in Calls \ {c} : calls'[d] = calls[d], Progress(c)', Places(c)',
           \A e \in events' \ events : e.kind = "payment" =>
             \A k \in DOMAIN Cart[e.of] : Has(e.of, Cart[e.of][k], emailed)'
    PROVE  IInv'
<1>1. \A d \in Calls : Progress(d)' /\ Places(d)'
  BY OthersKeep DEF IInv
<1>2. HandledIsSent'
  <2> SUFFICES ASSUME NEW e \in events', e.kind = "payment", NEW k \in DOMAIN Cart[e.of]
               PROVE  \E l \in OfPayment(e.of)' : l.product = Cart[e.of][k] /\ l.id \in emailed'
    BY DEF HandledIsSent
  <2>1. CASE e \in events
    BY <2>1, StaysHandled DEF IInv
  <2>2. CASE e \notin events
    BY <2>2 DEF Has, OfPayment
  <2> QED BY <2>1, <2>2
<1> QED BY <1>1, <1>2 DEF IInv

(* Most steps leave the table, the mail and the events alone. *)
LEMMA StepOfOneCall ==
    ASSUME IInv, NEW c \in Calls, UNCHANGED <<licenses, events, emailed>>, CallsOK',
           \A d \in Calls \ {c} : calls'[d] = calls[d], Progress(c)', Places(c)'
    PROVE  IInv'
<1>1. Grows /\ RowsOK' /\ OneKeyPerProduct' /\ events' \ events = {}
  BY DEF Grows, RowsOK, OneKeyPerProduct, IInv
<1> QED BY <1>1, StepOfOne

LEMMA IdleHolds ==
    ASSUME NEW c \in Calls, calls'[c] = Idle
    PROVE  Progress(c)' /\ Places(c)'
<1> QED BY DEF Progress, Places, At, Idle

LEMMA EndsKeeps ==
    ASSUME IInv, NEW c \in Calls, Ends(c)
    PROVE  /\ CallsOK' /\ Progress(c)' /\ Places(c)'
           /\ \A d \in Calls \ {c} : calls'[d] = calls[d]
<1>1. Idle.pc = "idle"
  BY DEF Idle
<1>2. Goes(c, Idle) /\ CallsOK
  BY DEF Ends, IInv
<1>3. CallsOK' /\ calls'[c] = Idle /\ \A d \in Calls \ {c} : calls'[d] = calls[d]
  BY <1>1, <1>2, GoesOne
<1> QED BY <1>3, IdleHolds

-----------------------------------------------------------------------------
(* The steps, one by one. *)

LEMMA RequestTypes ==
    ASSUME NEW req \in Requests
    PROVE  /\ req.kind \in AllKinds
           /\ req.kind = "payment" => req.of \in Payments
           /\ req.kind \in Webhooks => req.of \in Payments
           /\ req.kind \in {"issue", "free"} => req.of = None
           /\ CartOf(req) \in Seq(Products)
<1>1. req.kind \in AllKinds
  BY DEF Requests
<1>2. /\ req.kind \in Webhooks => req.of \in Payments
      /\ req.kind \in {"issue", "free"} => req.of = None
  BY DEF Requests, Webhooks
<1>3. req.kind = "payment" => req.of \in Payments
  BY <1>2 DEF Webhooks
<1>4. CartOf(req) \in Seq(Products)
  <2>1. CASE req.kind = "payment"
    BY <2>1, <1>3 DEF CartOf
  <2>2. CASE req.kind # "payment"
    <3>1. CartOf(req) \in {<<>>, <<"ls-pro">>, <<"pocketai-mac">>}
      BY <2>2 DEF CartOf
    <3>2. <<>> \in Seq(Products) /\ <<"ls-pro">> \in Seq(Products) /\ <<"pocketai-mac">> \in Seq(Products)
      BY DEF Products
    <3> QED BY <3>1, <3>2
  <2> QED BY <2>1, <2>2
<1> QED BY <1>1, <1>2, <1>3, <1>4

LEMMA ReceiveStep ==
    ASSUME IInv, NEW c \in Calls, NEW req \in Requests, Receive(c, req)
    PROVE  IInv'
<1> DEFINE call == [pc |-> FirstPc(req.kind), req |-> req, cart |-> CartOf(req), base |-> 0, keys |-> {}]
<1>1. call.pc \in PCs /\ req.kind \in AllKinds
  BY RequestTypes DEF FirstPc, PCs
<1>2. Running(call)
  BY <1>1, RequestTypes DEF Running
<1>3. CallsOK' /\ calls'[c] = call /\ \A d \in Calls \ {c} : calls'[d] = calls[d]
  <2>1. Goes(c, call) /\ CallsOK
    BY DEF Receive, IInv
  <2> HIDE DEF call
  <2> QED BY <1>2, <2>1, GoesOne
<1>4. /\ calls'[c].req = req /\ calls'[c].pc = FirstPc(req.kind) /\ calls'[c].cart = CartOf(req)
      /\ FirstPc(req.kind) # "idle"
  BY <1>1, <1>3 DEF PCs
<1>5. Progress(c)'
  <2>1. req.kind = "payment" => FirstPc(req.kind) = "event"
    BY DEF FirstPc, Webhooks, Limited
  <2>2. req.kind = "payment" => CartOf(req) = Cart[req.of]
    BY DEF CartOf
  <2> QED BY <1>4, <2>1, <2>2 DEF Progress, At, Kind
<1>6. Places(c)'
  <2>1. /\ FirstPc(req.kind) \notin {"insert", "status", "existing", "count", "purge"}
        /\ FirstPc(req.kind) = "stack" => req.kind = "issue"
        /\ FirstPc(req.kind) = "event" => req.kind \in Webhooks
        /\ FirstPc(req.kind) = "limit" => req.kind \in Limited
    BY DEF FirstPc, Webhooks, Limited
  <2>2. /\ req.kind = "issue" => CartOf(req) # <<>>
        /\ req.kind = "free" => CartOf(req) = <<"pocketai-mac">>
    BY DEF CartOf
  <2> QED BY <1>4, <2>1, <2>2 DEF Places, At, Kind
<1>7. UNCHANGED <<licenses, events, emailed>>
  BY DEF Receive, Keeps
<1> QED BY <1>3, <1>5, <1>6, <1>7, StepOfOneCall

(* A call that ends, and nothing else. *)
LEMMA EndStep ==
    ASSUME IInv, NEW c \in Calls, Ends(c), UNCHANGED <<licenses, events, emailed>>
    PROVE  IInv'
<1> QED BY EndsKeeps, StepOfOneCall

(* A call goes on to where no delivery of a payment is, and nothing else. *)
LEMMA MoveStep ==
    ASSUME IInv, NEW c \in Calls, NEW pc \in PCs, ~At(c, "idle"), To(c, pc),
           Kind(c) # "payment" \/ pc \in {"status", "limit", "count", "purge", "devices", "touch", "register", "remove"},
           UNCHANGED <<licenses, events, emailed>>,
           pc \notin {"stack", "insert", "event"},
           pc = "status" => Kind(c) \in {"refund", "dispute"},
           pc = "existing" => Kind(c) = "free",
           pc \in {"limit", "count", "purge"} => Kind(c) \in Limited,
           (pc \in {"limit", "count", "existing"} /\ Kind(c) = "free") => calls[c].cart = <<"pocketai-mac">>
    PROVE  IInv'
<1>1. CallsOK
  BY DEF IInv
<1>2. /\ CallsOK' /\ \A d \in Calls \ {c} : calls'[d] = calls[d]
      /\ At(c, pc)' /\ calls'[c].req = calls[c].req /\ calls'[c].cart = calls[c].cart
  BY <1>1, ToOne
<1>3. Progress(c)' /\ Places(c)'
  BY <1>2 DEF Progress, Places, At, Kind
<1> QED BY <1>2, <1>3, StepOfOneCall

LEMMA CheckEventStep ==
    ASSUME IInv, NEW c \in Calls, CheckEvent(c)
    PROVE  IInv'
<1>1. UNCHANGED <<licenses, events, emailed>> /\ At(c, "event") /\ ~At(c, "idle")
  BY DEF CheckEvent, Keeps, At
<1>2. CallsOK /\ Places(c) /\ Progress(c)
  BY DEF IInv
<1>3. CASE calls[c].req \in events
  BY <1>1, <1>3, EndStep DEF CheckEvent
<1>4. CASE calls[c].req \notin events /\ Kind(c) # "payment"
  <2>1. To(c, "status") /\ Kind(c) \in {"refund", "dispute"}
    BY <1>1, <1>2, <1>4 DEF CheckEvent, Places, Webhooks
  <2> QED BY <1>1, <1>4, <2>1, MoveStep DEF PCs
<1>5. CASE calls[c].req \notin events /\ Kind(c) = "payment"
  <2>1. PICK pc \in {"keys", "stack"} : To(c, pc) /\ (pc = "keys" <=> calls[c].cart = <<>>)
    BY <1>5 DEF CheckEvent
  <2>2. /\ CallsOK' /\ \A d \in Calls \ {c} : calls'[d] = calls[d]
        /\ At(c, pc)' /\ calls'[c].req = calls[c].req /\ calls'[c].cart = calls[c].cart
    BY <1>1, <1>2, <2>1, ToOne DEF PCs
  <2>3. \A k \in DOMAIN Cart[calls[c].req.of] :
          LET p == calls[c].req.of IN
            \/ HasKey(p, Cart[p][k])
            \/ \E j \in DOMAIN calls[c].cart : calls[c].cart[j] = Cart[p][k]
    BY <1>1, <1>2, <1>5 DEF Progress, At
  <2>4. \A p, product : HasKey(p, product)' <=> HasKey(p, product)
    BY <1>1 DEF HasKey
  <2>5. Progress(c)'
    <3>1. CASE calls[c].cart = <<>>
      BY <1>5, <2>1, <2>2, <2>3, <2>4, <3>1 DEF Progress, At, Kind
    <3>2. CASE calls[c].cart # <<>>
      BY <1>5, <2>1, <2>2, <2>3, <2>4, <3>2 DEF Progress, At, Kind
    <3> QED BY <3>1, <3>2
  <2>6. Places(c)'
    BY <1>5, <2>1, <2>2 DEF Places, At, Kind
  <2> QED BY <1>1, <2>2, <2>5, <2>6, StepOfOneCall
<1> QED BY <1>3, <1>4, <1>5

(* Fields of the record of a call, assigned. *)
LEMMA AssignBase ==
    ASSUME NEW call, Running(call), NEW pc, NEW base
    PROVE  [call EXCEPT !.pc = pc, !.base = base]
             = [pc |-> pc, req |-> call.req, cart |-> call.cart, base |-> base, keys |-> call.keys]
<1>1. PICK one : one = [call EXCEPT !.pc = pc]
  OBVIOUS
<1>2. one = [pc |-> pc, req |-> call.req, cart |-> call.cart, base |-> call.base, keys |-> call.keys]
  BY <1>1 DEF Running
<1>3. [call EXCEPT !.pc = pc, !.base = base] = [one EXCEPT !.base = base]
  BY <1>1
<1> QED BY <1>2, <1>3

LEMMA AssignKeys ==
    ASSUME NEW call, Running(call), NEW pc, NEW keys
    PROVE  [call EXCEPT !.pc = pc, !.keys = keys]
             = [pc |-> pc, req |-> call.req, cart |-> call.cart, base |-> call.base, keys |-> keys]
<1>1. PICK one : one = [call EXCEPT !.pc = pc]
  OBVIOUS
<1>2. one = [pc |-> pc, req |-> call.req, cart |-> call.cart, base |-> call.base, keys |-> call.keys]
  BY <1>1 DEF Running
<1>3. [call EXCEPT !.pc = pc, !.keys = keys] = [one EXCEPT !.keys = keys]
  BY <1>1
<1> QED BY <1>2, <1>3

LEMMA AssignThree ==
    ASSUME NEW call, Running(call), NEW pc, NEW cart, NEW keys
    PROVE  [call EXCEPT !.cart = cart, !.pc = pc, !.keys = keys]
             = [pc |-> pc, req |-> call.req, cart |-> cart, base |-> call.base, keys |-> keys]
<1>1. PICK one, two : one = [call EXCEPT !.cart = cart] /\ two = [one EXCEPT !.pc = pc]
  OBVIOUS
<1>2. one = [pc |-> call.pc, req |-> call.req, cart |-> cart, base |-> call.base, keys |-> call.keys]
  BY <1>1 DEF Running
<1>3. two = [pc |-> pc, req |-> call.req, cart |-> cart, base |-> call.base, keys |-> call.keys]
  BY <1>1, <1>2
<1>4. [call EXCEPT !.cart = cart, !.pc = pc, !.keys = keys] = [two EXCEPT !.keys = keys]
  BY <1>1
<1> QED BY <1>3, <1>4

LEMMA StackStep ==
    ASSUME IInv, NEW c \in Calls, Stack(c)
    PROVE  IInv'
<1>1. PICK base : Goes(c, [calls[c] EXCEPT !.pc = "insert", !.base = base])
  BY DEF Stack
<1>2. UNCHANGED <<licenses, events, emailed>> /\ At(c, "stack") /\ ~At(c, "idle")
  BY DEF Stack, Keeps, At
<1>3. CallsOK /\ Running(calls[c]) /\ Places(c) /\ Progress(c)
  BY <1>2 DEF IInv, CallsOK
<1>4. PICK call : call = [pc |-> "insert", req |-> calls[c].req, cart |-> calls[c].cart,
                          base |-> base, keys |-> calls[c].keys]
  OBVIOUS
<1>5. Running(call) /\ call.pc = "insert" /\ call.req = calls[c].req /\ call.cart = calls[c].cart
  BY <1>3, <1>4 DEF Running, PCs
<1>6. [calls[c] EXCEPT !.pc = "insert", !.base = base] = call
  BY <1>3, <1>4, AssignBase
<1>7. /\ CallsOK' /\ \A d \in Calls \ {c} : calls'[d] = calls[d]
      /\ calls'[c].pc = "insert" /\ calls'[c].req = calls[c].req /\ calls'[c].cart = calls[c].cart
  <2>1. Goes(c, call)
    BY <1>1, <1>6
  <2> QED BY <1>3, <1>5, <2>1, GoesOne
<1>8. \A p, product : HasKey(p, product)' <=> HasKey(p, product)
  BY <1>2 DEF HasKey
<1>9. Progress(c)'
  BY <1>2, <1>3, <1>7, <1>8 DEF Progress, At, Kind
<1>10. Places(c)'
  BY <1>2, <1>3, <1>7 DEF Places, At, Kind
<1> QED BY <1>2, <1>7, <1>9, <1>10, StepOfOneCall

(* The constraint of the table: at most a row is added, and afterwards the  *)
(* payment has a key for the product.                                       *)
LEMMA InsertRows ==
    ASSUME RowsOK, OneKeyPerProduct, NEW lic, IsRow(lic), licenses' = Inserted(lic),
           lic.payment # None => lic.provider = "payment"
    PROVE  /\ RowsOK' /\ OneKeyPerProduct' /\ licenses \subseteq licenses'
           /\ lic.payment # None => HasKey(lic.payment, lic.product)'
<1>1. CASE \E l \in licenses : Same(l, lic)
  <2>1. PICK l \in licenses : Same(l, lic)
    BY <1>1
  <2>2. l.payment = lic.payment /\ l.product = lic.product
    BY <2>1 DEF Same, RowsOK, IsRow
  <2>3. licenses' = licenses
    BY <1>1 DEF Inserted
  <2> QED BY <2>1, <2>2, <2>3 DEF RowsOK, OneKeyPerProduct, HasKey
<1>2. CASE ~\E l \in licenses : Same(l, lic)
  <2>1. licenses' = licenses \cup {lic}
    BY <1>2 DEF Inserted
  <2>2. RowsOK' /\ HasKey(lic.payment, lic.product)'
    BY <2>1 DEF RowsOK, HasKey
  <2>3. ASSUME NEW l \in licenses, l.payment # None, l.payment = lic.payment, l.product = lic.product
        PROVE  FALSE
    <3>1. l.provider = lic.provider
      BY <2>3 DEF RowsOK
    <3>2. [l EXCEPT !.id = 0, !.status = None, !.expiry = 0] = [lic EXCEPT !.id = 0, !.status = None, !.expiry = 0]
      BY <2>3, <3>1 DEF RowsOK, IsRow
    <3> QED BY <1>2, <2>3, <3>2 DEF Same
  <2>4. OneKeyPerProduct'
    BY <2>1, <2>3 DEF OneKeyPerProduct
  <2> QED BY <2>1, <2>2, <2>4
<1> QED BY <1>1, <1>2

LEMMA TailOfCart ==
    ASSUME NEW cart \in Seq(Products), cart # <<>>, NEW j \in DOMAIN cart, j # 1
    PROVE  j - 1 \in DOMAIN Tail(cart) /\ Tail(cart)[j - 1] = cart[j] /\ Tail(cart) # <<>>
<1>1. Len(cart) \in Nat /\ j \in 1..Len(cart)
  OBVIOUS
<1>2. Len(Tail(cart)) = Len(cart) - 1 /\ DOMAIN Tail(cart) = 1..Len(Tail(cart))
  BY <1>1
<1>3. j - 1 \in 1..(Len(cart) - 1)
  BY <1>1
<1>4. Tail(cart)[j - 1] = cart[j]
  BY <1>1, <1>3
<1> QED BY <1>1, <1>2, <1>3, <1>4

LEMMA InsertStep ==
    ASSUME IInv, NEW c \in Calls, Insert(c)
    PROVE  IInv'
<1>1. PICK lic, cart, p :
        lic = Minted(c) /\ cart = calls[c].cart /\ p = calls[c].req.of
  OBVIOUS
<1>2. UNCHANGED <<events, emailed>> /\ At(c, "insert") /\ ~At(c, "idle") /\ licenses' = Inserted(lic)
  BY <1>1 DEF Insert, Keeps, At
<1>3. CallsOK /\ Running(calls[c]) /\ Places(c) /\ Progress(c)
  BY <1>2 DEF IInv, CallsOK
<1>4. /\ cart \in Seq(Products) /\ cart # <<>>
      /\ Kind(c) \in {"payment", "issue", "free"} /\ calls[c].req \in Requests
  BY <1>1, <1>2, <1>3 DEF Places, At, Running
<1>5. /\ IsRow(lic) /\ lic.payment = p /\ lic.product = Head(cart)
      /\ lic.payment # None => lic.provider = "payment"
  <2>1. IsRow(lic) /\ lic.payment = p /\ lic.product = Head(cart) /\ lic.provider = Kind(c)
    BY <1>1 DEF Minted, IsRow
  <2>2. Kind(c) \in {"issue", "free"} => p = None
    BY <1>1, <1>4, RequestTypes DEF Kind
  <2> QED BY <1>4, <2>1, <2>2
<1>6. /\ RowsOK' /\ OneKeyPerProduct' /\ licenses \subseteq licenses'
      /\ p # None => HasKey(p, Head(cart))'
  BY <1>2, <1>5, InsertRows DEF IInv
<1>7. Grows
  BY <1>2, <1>6 DEF Grows
<1>8. PICK rest, pc, keys :
        /\ rest = Tail(cart) /\ Goes(c, [calls[c] EXCEPT !.cart = rest, !.pc = pc, !.keys = keys])
        /\ pc = IF rest # <<>> THEN "stack" ELSE IF Kind(c) = "payment" THEN "keys" ELSE "send"
  BY <1>1 DEF Insert
<1>9. rest \in Seq(Products) /\ pc \in {"stack", "keys", "send"}
  BY <1>4, <1>8
<1>10. PICK call : call = [pc |-> pc, req |-> calls[c].req, cart |-> rest, base |-> calls[c].base, keys |-> keys]
  OBVIOUS
<1>11. Running(call) /\ call.pc = pc /\ call.req = calls[c].req /\ call.cart = rest
  BY <1>4, <1>9, <1>10 DEF Running, PCs
<1>12. [calls[c] EXCEPT !.cart = rest, !.pc = pc, !.keys = keys] = call
  BY <1>3, <1>10, AssignThree
<1>13. /\ CallsOK' /\ \A d \in Calls \ {c} : calls'[d] = calls[d]
       /\ calls'[c].pc = pc /\ calls'[c].req = calls[c].req /\ calls'[c].cart = rest
  <2>1. Goes(c, call)
    BY <1>8, <1>12
  <2> QED BY <1>3, <1>11, <2>1, GoesOne
<1>14. Progress(c)'
  <2> SUFFICES ASSUME Kind(c) = "payment", NEW k \in DOMAIN Cart[p]
               PROVE  /\ pc = "stack" => \/ HasKey(p, Cart[p][k])'
                                         \/ \E j \in DOMAIN rest : rest[j] = Cart[p][k]
                      /\ pc = "keys" => HasKey(p, Cart[p][k])'
    <3>1. /\ calls'[c].req.of = p /\ Kind(c)' = Kind(c) /\ ~At(c, "event")' /\ ~At(c, "insert")' /\ ~At(c, "record")'
          /\ Kind(c) = "payment" => pc # "send"
      BY <1>1, <1>8, <1>9, <1>13 DEF At, Kind
    <3> QED BY <1>13, <3>1 DEF Progress, At
  <2>1. p \in Payments /\ p # None
    BY <1>1, <1>4, RequestTypes DEF Kind
  <2>2. HasKey(p, Cart[p][k]) \/ \E j \in DOMAIN cart : cart[j] = Cart[p][k]
    BY <1>1, <1>2, <1>3 DEF Progress, At
  <2>3. CASE HasKey(p, Cart[p][k])
    BY <1>6, <2>3 DEF HasKey
  <2>4. CASE \E j \in DOMAIN cart : cart[j] = Cart[p][k]
    <3>1. PICK j \in DOMAIN cart : cart[j] = Cart[p][k]
      BY <2>4
    <3>2. CASE j = 1
      <4>1. Head(cart) = Cart[p][k]
        BY <1>4, <3>1, <3>2
      <4> QED BY <1>6, <2>1, <4>1
    <3>3. CASE j # 1
      <4>1. j - 1 \in DOMAIN rest /\ rest[j - 1] = Cart[p][k] /\ rest # <<>>
        BY <1>4, <1>8, <3>1, <3>3, TailOfCart
      <4> QED BY <1>8, <4>1
    <3> QED BY <3>2, <3>3
  <2> QED BY <2>2, <2>3, <2>4
<1>15. Places(c)'
  BY <1>4, <1>8, <1>9, <1>13 DEF Places, At, Kind
<1> QED BY <1>2, <1>6, <1>7, <1>13, <1>14, <1>15, StepOfOne

LEMMA KeysStep ==
    ASSUME IInv, NEW c \in Calls, Keys(c)
    PROVE  IInv'
<1>1. PICK keys : /\ keys = Ids(IF Kind(c) = "payment" THEN OfPayment(calls[c].req.of) ELSE Active)
                  /\ Goes(c, [calls[c] EXCEPT !.pc = "send", !.keys = keys])
  BY DEF Keys
<1>2. UNCHANGED <<licenses, events, emailed>> /\ At(c, "keys") /\ ~At(c, "idle")
  BY DEF Keys, Keeps, At
<1>3. CallsOK /\ Running(calls[c]) /\ Places(c) /\ Progress(c)
  BY <1>2 DEF IInv, CallsOK
<1>4. PICK call : call = [pc |-> "send", req |-> calls[c].req, cart |-> calls[c].cart,
                          base |-> calls[c].base, keys |-> keys]
  OBVIOUS
<1>5. Running(call) /\ call.pc = "send" /\ call.req = calls[c].req /\ call.keys = keys
  BY <1>3, <1>4 DEF Running, PCs
<1>6. [calls[c] EXCEPT !.pc = "send", !.keys = keys] = call
  BY <1>3, <1>4, AssignKeys
<1>7. /\ CallsOK' /\ \A d \in Calls \ {c} : calls'[d] = calls[d]
      /\ calls'[c].pc = "send" /\ calls'[c].req = calls[c].req /\ calls'[c].keys = keys
  <2>1. Goes(c, call)
    BY <1>1, <1>6
  <2> QED BY <1>3, <1>5, <2>1, GoesOne
<1>8. Progress(c)'
  <2> SUFFICES ASSUME NEW p, p = calls[c].req.of, Kind(c) = "payment", NEW k \in DOMAIN Cart[p]
               PROVE  Has(p, Cart[p][k], keys)'
    BY <1>7 DEF Progress, At, Kind
  <2>1. HasKey(p, Cart[p][k])
    BY <1>2, <1>3 DEF Progress
  <2> QED BY <1>1, <1>2, <2>1 DEF HasKey, Has, OfPayment, Ids
<1>9. Places(c)'
  BY <1>7 DEF Places, At, Kind
<1> QED BY <1>2, <1>7, <1>8, <1>9, StepOfOneCall

LEMMA SendStep ==
    ASSUME IInv, NEW c \in Calls, Send(c)
    PROVE  IInv'
<1>1. /\ UNCHANGED <<licenses, events>> /\ emailed' = emailed \cup calls[c].keys
      /\ At(c, "send") /\ ~At(c, "idle")
  BY DEF Send, Keeps, At
<1>2. CallsOK /\ Places(c) /\ Progress(c)
  BY DEF IInv
<1>3. Grows /\ RowsOK' /\ OneKeyPerProduct' /\ events' \ events = {}
  BY <1>1 DEF Grows, RowsOK, OneKeyPerProduct, IInv
<1>4. CASE Kind(c) = "payment"
  <2>1. /\ CallsOK' /\ \A d \in Calls \ {c} : calls'[d] = calls[d]
        /\ At(c, "record")' /\ calls'[c].req = calls[c].req
    BY <1>1, <1>2, <1>4, ToOne DEF Send, PCs
  <2>2. Progress(c)'
    <3> SUFFICES ASSUME NEW p, p = calls[c].req.of, NEW k \in DOMAIN Cart[p]
                 PROVE  Has(p, Cart[p][k], emailed)'
      BY <2>1 DEF Progress, At
    <3>1. Has(p, Cart[p][k], calls[c].keys)
      BY <1>1, <1>2, <1>4 DEF Progress
    <3> QED BY <1>1, <3>1 DEF Has
  <2>3. Places(c)'
    BY <2>1 DEF Places, At, Kind
  <2> QED BY <1>3, <2>1, <2>2, <2>3, StepOfOne
<1>5. CASE Kind(c) # "payment"
  BY <1>3, <1>5, EndsKeeps, StepOfOne DEF Send
<1> QED BY <1>4, <1>5

LEMMA RecordStep ==
    ASSUME IInv, NEW c \in Calls, Record(c)
    PROVE  IInv'
<1>1. /\ UNCHANGED <<licenses, emailed>> /\ events' = events \cup {calls[c].req}
      /\ At(c, "record") /\ ~At(c, "idle") /\ Ends(c)
  BY DEF Record, Keeps, At
<1>2. Grows /\ RowsOK' /\ OneKeyPerProduct' /\ Progress(c)
  BY <1>1 DEF Grows, RowsOK, OneKeyPerProduct, IInv
<1>3. ASSUME NEW e \in events' \ events, e.kind = "payment", NEW k \in DOMAIN Cart[e.of]
      PROVE  Has(e.of, Cart[e.of][k], emailed)'
  <2>1. e = calls[c].req
    BY <1>1, <1>3
  <2>2. Has(e.of, Cart[e.of][k], emailed)
    BY <1>1, <1>2, <1>3, <2>1 DEF Progress, Kind
  <2> QED BY <1>1, <2>2 DEF Has
<1> QED BY <1>1, <1>2, <1>3, EndsKeeps, StepOfOne

LEMMA SetStatusStep ==
    ASSUME IInv, NEW c \in Calls, SetStatus(c)
    PROVE  IInv'
<1> DEFINE status == IF Kind(c) = "refund" THEN "refunded" ELSE "revoked"
           New(l) == IF l.payment = calls[c].req.of THEN [l EXCEPT !.status = status] ELSE l
<1>1. licenses' = {New(l) : l \in licenses}
  BY DEF SetStatus
<1>2. UNCHANGED <<events, emailed>> /\ At(c, "status") /\ ~At(c, "idle") /\ To(c, "record")
  BY DEF SetStatus, Keeps, At
<1>3. CallsOK /\ RowsOK /\ OneKeyPerProduct /\ Places(c)
  BY DEF IInv
<1>4. ASSUME NEW l \in licenses
      PROVE  /\ IsRow(New(l)) /\ New(l).id = l.id /\ New(l).product = l.product
             /\ New(l).payment = l.payment /\ New(l).provider = l.provider
  <2>2. IsRow(l)
    BY <1>3, <1>4 DEF RowsOK
  <2>3. CASE l.payment = calls[c].req.of
    <3> HIDE DEF status
    <3>1. PICK new, n : new = status /\ n = [l EXCEPT !.status = new]
      OBVIOUS
    <3>2. IsRow(n) /\ n.id = l.id /\ n.product = l.product /\ n.payment = l.payment /\ n.provider = l.provider
      BY <2>2, <3>1 DEF IsRow
    <3> QED BY <2>3, <3>1, <3>2
  <2>4. CASE l.payment # calls[c].req.of
    BY <2>2, <2>4
  <2> QED BY <2>3, <2>4
<1>5. Grows
  <2> HIDE DEF New
  <2> QED BY <1>1, <1>2, <1>4 DEF Grows
<1>6. RowsOK'
  <2> HIDE DEF New
  <2> QED BY <1>1, <1>3, <1>4 DEF RowsOK
<1>7. OneKeyPerProduct'
  <2> HIDE DEF New
  <2> SUFFICES ASSUME NEW l \in licenses, NEW m \in licenses, New(l).payment # None,
                      New(l).payment = New(m).payment, New(l).product = New(m).product
               PROVE  l = m
    BY <1>1 DEF OneKeyPerProduct
  <2> QED BY <1>3, <1>4 DEF OneKeyPerProduct
<1>9. /\ CallsOK' /\ \A d \in Calls \ {c} : calls'[d] = calls[d]
      /\ At(c, "record")' /\ calls'[c].req = calls[c].req
  BY <1>2, <1>3, ToOne DEF PCs
<1>10. Progress(c)' /\ Places(c)'
  BY <1>2, <1>3, <1>9 DEF Progress, Places, At, Kind
<1>11. events' \ events = {}
  BY <1>2
<1> QED BY <1>5, <1>6, <1>7, <1>9, <1>10, <1>11, StepOfOne

LEMMA LimitSteps ==
    ASSUME IInv, NEW c \in Calls, CheckLimit(c) \/ Count(c) \/ Purge(c)
    PROVE  IInv'
<1>1. UNCHANGED <<licenses, events, emailed>> /\ ~At(c, "idle") /\ calls[c].pc \in {"limit", "count", "purge"}
  BY DEF CheckLimit, Count, Purge, Keeps, At
<1>2. /\ Kind(c) \in Limited /\ Kind(c) # "payment"
      /\ (calls[c].pc # "purge" /\ Kind(c) = "free") => calls[c].cart = <<"pocketai-mac">>
  BY <1>1 DEF IInv, Places, Limited
<1>3. \/ Ends(c) \/ To(c, "keys") \/ (Kind(c) # "free" /\ To(c, "purge"))
      \/ (calls[c].pc # "purge" /\ (To(c, "count") \/ (Kind(c) = "free" /\ To(c, "existing"))))
  BY DEF CheckLimit, Count, Purge, At
<1> QED BY <1>1, <1>2, <1>3, EndStep, MoveStep DEF PCs

LEMMA ExistingStep ==
    ASSUME IInv, NEW c \in Calls, Existing(c)
    PROVE  IInv'
<1>1. UNCHANGED <<licenses, events, emailed>> /\ At(c, "existing") /\ ~At(c, "idle")
  BY DEF Existing, Keeps, At
<1>2. CallsOK /\ Kind(c) = "free" /\ calls[c].cart = <<"pocketai-mac">>
  BY <1>1 DEF IInv, Places, At
<1>3. CASE Ends(c)
  BY <1>1, <1>3, EndStep
<1>4. CASE To(c, "insert")
  <2>1. /\ CallsOK' /\ \A d \in Calls \ {c} : calls'[d] = calls[d]
        /\ At(c, "insert")' /\ calls'[c].req = calls[c].req /\ calls'[c].cart = calls[c].cart
    BY <1>1, <1>2, <1>4, ToOne DEF PCs
  <2>2. Progress(c)' /\ Places(c)'
    BY <1>2, <2>1 DEF Progress, Places, At, Kind
  <2> QED BY <1>1, <2>1, <2>2, StepOfOneCall
<1> QED BY <1>3, <1>4 DEF Existing

LEMMA DeviceSteps ==
    ASSUME IInv, NEW c \in Calls,
           \/ Licence(c) \/ ReadDevices(c) \/ Touch(c) \/ Register(c) \/ Deactivate(c) \/ Cut(c)
    PROVE  IInv'
<1>1. UNCHANGED <<licenses, events, emailed>> /\ ~At(c, "idle")
  BY DEF Licence, ReadDevices, Touch, Register, Deactivate, Cut, Keeps, At
<1>2. PICK pc \in {"devices", "touch", "register", "remove"} : Ends(c) \/ To(c, pc)
  BY DEF Licence, ReadDevices, Touch, Register, Deactivate, Cut
<1> QED BY <1>1, <1>2, EndStep, MoveStep DEF PCs

-----------------------------------------------------------------------------
LEMMA InitIInv == Init => IInv
<1> SUFFICES ASSUME Init PROVE IInv
  OBVIOUS
<1>1. calls = [c \in Calls |-> calls[c]] /\ \A c \in Calls : calls[c] = Idle
  BY DEF Init
<1>2. \A c \in Calls : At(c, "idle")
  BY <1>1 DEF At, Idle
<1>3. RowsOK /\ OneKeyPerProduct /\ HandledIsSent
  BY DEF Init, RowsOK, OneKeyPerProduct, HandledIsSent
<1> QED BY <1>1, <1>2, <1>3 DEF IInv, CallsOK, Progress, Places

LEMMA NextIInv == IInv /\ [Next]_vars => IInv'
<1> SUFFICES ASSUME IInv, [Next]_vars PROVE IInv'
  OBVIOUS
<1>1. CASE UNCHANGED <<licenses, events, emailed, calls>>
  <2>0. licenses' = licenses /\ events' = events /\ emailed' = emailed /\ calls' = calls
    BY <1>1
  <2>1. CallsOK' /\ RowsOK' /\ OneKeyPerProduct'
    BY <2>0 DEF IInv, CallsOK, RowsOK, OneKeyPerProduct, At
  <2>2. HandledIsSent'
    BY <2>0 DEF IInv, HandledIsSent, OfPayment
  <2>3. \A c \in Calls : Places(c)'
    BY <2>0 DEF IInv, Places, At, Kind
  <2>4. \A c \in Calls : Progress(c)'
    <3>1. ASSUME NEW c \in Calls PROVE Progress(c)'
      <4>1. Progress(c)
        BY DEF IInv
      <4> QED BY <2>0, <4>1 DEF Progress, At, Kind, Has, HasKey
    <3> QED BY <3>1
  <2> QED BY <2>1, <2>2, <2>3, <2>4 DEF IInv
<1>2. CASE HourPasses \/ DayPasses
  BY <1>1, <1>2 DEF HourPasses, DayPasses
<1>3. ASSUME NEW c \in Calls, NEW req \in Requests, Receive(c, req) PROVE IInv'
  BY <1>3, ReceiveStep
<1>4. ASSUME NEW c \in Calls,
             CheckEvent(c) \/ Stack(c) \/ Insert(c) \/ Keys(c) \/ Send(c) \/ Record(c) \/ SetStatus(c)
      PROVE  IInv'
  BY <1>4, CheckEventStep, StackStep, InsertStep, KeysStep, SendStep, RecordStep, SetStatusStep
<1>5. ASSUME NEW c \in Calls,
             \/ CheckLimit(c) \/ Count(c) \/ Purge(c) \/ Existing(c) \/ Licence(c) \/ ReadDevices(c)
             \/ Touch(c) \/ Register(c) \/ Deactivate(c) \/ Cut(c)
      PROVE  IInv'
  BY <1>5, LimitSteps, ExistingStep, DeviceSteps
<1> QED BY <1>1, <1>2, <1>3, <1>4, <1>5 DEF Next, vars

LEMMA AlwaysIInv == Spec => []IInv
<1> QED BY InitIInv, NextIInv, PTL DEF Spec

(* However often a payment is delivered, however many deliveries run at a   *)
(* time and wherever they are cut off, it has at most one key for each      *)
(* product: the check of the events and the insertion are not atomic, the   *)
(* constraint of the table is what holds (worker: markEvent, mint).         *)
THEOREM OneKeyPerProductHolds == Spec => []OneKeyPerProduct
<1>1. IInv => OneKeyPerProduct
  BY DEF IInv
<1> QED BY <1>1, AlwaysIInv, PTL

(* An event is recorded only when every product of its payment has a key    *)
(* that was sent, so that a delivery that was cut off is not lost.          *)
THEOREM HandledIsSentHolds == Spec => []HandledIsSent
<1>1. IInv => HandledIsSent
  BY DEF IInv
<1> QED BY <1>1, AlwaysIInv, PTL

(* A key that was taken back is never active again: a late delivery of its  *)
(* payment adds no row, and the statuses that are set are never "active"    *)
(* (worker: mint's INSERT OR IGNORE, setStatusByPayment).                   *)
THEOREM TakenBackIsFinalHolds == Spec => TakenBackIsFinal
<1>1. IInv /\ [Next]_vars => [Ids(licenses \ Active) \subseteq Ids(licenses' \ Active')]_vars
  <2> SUFFICES ASSUME IInv, Next PROVE Ids(licenses \ Active) \subseteq Ids(licenses' \ Active')
    BY DEF vars
  <2>1. CASE licenses \subseteq licenses'
    BY <2>1 DEF Ids, Active
  <2>2. ASSUME NEW c \in Calls, SetStatus(c)
        PROVE  Ids(licenses \ Active) \subseteq Ids(licenses' \ Active')
    <3>1. PICK of, status : /\ of = calls[c].req.of /\ status \in {"refunded", "revoked"}
                            /\ status = IF Kind(c) = "refund" THEN "refunded" ELSE "revoked"
      OBVIOUS
    <3>2. licenses' = {IF l.payment = of THEN [l EXCEPT !.status = status] ELSE l : l \in licenses}
      BY <2>2, <3>1 DEF SetStatus
    <3>3. ASSUME NEW l \in licenses \ Active
          PROVE  \E m \in licenses' \ Active' : m.id = l.id
      <4>1. CASE l.payment # of
        BY <3>2, <3>3, <4>1 DEF Active
      <4>2. CASE l.payment = of
        <5>1. PICK m : m = [l EXCEPT !.status = status]
          OBVIOUS
        <5>2. m \in licenses'
          BY <3>2, <4>2, <5>1
        <5>3. m.id = l.id /\ m.status = status
          <6>1. IsRow(l)
            BY DEF IInv, RowsOK
          <6> QED BY <5>1, <6>1 DEF IsRow
        <5> QED BY <3>1, <5>2, <5>3 DEF Active
      <4> QED BY <4>1, <4>2
    <3> QED BY <3>3 DEF Ids
  <2>3. ASSUME NEW c \in Calls, Insert(c) PROVE licenses \subseteq licenses'
    BY <2>3 DEF Insert, Inserted
  <2>4. CASE \E c \in Calls : Insert(c) \/ SetStatus(c)
    BY <2>1, <2>2, <2>3, <2>4
  <2>5. CASE ~\E c \in Calls : Insert(c) \/ SetStatus(c)
    <3>1. licenses' = licenses
      BY <2>5 DEF Next, HourPasses, DayPasses, Receive, CheckEvent, Stack, Keys, Send, Record, CheckLimit, Count, Purge,
                  Existing, Licence, ReadDevices, Touch, Register, Deactivate, Cut, Keeps
    <3> QED BY <2>1, <3>1
  <2> QED BY <2>4, <2>5
<1> QED BY <1>1, AlwaysIInv, PTL DEF Spec, TakenBackIsFinal

-----------------------------------------------------------------------------
(* The limits: calls that have passed a limit and not yet counted are part  *)
(* of what the limit bounds.                                                *)

Counting(k) == {c \in Calls : At(c, "count") /\ Kind(c) = k}
Registering(id) == {c \in Calls : At(c, "register") /\ calls[c].req.of = id}

Bounded ==
    /\ resends \in [Limited -> Nat] /\ {earlier, erased, hours} \subseteq Nat
    /\ \A k \in Limited : Counted(k) + Cardinality(Counting(k)) <= Allowance
    /\ erased + earlier <= hours * Allowance
    /\ \A id : Cardinality(DevicesOf(id)) + Cardinality(Registering(id)) <= DeviceLimit + Cardinality(Calls) - 1

LEMMA Numbers ==
    /\ RateLimit \in Nat /\ RateLimit >= 1 /\ DeviceLimit \in Nat /\ DeviceLimit >= 1
    /\ IsFiniteSet(Calls) /\ IsFiniteSet(Devices) /\ Cardinality(Calls) \in Nat
<1>1. RateLimit \in Nat \ {0} /\ DeviceLimit \in Nat \ {0} /\ IsFiniteSet(Calls) /\ IsFiniteSet(Devices)
  OBVIOUS
<1>2. Cardinality(Calls) \in Nat
  BY <1>1, FS_CardinalityType
<1> QED BY <1>1, <1>2

LEMMA CountedIsNat ==
    ASSUME Bounded
    PROVE  /\ "free" \in Limited /\ "resend" \in Limited
           /\ \A k \in Limited : Counted(k) \in Nat
           /\ Counted("free") = resends["free"] + earlier /\ Counted("resend") = resends["resend"]
<1>1. /\ \A k \in Limited : resends[k] \in Nat
      /\ earlier \in Nat /\ "free" \in Limited /\ "resend" \in Limited
  BY DEF Bounded, Limited
<1> QED BY <1>1 DEF Counted

(* One more of at most as many as there are elements.                       *)
LEMMA OneMore ==
    ASSUME NEW S, IsFiniteSet(S), NEW T \in SUBSET S, NEW x \in S \ T
    PROVE  Cardinality(T) \in Nat /\ Cardinality(T) + 1 <= Cardinality(S) /\ Cardinality(T \cup {x}) = Cardinality(T) + 1
<1>1. IsFiniteSet(T)
  BY FS_Subset
<1>2. Cardinality(T \cup {x}) = Cardinality(T) + 1
  BY <1>1, FS_AddElement
<1>3. T \cup {x} \in SUBSET S
  OBVIOUS
<1>4. Cardinality(T \cup {x}) <= Cardinality(S)
  BY <1>3, FS_Subset
<1> QED BY <1>1, <1>2, <1>4, FS_CardinalityType

LEMMA Smaller ==
    ASSUME NEW S, IsFiniteSet(S), NEW T \in SUBSET S
    PROVE  Cardinality(T) \in Nat /\ Cardinality(S) \in Nat /\ Cardinality(T) <= Cardinality(S)
<1> QED BY FS_Subset, FS_CardinalityType

LEMMA SetsAreFinite ==
    /\ \A k : IsFiniteSet(Counting(k)) /\ Counting(k) \in SUBSET Calls
    /\ \A id : /\ IsFiniteSet(Registering(id)) /\ Registering(id) \in SUBSET Calls
               /\ IsFiniteSet(DevicesOf(id)) /\ DevicesOf(id) \in SUBSET Devices
<1>1. \A k : Counting(k) \in SUBSET Calls
  BY DEF Counting
<1>2. \A id : Registering(id) \in SUBSET Calls /\ DevicesOf(id) \in SUBSET Devices
  BY DEF Registering, DevicesOf
<1> QED BY <1>1, <1>2, Numbers, FS_Subset

(* Most steps: nothing is counted or added, and no call passes a limit.     *)
LEMMA Elsewhere ==
    ASSUME Bounded, NEW c \in Calls, \A d \in Calls \ {c} : calls'[d] = calls[d],
           ~At(c, "count")', ~At(c, "register")', UNCHANGED windows, activations' \subseteq activations
    PROVE  Bounded'
<1>1. \A k : Counting(k)' \in SUBSET Counting(k)
  BY DEF Counting, At, Kind
<1>2. \A id : Registering(id)' \in SUBSET Registering(id) /\ DevicesOf(id)' \in SUBSET DevicesOf(id)
  BY DEF Registering, DevicesOf, At
<1>3. ASSUME NEW k \in Limited
      PROVE  Counted(k) + Cardinality(Counting(k)') <= Allowance
  <2>1. /\ Cardinality(Counting(k)') <= Cardinality(Counting(k))
        /\ Cardinality(Counting(k)') \in Nat /\ Cardinality(Counting(k)) \in Nat
    BY <1>1, SetsAreFinite, Smaller
  <2>2. Counted(k) \in Nat /\ Counted(k) + Cardinality(Counting(k)) <= Allowance
    BY CountedIsNat DEF Bounded
  <2> QED BY <2>1, <2>2, Numbers DEF Allowance
<1>4. ASSUME NEW id
      PROVE  Cardinality(DevicesOf(id)') + Cardinality(Registering(id)') <= DeviceLimit + Cardinality(Calls) - 1
  <2>1. /\ Cardinality(DevicesOf(id)') <= Cardinality(DevicesOf(id))
        /\ Cardinality(DevicesOf(id)') \in Nat /\ Cardinality(DevicesOf(id)) \in Nat
    BY <1>2, SetsAreFinite, Smaller
  <2>2. /\ Cardinality(Registering(id)') <= Cardinality(Registering(id))
        /\ Cardinality(Registering(id)') \in Nat /\ Cardinality(Registering(id)) \in Nat
    BY <1>2, SetsAreFinite, Smaller
  <2>3. Cardinality(DevicesOf(id)) + Cardinality(Registering(id)) <= DeviceLimit + Cardinality(Calls) - 1
    BY DEF Bounded
  <2> QED BY <2>1, <2>2, <2>3, Numbers
<1>5. UNCHANGED <<resends, earlier, erased, hours>>
  BY DEF windows
<1>6. Allowance' = Allowance /\ \A k : Counted(k)' = Counted(k)
  BY <1>5 DEF Allowance, Counted
<1> QED BY <1>3, <1>4, <1>5, <1>6 DEF Bounded

(* A call that passes a limit: it was not full, and the others are fewer    *)
(* than the calls.                                                          *)
LEMMA PassesLimit ==
    ASSUME IInv, Bounded, NEW c \in Calls, CheckLimit(c), Passes(Kind(c))
    PROVE  Bounded'
<1>1. /\ CallsOK /\ ~At(c, "idle") /\ At(c, "limit") /\ To(c, "count")
      /\ UNCHANGED <<resends, earlier, erased, hours, activations>>
  BY DEF IInv, CheckLimit, At, Keeps, windows
<1>2. /\ \A d \in Calls \ {c} : calls'[d] = calls[d]
      /\ At(c, "count")' /\ calls'[c].req = calls[c].req
  BY <1>1, ToOne DEF PCs
<1>3. \A k : Counting(k)' = IF k = Kind(c) THEN Counting(k) \cup {c} ELSE Counting(k)
  BY <1>1, <1>2 DEF Counting, At, Kind
<1>4. \A id : Registering(id)' = Registering(id) /\ DevicesOf(id)' = DevicesOf(id)
  BY <1>1, <1>2 DEF Registering, DevicesOf, At
<1>5. ASSUME NEW k \in Limited
      PROVE  Counted(k) + Cardinality(Counting(k)') <= Allowance
  <2>1. Counted(k) \in Nat /\ Counted(k) + Cardinality(Counting(k)) <= Allowance
    BY CountedIsNat DEF Bounded
  <2>2. CASE k # Kind(c)
    BY <1>3, <2>1, <2>2
  <2>3. CASE k = Kind(c)
    <3>1. c \in Calls \ Counting(k)
      BY <1>1 DEF Counting, At
    <3>2. /\ Cardinality(Counting(k)) \in Nat /\ Cardinality(Counting(k)) + 1 <= Cardinality(Calls)
          /\ Cardinality(Counting(k)') = Cardinality(Counting(k)) + 1
      BY <1>3, <2>3, <3>1, SetsAreFinite, Numbers, OneMore
    <3>3. Counted(k) + 1 <= RateLimit
      BY <2>1, <2>3, Numbers DEF Passes
    <3> QED BY <2>1, <3>2, <3>3, Numbers DEF Allowance
  <2> QED BY <2>2, <2>3
<1>6. Allowance' = Allowance /\ \A k : Counted(k)' = Counted(k)
  BY <1>1 DEF Allowance, Counted
<1> QED BY <1>1, <1>4, <1>5, <1>6 DEF Bounded

LEMMA CountsBounded ==
    ASSUME IInv, Bounded, NEW c \in Calls, Count(c)
    PROVE  Bounded'
<1>1. /\ CallsOK /\ ~At(c, "idle") /\ At(c, "count") /\ Kind(c) \in Limited
      /\ resends' = [resends EXCEPT ![Kind(c)] = @ + 1] /\ UNCHANGED <<earlier, erased, hours, activations>>
  BY DEF IInv, Places, Count, At, Keeps
<1>2. PICK pc \in {"existing", "purge"} : To(c, pc)
  BY DEF Count
<1>3. /\ \A d \in Calls \ {c} : calls'[d] = calls[d]
      /\ ~At(c, "count")' /\ ~At(c, "register")'
  BY <1>1, <1>2, ToOne DEF PCs, At
<1>4. \A k : Counting(k)' = IF k = Kind(c) THEN Counting(k) \ {c} ELSE Counting(k)
  BY <1>1, <1>3 DEF Counting, At, Kind
<1>5. \A id : Registering(id)' = Registering(id) /\ DevicesOf(id)' = DevicesOf(id)
  BY <1>1, <1>3 DEF Registering, DevicesOf, At
<1>6. /\ resends' \in [Limited -> Nat]
      /\ \A k \in Limited : Counted(k)' = IF k = Kind(c) THEN Counted(k) + 1 ELSE Counted(k)
  <2>1. /\ resends' \in [Limited -> Nat] /\ earlier' = earlier /\ earlier \in Nat
        /\ \A k \in Limited : resends[k] \in Nat /\ resends'[k] = IF k = Kind(c) THEN resends[k] + 1 ELSE resends[k]
    BY <1>1 DEF Bounded
  <2> QED BY <2>1 DEF Counted
<1>7. ASSUME NEW k \in Limited
      PROVE  Counted(k)' + Cardinality(Counting(k)') <= Allowance
  <2>1. Counted(k) \in Nat /\ Counted(k) + Cardinality(Counting(k)) <= Allowance
    BY CountedIsNat DEF Bounded
  <2>2. CASE k # Kind(c)
    BY <1>4, <1>6, <2>1, <2>2
  <2>3. CASE k = Kind(c)
    <3>1. c \in Counting(k)
      BY <1>1, <2>3 DEF Counting
    <3>2. Cardinality(Counting(k)) \in Nat /\ Cardinality(Counting(k)') = Cardinality(Counting(k)) - 1
      BY <1>4, <2>3, <3>1, SetsAreFinite, FS_RemoveElement, FS_CardinalityType
    <3> QED BY <1>6, <2>1, <2>3, <3>2, Numbers DEF Allowance
  <2> QED BY <2>2, <2>3
<1>8. Allowance' = Allowance
  BY DEF Allowance
<1> QED BY <1>1, <1>5, <1>6, <1>7, <1>8 DEF Bounded

(* The rows that a resend deletes are no longer counted, and are on account *)
(* of the hours that are over.                                              *)
LEMMA PurgeBounded ==
    ASSUME IInv, Bounded, NEW c \in Calls, Purge(c)
    PROVE  Bounded'
<1>1. /\ CallsOK /\ ~At(c, "idle") /\ At(c, "purge") /\ To(c, "keys")
      /\ erased' = erased + earlier /\ earlier' = 0 /\ UNCHANGED <<resends, hours, activations>>
  BY DEF IInv, Purge, At, Keeps
<1>2. /\ \A d \in Calls \ {c} : calls'[d] = calls[d]
      /\ ~At(c, "count")' /\ ~At(c, "register")'
  BY <1>1, ToOne DEF PCs, At
<1>3. \A k : Counting(k)' = Counting(k)
  BY <1>1, <1>2 DEF Counting, At, Kind
<1>4. \A id : Registering(id)' = Registering(id) /\ DevicesOf(id)' = DevicesOf(id)
  BY <1>1, <1>2 DEF Registering, DevicesOf, At
<1>5. resends \in [Limited -> Nat] /\ earlier \in Nat /\ erased \in Nat /\ hours \in Nat
  BY DEF Bounded
<1>6. \A k \in Limited : Counted(k)' \in Nat /\ Counted(k)' <= Counted(k)
  <2>1. \A k \in Limited : resends[k] \in Nat
    BY <1>5
  <2> QED BY <1>1, <1>5, <2>1 DEF Counted
<1>7. ASSUME NEW k \in Limited PROVE Counted(k)' + Cardinality(Counting(k)') <= Allowance
  <2>1. Counted(k) \in Nat /\ Counted(k) + Cardinality(Counting(k)) <= Allowance
    BY CountedIsNat DEF Bounded
  <2>2. Cardinality(Counting(k)) \in Nat /\ Allowance \in Int
    BY SetsAreFinite, FS_CardinalityType, Numbers DEF Allowance
  <2> QED BY <1>3, <1>6, <2>1, <2>2
<1>8. erased' + earlier' = erased + earlier
  BY <1>1, <1>5
<1>9. Allowance' = Allowance
  BY DEF Allowance
<1> QED BY <1>1, <1>4, <1>5, <1>7, <1>8, <1>9 DEF Bounded

LEMMA FindsRoom ==
    ASSUME IInv, Bounded, NEW c \in Calls, ReadDevices(c), To(c, "register")
    PROVE  Bounded'
<1>1. CallsOK /\ ~At(c, "idle") /\ At(c, "devices") /\ UNCHANGED <<resends, earlier, erased, hours, activations>>
  BY DEF IInv, ReadDevices, At, Keeps, windows
<1>2. PICK of : of = calls[c].req.of
  OBVIOUS
<1>3. /\ \A d \in Calls \ {c} : calls'[d] = calls[d]
      /\ At(c, "register")' /\ calls'[c].req = calls[c].req
  BY <1>1, ToOne DEF PCs
<1>4. \A k : Counting(k)' = Counting(k)
  BY <1>1, <1>3 DEF Counting, At, Kind
<1>5. \A id : /\ Registering(id)' = IF id = of THEN Registering(id) \cup {c} ELSE Registering(id)
             /\ DevicesOf(id)' = DevicesOf(id)
  BY <1>1, <1>2, <1>3 DEF Registering, DevicesOf, At
<1>6. HasRoom(of)
  <2>1. ~Running(Idle)
    BY DEF Running, Idle, PCs
  <2>2. calls'[c].pc = "register"
    BY <1>3 DEF At
  <2>3. ~To(c, "touch") /\ ~Ends(c)
    <3>1. To(c, "touch") => At(c, "touch")'
      BY <1>1, ToOne DEF PCs
    <3>2. Ends(c) => calls'[c] = Idle
      BY <1>1 DEF Ends, Goes, CallsOK
    <3> QED BY <2>2, <3>1, <3>2 DEF At, Idle
  <2> QED BY <1>2, <2>3 DEF ReadDevices
<1>7. ASSUME NEW id
      PROVE  Cardinality(DevicesOf(id)) + Cardinality(Registering(id)') <= DeviceLimit + Cardinality(Calls) - 1
  <2>1. /\ Cardinality(DevicesOf(id)) + Cardinality(Registering(id)) <= DeviceLimit + Cardinality(Calls) - 1
        /\ Cardinality(DevicesOf(id)) \in Nat
    BY SetsAreFinite, FS_CardinalityType DEF Bounded
  <2>2. CASE id # of
    BY <1>5, <2>1, <2>2
  <2>3. CASE id = of
    <3>1. c \in Calls \ Registering(id)
      BY <1>1 DEF Registering, At
    <3>2. /\ Cardinality(Registering(id)) \in Nat /\ Cardinality(Registering(id)) + 1 <= Cardinality(Calls)
          /\ Cardinality(Registering(id)') = Cardinality(Registering(id)) + 1
      BY <1>5, <2>3, <3>1, SetsAreFinite, Numbers, OneMore
    <3>3. Cardinality(DevicesOf(id)) + 1 <= DeviceLimit
      BY <1>6, <2>1, <2>3, Numbers DEF HasRoom
    <3> QED BY <2>1, <3>2, <3>3, Numbers
  <2> QED BY <2>2, <2>3
<1>8. Allowance' = Allowance /\ \A k : Counted(k)' = Counted(k)
  BY <1>1 DEF Allowance, Counted
<1> QED BY <1>1, <1>4, <1>5, <1>7, <1>8 DEF Bounded

LEMMA RegistersBounded ==
    ASSUME IInv, Bounded, NEW c \in Calls, Register(c)
    PROVE  Bounded'
<1>1. /\ CallsOK /\ At(c, "register") /\ Ends(c) /\ UNCHANGED <<resends, earlier, erased, hours>>
      /\ activations' = activations \cup {<<calls[c].req.of, calls[c].req.device>>}
  BY DEF IInv, Register, Keeps, windows
<1>2. PICK of, device : of = calls[c].req.of /\ device = calls[c].req.device
  OBVIOUS
<1>3. calls'[c] = Idle /\ \A d \in Calls \ {c} : calls'[d] = calls[d]
  BY <1>1 DEF Ends, Goes, CallsOK
<1>4. ~At(c, "count")' /\ ~At(c, "register")'
  BY <1>3 DEF At, Idle
<1>5. \A k : Counting(k)' = Counting(k)
  BY <1>1, <1>3, <1>4 DEF Counting, At, Kind
<1>6. \A id : /\ Registering(id)' = IF id = of THEN Registering(id) \ {c} ELSE Registering(id)
             /\ DevicesOf(id)' \subseteq IF id = of THEN DevicesOf(id) \cup {device} ELSE DevicesOf(id)
  BY <1>1, <1>2, <1>3, <1>4 DEF Registering, DevicesOf, At
<1>7. ASSUME NEW id
      PROVE  Cardinality(DevicesOf(id)') + Cardinality(Registering(id)') <= DeviceLimit + Cardinality(Calls) - 1
  <2>1. /\ Cardinality(DevicesOf(id)) + Cardinality(Registering(id)) <= DeviceLimit + Cardinality(Calls) - 1
        /\ Cardinality(DevicesOf(id)) \in Nat /\ Cardinality(Registering(id)) \in Nat
    BY SetsAreFinite, FS_CardinalityType DEF Bounded
  <2>2. CASE id # of
    <3>1. DevicesOf(id)' \in SUBSET DevicesOf(id) /\ Registering(id)' = Registering(id)
      BY <1>6, <2>2
    <3>2. Cardinality(DevicesOf(id)') \in Nat /\ Cardinality(DevicesOf(id)') <= Cardinality(DevicesOf(id))
      BY <3>1, SetsAreFinite, Smaller
    <3> QED BY <2>1, <3>1, <3>2, Numbers
  <2>3. CASE id = of
    <3>1. c \in Registering(id)
      BY <1>1, <1>2, <2>3 DEF Registering
    <3>2. Cardinality(Registering(id)') = Cardinality(Registering(id)) - 1
      BY <1>6, <2>3, <3>1, SetsAreFinite, FS_RemoveElement
    <3>3. DevicesOf(id)' \in SUBSET (DevicesOf(id) \cup {device})
      BY <1>6, <2>3
    <3>4. /\ IsFiniteSet(DevicesOf(id) \cup {device})
          /\ Cardinality(DevicesOf(id) \cup {device}) <= Cardinality(DevicesOf(id)) + 1
      <4>1. IsFiniteSet(DevicesOf(id))
        BY SetsAreFinite
      <4>2. /\ IsFiniteSet(DevicesOf(id) \cup {device})
            /\ Cardinality(DevicesOf(id) \cup {device})
                 = IF device \in DevicesOf(id) THEN Cardinality(DevicesOf(id)) ELSE Cardinality(DevicesOf(id)) + 1
        BY <4>1, FS_AddElement
      <4> QED BY <2>1, <4>2
    <3>5. /\ Cardinality(DevicesOf(id)') \in Nat
          /\ Cardinality(DevicesOf(id) \cup {device}) \in Nat
          /\ Cardinality(DevicesOf(id)') <= Cardinality(DevicesOf(id) \cup {device})
      BY <3>3, <3>4, Smaller
    <3> QED BY <2>1, <3>2, <3>4, <3>5, Numbers
  <2> QED BY <2>2, <2>3
<1>8. Allowance' = Allowance /\ \A k : Counted(k)' = Counted(k)
  BY <1>1 DEF Allowance, Counted
<1> QED BY <1>1, <1>5, <1>7, <1>8 DEF Bounded

(* Where the other steps take a call.                                       *)
Moves(c) ==
    \/ \E call : Goes(c, call) /\ call.pc \in {"idle", "event", "limit", "stack", "licence"}
    \/ ~At(c, "idle") /\
         \/ \E pc \in PCs \ {"count", "register"} : To(c, pc)
         \/ \E base : Goes(c, [calls[c] EXCEPT !.pc = "insert", !.base = base])
         \/ \E keys : Goes(c, [calls[c] EXCEPT !.pc = "send", !.keys = keys])
         \/ \E cart, keys : \E pc \in {"stack", "keys", "send"} :
              Goes(c, [calls[c] EXCEPT !.cart = cart, !.pc = pc, !.keys = keys])

LEMMA OtherSteps ==
    ASSUME IInv, NEW c \in Calls,
           \/ \E req \in Requests : Receive(c, req)
           \/ CheckEvent(c) \/ Stack(c) \/ Insert(c) \/ Keys(c) \/ Send(c) \/ Record(c) \/ SetStatus(c)
           \/ (CheckLimit(c) /\ ~Passes(Kind(c)))
           \/ Existing(c) \/ Licence(c) \/ (ReadDevices(c) /\ ~To(c, "register"))
           \/ Touch(c) \/ Deactivate(c) \/ Cut(c)
    PROVE  /\ \A d \in Calls \ {c} : calls'[d] = calls[d]
           /\ ~At(c, "count")' /\ ~At(c, "register")'
           /\ UNCHANGED windows /\ activations' \subseteq activations
<1>1. CallsOK /\ (~At(c, "idle") => Running(calls[c]))
  BY DEF IInv, CallsOK
<1>2. UNCHANGED windows /\ activations' \subseteq activations
  BY DEF Receive, CheckEvent, Stack, Insert, Keys, Send, Record, SetStatus, CheckLimit,
         Existing, Licence, ReadDevices, Touch, Deactivate, Cut, Keeps
<1>3. Moves(c)
  <2>1. ASSUME NEW req \in Requests, Receive(c, req)
        PROVE  Moves(c)
    <3>1. FirstPc(req.kind) \in {"event", "limit", "stack", "licence"}
      BY DEF FirstPc
    <3> QED BY <2>1, <3>1 DEF Receive, Moves
  <2>2. CASE Ends(c)
    BY <2>2 DEF Ends, Idle, Moves
  <2>3. CASE Stack(c)
    BY <2>3 DEF Stack, At, Moves
  <2>4. CASE Keys(c)
    BY <2>4 DEF Keys, At, Moves
  <2>5. CASE Insert(c)
    <3>1. PICK cart, pc, keys :
            /\ Goes(c, [calls[c] EXCEPT !.cart = cart, !.pc = pc, !.keys = keys])
            /\ pc = IF cart # <<>> THEN "stack" ELSE IF Kind(c) = "payment" THEN "keys" ELSE "send"
      BY <2>5 DEF Insert
    <3>2. pc \in {"stack", "keys", "send"} /\ ~At(c, "idle")
      BY <2>5, <3>1 DEF Insert, At
    <3> QED BY <3>1, <3>2 DEF Moves
  <2>6. CASE CheckEvent(c)
    <3>1. ~At(c, "idle") /\ (Ends(c) \/ To(c, "status") \/ To(c, "keys") \/ To(c, "stack"))
      BY <2>6 DEF CheckEvent, At
    <3> QED BY <2>2, <3>1 DEF PCs, Moves
  <2>7. CASE Send(c) \/ Record(c) \/ SetStatus(c) \/ (CheckLimit(c) /\ ~Passes(Kind(c))) \/ Existing(c)
               \/ Licence(c) \/ (ReadDevices(c) /\ ~To(c, "register")) \/ Touch(c) \/ Deactivate(c) \/ Cut(c)
    <3>1. \/ Ends(c)
          \/ ~At(c, "idle") /\ (\/ To(c, "record") \/ To(c, "insert") \/ To(c, "devices") \/ To(c, "remove")
                                \/ To(c, "touch"))
      BY <2>7 DEF Send, Record, SetStatus, CheckLimit, Existing, Licence, ReadDevices, Touch, Deactivate, Cut, At
    <3> QED BY <2>2, <3>1 DEF PCs, Moves
  <2> QED BY <2>1, <2>3, <2>4, <2>5, <2>6, <2>7
<1>4. PICK call : Goes(c, call) /\ call.pc \notin {"count", "register"}
  <2>1. CASE \E call : Goes(c, call) /\ call.pc \in {"idle", "event", "limit", "stack", "licence"}
    BY <2>1
  <2>2. ASSUME NEW pc \in PCs \ {"count", "register"}, ~At(c, "idle"), To(c, pc)
        PROVE  \E call : Goes(c, call) /\ call.pc \notin {"count", "register"}
    <3>1. PICK call : call = [calls[c] EXCEPT !.pc = pc]
      OBVIOUS
    <3>2. call.pc = pc
      BY <1>1, <2>2, <3>1 DEF Running
    <3> QED BY <2>2, <3>1, <3>2 DEF To
  <2>3. ASSUME NEW base, ~At(c, "idle"), Goes(c, [calls[c] EXCEPT !.pc = "insert", !.base = base])
        PROVE  \E call : Goes(c, call) /\ call.pc \notin {"count", "register"}
    <3>1. PICK call : call = [calls[c] EXCEPT !.pc = "insert", !.base = base]
      OBVIOUS
    <3>2. call = [pc |-> "insert", req |-> calls[c].req, cart |-> calls[c].cart, base |-> base, keys |-> calls[c].keys]
      BY <1>1, <2>3, <3>1, AssignBase
    <3>3. call.pc = "insert"
      BY <3>2
    <3> QED BY <2>3, <3>1, <3>3
  <2>4. ASSUME NEW keys, ~At(c, "idle"), Goes(c, [calls[c] EXCEPT !.pc = "send", !.keys = keys])
        PROVE  \E call : Goes(c, call) /\ call.pc \notin {"count", "register"}
    <3>1. PICK call : call = [calls[c] EXCEPT !.pc = "send", !.keys = keys]
      OBVIOUS
    <3>2. call = [pc |-> "send", req |-> calls[c].req, cart |-> calls[c].cart, base |-> calls[c].base, keys |-> keys]
      BY <1>1, <2>4, <3>1, AssignKeys
    <3>3. call.pc = "send"
      BY <3>2
    <3> QED BY <2>4, <3>1, <3>3
  <2>5. ASSUME NEW cart, NEW keys, NEW pc \in {"stack", "keys", "send"}, ~At(c, "idle"),
               Goes(c, [calls[c] EXCEPT !.cart = cart, !.pc = pc, !.keys = keys])
        PROVE  \E call : Goes(c, call) /\ call.pc \notin {"count", "register"}
    <3>1. PICK call : call = [calls[c] EXCEPT !.cart = cart, !.pc = pc, !.keys = keys]
      OBVIOUS
    <3>2. call = [pc |-> pc, req |-> calls[c].req, cart |-> cart, base |-> calls[c].base, keys |-> keys]
      BY <1>1, <2>5, <3>1, AssignThree
    <3>3. call.pc = pc
      BY <3>2
    <3> QED BY <2>5, <3>1, <3>3
  <2> QED BY <1>3, <2>1, <2>2, <2>3, <2>4, <2>5 DEF Moves
<1>5. calls'[c] = call /\ \A d \in Calls \ {c} : calls'[d] = calls[d]
  BY <1>1, <1>4 DEF Goes, CallsOK
<1> QED BY <1>2, <1>4, <1>5 DEF At

LEMMA InitBounded == Init => Bounded
<1> SUFFICES ASSUME Init PROVE Bounded
  OBVIOUS
<1>1. \A c \in Calls : calls[c] = Idle
  BY DEF Init
<1>2. \A k : Counting(k) = {}
  BY <1>1 DEF Counting, At, Idle
<1>3. \A id : Registering(id) = {} /\ DevicesOf(id) = {}
  BY <1>1 DEF Init, Registering, DevicesOf, At, Idle
<1>4. resends \in [Limited -> Nat] /\ {earlier, erased, hours} \subseteq Nat /\ \A k \in Limited : Counted(k) = 0
  BY DEF Init, Counted
<1>5. \A k \in Limited : Counted(k) + Cardinality(Counting(k)) = 0
  <2>1. \A k : Cardinality(Counting(k)) = 0
    BY <1>2, FS_EmptySet, SetsAreFinite
  <2> QED BY <1>4, <2>1
<1>6. \A id : Cardinality(DevicesOf(id)) + Cardinality(Registering(id)) = 0
  <2>1. \A id : Cardinality(DevicesOf(id)) = 0 /\ Cardinality(Registering(id)) = 0
    BY <1>3, FS_EmptySet, SetsAreFinite
  <2> QED BY <2>1
<1>7. 0 <= Allowance /\ 0 <= DeviceLimit + Cardinality(Calls) - 1
  BY Numbers DEF Allowance
<1>8. erased + earlier <= hours * Allowance
  <2>1. erased = 0 /\ earlier = 0 /\ hours = 0 /\ Allowance \in Int
    BY Numbers DEF Init, Allowance
  <2> QED BY <2>1
<1> QED BY <1>4, <1>5, <1>6, <1>7, <1>8 DEF Bounded

LEMMA OneMoreHour ==
    ASSUME NEW n \in Nat, NEW a \in Int
    PROVE  (n + 1) * a = n * a + a /\ n * a \in Int
<1> QED OBVIOUS

LEMMA NextBounded == IInv /\ Bounded /\ [Next]_vars => Bounded'
<1> SUFFICES ASSUME IInv, Bounded, [Next]_vars PROVE Bounded'
  OBVIOUS
<1>1. CASE UNCHANGED vars
  <2>1. UNCHANGED <<resends, earlier, erased, hours, activations, calls>>
    BY <1>1 DEF vars, windows
  <2> QED BY <2>1 DEF Bounded, Counting, Counted, Allowance, Registering, DevicesOf, At, Kind
<1>2. CASE HourPasses \/ DayPasses
  <2>1. UNCHANGED <<calls, activations>> /\ resends' = [k \in Limited |-> 0]
    BY <1>2 DEF HourPasses, DayPasses
  <2>2. \A k : Counting(k)' = Counting(k)
    BY <2>1 DEF Counting, At, Kind
  <2>3. \A id : Registering(id)' = Registering(id) /\ DevicesOf(id)' = DevicesOf(id)
    BY <2>1 DEF Registering, DevicesOf, At
  <2>4. \A k : Cardinality(Counting(k)) \in Nat /\ Cardinality(Counting(k)) <= Cardinality(Calls)
    BY SetsAreFinite, Smaller, Numbers
  <2>5. /\ resends' \in [Limited -> Nat] /\ \A k \in Limited : resends'[k] = 0
        /\ earlier \in Nat /\ erased \in Nat /\ hours \in Nat /\ resends["free"] \in Nat
    BY <2>1, CountedIsNat DEF Bounded
  <2>6. Allowance \in Int /\ Allowance' = Allowance /\ 0 <= Allowance - Cardinality(Calls)
    BY Numbers DEF Allowance
  <2>7. /\ Counted("resend")' = 0 /\ Counted("free")' = earlier'
        /\ earlier' \in 0..(resends["free"] + earlier)
        /\ erased' + earlier' <= hours' * Allowance
        /\ erased' \in Nat /\ hours' \in Nat
    <3>1. Counted("resend")' = 0 /\ (earlier' \in Nat => Counted("free")' = earlier')
      BY <2>5, CountedIsNat DEF Counted
    <3>2. CASE HourPasses
      <4>1. earlier' = earlier + resends["free"] /\ hours' = hours + 1 /\ erased' = erased
        BY <3>2 DEF HourPasses
      <4>2. resends["free"] + earlier <= Allowance /\ erased + earlier <= hours * Allowance
        <5>1. Cardinality(Counting("free")) \in Nat
          BY <2>4
        <5>2. Counted("free") + Cardinality(Counting("free")) <= Allowance
          BY CountedIsNat DEF Bounded
        <5> QED BY <2>5, <2>6, <5>1, <5>2, CountedIsNat DEF Bounded
      <4>3. hours' * Allowance = hours * Allowance + Allowance /\ hours * Allowance \in Int
        BY <2>5, <2>6, <4>1, OneMoreHour
      <4>4. earlier' \in Nat /\ erased' \in Nat /\ hours' \in Nat
        BY <2>5, <4>1
      <4>5. earlier' \in 0..(resends["free"] + earlier)
        BY <2>5, <4>1
      <4>6. erased' + earlier' <= hours' * Allowance
        <5>1. PICK a \in Int : a = Allowance
          BY <2>6
        <5>2. PICK spent \in Int : spent = hours * Allowance
          BY <4>3
        <5>3. hours' * Allowance = spent + a
          BY <4>3, <5>1, <5>2
        <5>4. resends["free"] + earlier <= a /\ erased + earlier <= spent
          BY <4>2, <5>1, <5>2
        <5>5. erased' + earlier' <= spent + a
          BY <2>5, <4>1, <5>1, <5>2, <5>4
        <5> QED BY <5>3, <5>5
      <4> QED BY <3>1, <4>4, <4>5, <4>6
    <3>3. CASE DayPasses
      <4>1. earlier' = 0 /\ hours' = 0 /\ erased' = 0 /\ 0 * Allowance = 0
        BY <2>6, <3>3 DEF DayPasses
      <4> QED BY <2>5, <3>1, <4>1
    <3> QED BY <1>2, <3>2, <3>3
  <2>8. \A k \in Limited : Counted(k)' + Cardinality(Counting(k)') <= Allowance
    <3>1. CASE HourPasses \/ DayPasses
      <4>1. Counted("resend")' + Cardinality(Counting("resend")') <= Allowance
        BY <2>2, <2>4, <2>6, <2>7, Numbers
      <4>2. Counted("free")' + Cardinality(Counting("free")') <= Allowance
        <5>1. Counted("free") + Cardinality(Counting("free")) <= Allowance /\ Counted("free") = resends["free"] + earlier
          BY CountedIsNat DEF Bounded
        <5> QED BY <2>2, <2>4, <2>5, <2>6, <2>7, <5>1
      <4> QED BY <4>1, <4>2 DEF Limited
    <3> QED BY <1>2, <3>1
  <2>9. \A id : Cardinality(DevicesOf(id)') + Cardinality(Registering(id)')
                 <= DeviceLimit + Cardinality(Calls) - 1
    BY <2>3 DEF Bounded
  <2>10. earlier' \in Nat
    BY <2>5, <2>7
  <2>11. resends' \in [Limited -> Nat] /\ {earlier', erased', hours'} \subseteq Nat
    BY <2>5, <2>7, <2>10
  <2>12. erased' + earlier' <= hours' * Allowance'
    BY <2>6, <2>7
  <2>13. \A k \in Limited : Counted(k)' + Cardinality(Counting(k)') <= Allowance'
    BY <2>6, <2>8
  <2> QED BY <2>9, <2>11, <2>12, <2>13 DEF Bounded
<1>3. ASSUME NEW c \in Calls,
             \/ (CheckLimit(c) /\ Passes(Kind(c))) \/ Count(c) \/ Purge(c)
             \/ (ReadDevices(c) /\ To(c, "register")) \/ Register(c)
      PROVE  Bounded'
  BY <1>3, PassesLimit, CountsBounded, PurgeBounded, FindsRoom, RegistersBounded
<1>4. ASSUME NEW c \in Calls,
             \/ \E req \in Requests : Receive(c, req)
             \/ CheckEvent(c) \/ Stack(c) \/ Insert(c) \/ Keys(c) \/ Send(c) \/ Record(c) \/ SetStatus(c)
             \/ (CheckLimit(c) /\ ~Passes(Kind(c)))
             \/ Existing(c) \/ Licence(c) \/ (ReadDevices(c) /\ ~To(c, "register"))
             \/ Touch(c) \/ Deactivate(c) \/ Cut(c)
      PROVE  Bounded'
  BY <1>4, OtherSteps, Elsewhere
<1> QED BY <1>1, <1>2, <1>3, <1>4 DEF Next

(* Between the check of a limit and what is counted there is an await: as   *)
(* many calls as run can be there, and no more come through, for any limit  *)
(* and any number of calls.  The deletions of a resend forget free keys of  *)
(* earlier hours only, at most one allowance for each (worker: handleFree,  *)
(* handleResend, handleActivate).                                           *)
THEOREM OvershootIsBoundedHolds == Spec => []OvershootIsBounded
<1>1. Bounded => OvershootIsBounded
  <2> SUFFICES ASSUME Bounded PROVE OvershootIsBounded
    OBVIOUS
  <2>1. \A k \in Limited : Counted(k) <= Allowance
    <3>1. \A k : Cardinality(Counting(k)) \in Nat
      BY SetsAreFinite, FS_CardinalityType
    <3>2. Allowance \in Int
      BY Numbers DEF Allowance
    <3> QED BY <3>1, <3>2, CountedIsNat DEF Bounded
  <2>3. erased <= hours * Allowance
    <3>1. Allowance \in Int /\ hours \in Nat /\ erased \in Nat /\ earlier \in Nat
      BY Numbers DEF Allowance, Bounded
    <3>2. hours * Allowance \in Int
      BY <3>1, OneMoreHour
    <3> QED BY <3>1, <3>2 DEF Bounded
  <2>2. \A id : Cardinality(DevicesOf(id)) <= DeviceLimit + Cardinality(Calls) - 1
    <3>1. \A id : Cardinality(Registering(id)) \in Nat /\ Cardinality(DevicesOf(id)) \in Nat
      BY SetsAreFinite, FS_CardinalityType
    <3> QED BY <3>1, Numbers DEF Bounded
  <2> QED BY <2>1, <2>2, <2>3 DEF OvershootIsBounded
<1> QED BY <1>1, InitBounded, NextBounded, AlwaysIInv, PTL DEF Spec

-----------------------------------------------------------------------------
(* The types: the rows are numbered as they are minted, and a year that is  *)
(* stacked on others cannot outnumber the rows.                             *)

TableOK ==
    /\ IsFiniteSet(licenses) /\ Cardinality(licenses) <= MaxLicences
    /\ \A l \in licenses :
         /\ l.product \in Products /\ l.provider \in AllKinds
         /\ l.payment \in Payments \cup {None} /\ l.status \in {"active", "refunded", "revoked"}
         /\ l.id \in 1..Cardinality(licenses) /\ l.expiry \in 0..l.id
    /\ \A l, m \in licenses : l.id = m.id => l = m

Fits(c) ==
    ~At(c, "idle") =>
      /\ calls[c].base \in 0..Cardinality(licenses) /\ calls[c].keys \subseteq Ids(licenses)
      /\ calls[c].pc \in {"licence", "devices", "touch", "register", "remove"} =>
           Kind(c) \in {"activate", "deactivate"}

OtherTables ==
    /\ activations \subseteq (1..MaxLicences) \X Devices
    /\ emailed \subseteq Ids(licenses) /\ events \subseteq Requests

TInv == IInv /\ TableOK /\ OtherTables /\ \A c \in Calls : Fits(c)

LEMMA MaxIsOne ==
    ASSUME NEW S, IsFiniteSet(S), S \subseteq Int, S # {}
    PROVE  Max(S) \in S
<1> DEFINE Above(x) == {y \in S : y >= x}
           R == StrictSubsetOrdering(S)
           Cuts == {Above(x) : x \in S}
<1>1. FiniteSubsetsOf(S) = SUBSET S
  BY FS_FiniteSubsetsOfFinite
<1>2. IsWellFoundedOn(R, SUBSET S)
  BY <1>1, FS_StrictSubsetOrderingWellFounded
<1>3. Cuts \subseteq SUBSET S /\ Cuts # {}
  <2>1. \A x \in S : Above(x) \subseteq S
    OBVIOUS
  <2> HIDE DEF Above
  <2> QED BY <2>1
<1>4. \E T \in Cuts : \A U \in Cuts : ~(<<U, T>> \in R)
  <2> HIDE DEF R, Cuts
  <2> QED BY <1>2, <1>3, WFMin
<1>5. PICK x \in S : \A y \in S : ~(<<Above(y), Above(x)>> \in R)
  BY <1>4
<1>6. ASSUME NEW y \in S PROVE x >= y
  <2>1. SUFFICES ASSUME ~(x >= y) PROVE FALSE
    OBVIOUS
  <2>2. \A z \in S : z \in Int
    OBVIOUS
  <2>3. x >= x /\ y > x /\ \A z \in Int : z >= y => z >= x
    BY <2>1, <2>2
  <2>4. Above(y) \subseteq Above(x) /\ x \in Above(x) /\ x \notin Above(y)
    <3>1. \A z \in S : z >= y => z >= x
      BY <2>2, <2>3
    <3> QED BY <2>1, <2>3, <3>1
  <2>5. Above(x) \in SUBSET S /\ Above(y) \in SUBSET S
    OBVIOUS
  <2> HIDE DEF Above
  <2>6. <<Above(y), Above(x)>> \in R
    BY <2>4, <2>5 DEF StrictSubsetOrdering
  <2> QED BY <1>5, <2>6
<1> QED BY <1>6 DEF Max

(* The other calls: the table has grown or is as it was. *)
LEMMA OthersFit ==
    ASSUME NEW c \in Calls, Fits(c), calls'[c] = calls[c],
           Cardinality(licenses) \in Nat, Cardinality(licenses') \in Nat,
           Cardinality(licenses) <= Cardinality(licenses'), Ids(licenses) \subseteq Ids(licenses')
    PROVE  Fits(c)'
<1>1. \A n \in 0..Cardinality(licenses) : n \in 0..Cardinality(licenses')
  OBVIOUS
<1> QED BY <1>1 DEF Fits, At, Kind

LEMMA IdleFits ==
    ASSUME CallsOK, NEW c \in Calls, Ends(c)
    PROVE  Fits(c)'
<1>1. calls'[c] = Idle
  BY DEF CallsOK, Ends, Goes
<1> QED BY <1>1 DEF Fits, At, Idle

LEMMA ToFits ==
    ASSUME CallsOK, NEW c \in Calls, Fits(c), NEW pc \in PCs, ~At(c, "idle"), To(c, pc),
           UNCHANGED licenses,
           pc \in {"licence", "devices", "touch", "register", "remove"} =>
             calls[c].pc \in {"licence", "devices"}
    PROVE  Fits(c)'
<1>1. PICK call : call = [calls[c] EXCEPT !.pc = pc]
  OBVIOUS
<1>2. call.pc = pc /\ call.req = calls[c].req /\ call.base = calls[c].base /\ call.keys = calls[c].keys
  BY <1>1 DEF CallsOK, Running
<1>3. calls'[c] = call
  BY <1>1 DEF To, Goes, CallsOK
<1> QED BY <1>2, <1>3 DEF Fits, At, Kind

(* A step of c that leaves the table. *)
LEMMA StepFits ==
    ASSUME TInv, NEW c \in Calls, IInv', UNCHANGED licenses, OtherTables', Fits(c)',
           \A d \in Calls \ {c} : calls'[d] = calls[d]
    PROVE  TInv'
<1>1. TableOK'
  BY DEF TInv, TableOK
<1>2. Cardinality(licenses) \in Nat /\ Cardinality(licenses) <= Cardinality(licenses)
  BY FS_CardinalityType DEF TInv, TableOK
<1>3. \A d \in Calls \ {c} : Fits(d)'
  BY <1>2, OthersFit DEF TInv
<1> QED BY <1>1, <1>3 DEF TInv

LEMMA OthersStay ==
    ASSUME CallsOK, NEW c \in Calls, NEW call, Goes(c, call)
    PROVE  calls'[c] = call /\ \A d \in Calls \ {c} : calls'[d] = calls[d]
BY DEF CallsOK, Goes

LEMMA ReceiveFits ==
    ASSUME TInv, IInv', NEW c \in Calls, NEW req \in Requests, Receive(c, req)
    PROVE  TInv'
<1>1. PICK call : call = [pc |-> FirstPc(req.kind), req |-> req, cart |-> CartOf(req), base |-> 0, keys |-> {}]
  OBVIOUS
<1>2. calls'[c] = call /\ \A d \in Calls \ {c} : calls'[d] = calls[d]
  BY <1>1, OthersStay DEF Receive, TInv, IInv
<1>3. UNCHANGED <<licenses, activations, emailed, events>>
  BY DEF Receive, Keeps
<1>4. OtherTables'
  BY <1>3 DEF TInv, OtherTables
<1>5. FirstPc(req.kind) \notin {"devices", "touch", "register", "remove"}
      /\ (FirstPc(req.kind) = "licence" => req.kind \in {"activate", "deactivate"})
  BY RequestTypes DEF FirstPc, AllKinds, Webhooks, Limited
<1>6. 0 \in 0..Cardinality(licenses)
  BY FS_CardinalityType DEF TInv, TableOK
<1>7. Fits(c)'
  BY <1>1, <1>2, <1>3, <1>5, <1>6 DEF Fits, Kind
<1> QED BY <1>2, <1>3, <1>4, <1>7, StepFits

(* The steps that move the call, and may write the mail, the events or the  *)
(* activations.                                                             *)
LEMMA MovesFit ==
    ASSUME TInv, IInv', NEW c \in Calls,
           \/ CheckEvent(c) \/ Send(c) \/ Record(c) \/ CheckLimit(c) \/ Count(c) \/ Purge(c) \/ Existing(c)
           \/ Licence(c) \/ ReadDevices(c) \/ Touch(c) \/ Register(c) \/ Deactivate(c) \/ Cut(c)
    PROVE  TInv'
<1>1. ~At(c, "idle") /\ UNCHANGED licenses
  BY DEF CheckEvent, Send, Record, CheckLimit, Count, Purge, Existing, Licence, ReadDevices, Touch,
         Register, Deactivate, Cut, Keeps, At
<1>2. CallsOK /\ Running(calls[c]) /\ Fits(c) /\ OtherTables
  BY <1>1 DEF TInv, IInv, CallsOK
<1>4. PICK pc \in PCs :
        \/ Ends(c)
        \/ /\ To(c, pc)
           /\ pc \in {"licence", "devices", "touch", "register", "remove"} =>
                calls[c].pc \in {"licence", "devices"}
  BY DEF CheckEvent, Send, Record, CheckLimit, Count, Purge, Existing, Licence, ReadDevices, Touch,
         Register, Deactivate, Cut, PCs, At
<1>5. Fits(c)'
  BY <1>1, <1>2, <1>4, IdleFits, ToFits
<1>6. \A d \in Calls \ {c} : calls'[d] = calls[d]
  BY <1>2, <1>4, OthersStay DEF Ends, To
<1>7. activations' \subseteq (1..MaxLicences) \X Devices
  <2>1. CASE Register(c)
    <3>1. calls[c].req \in Requests /\ Kind(c) \in {"activate", "deactivate"}
      BY <1>1, <1>2, <2>1 DEF Register, Fits, Running, At
    <3>2. calls[c].req.of \in 1..MaxLicences /\ calls[c].req.device \in Devices
      BY <3>1 DEF Requests, Kind, Webhooks
    <3> QED BY <1>2, <2>1, <3>2 DEF Register, OtherTables
  <2>2. CASE ~Register(c)
    <3>1. activations' \subseteq activations
      BY <2>2 DEF CheckEvent, Send, Record, CheckLimit, Count, Purge, Existing, Licence, ReadDevices, Touch,
                  Deactivate, Cut, Keeps
    <3> QED BY <1>2, <3>1 DEF OtherTables
  <2> QED BY <2>1, <2>2
<1>8. emailed' \subseteq Ids(licenses')
  <2>1. emailed' \subseteq emailed \cup calls[c].keys
    BY DEF CheckEvent, Send, Record, CheckLimit, Count, Purge, Existing, Licence, ReadDevices, Touch,
           Register, Deactivate, Cut, Keeps
  <2> QED BY <1>1, <1>2, <2>1 DEF OtherTables, Fits
<1>9. events' \subseteq Requests
  <2>1. events' \subseteq events \cup {calls[c].req}
    BY DEF CheckEvent, Send, Record, CheckLimit, Count, Purge, Existing, Licence, ReadDevices, Touch,
           Register, Deactivate, Cut, Keeps
  <2> QED BY <1>2, <2>1 DEF OtherTables, Running
<1>10. OtherTables'
  BY <1>7, <1>8, <1>9 DEF OtherTables
<1> QED BY <1>1, <1>5, <1>6, <1>10, StepFits

LEMMA StackFits ==
    ASSUME TInv, IInv', NEW c \in Calls, Stack(c)
    PROVE  TInv'
<1>1. PICK years, base :
        /\ years = {l.expiry : l \in {m \in Active : m.product = "ls-pro"}} \cup {0}
        /\ base = Max(years) /\ Goes(c, [calls[c] EXCEPT !.pc = "insert", !.base = base])
  BY DEF Stack
<1>2. UNCHANGED <<licenses, activations, emailed, events>> /\ ~At(c, "idle")
  BY DEF Stack, Keeps, At
<1>3. CallsOK /\ Running(calls[c]) /\ Fits(c) /\ OtherTables'
  BY <1>2 DEF TInv, IInv, CallsOK, OtherTables
<1>4. base \in 0..Cardinality(licenses)
  <2>1. Cardinality(licenses) \in Nat
    BY FS_CardinalityType DEF TInv, TableOK
  <2>2. years \subseteq 0..Cardinality(licenses)
    <3>1. \A l \in licenses : l.expiry \in 0..Cardinality(licenses)
      BY <2>1 DEF TInv, TableOK
    <3> QED BY <1>1, <2>1, <3>1 DEF Active
  <2>3. IsFiniteSet(years)
    <3>1. IsFiniteSet(0..Cardinality(licenses))
      BY <2>1, FS_Interval
    <3> QED BY <2>2, <3>1, FS_Subset
  <2>4. base \in years
    <3>1. years \subseteq Int /\ years # {}
      BY <1>1, <2>2
    <3> QED BY <1>1, <2>3, <3>1, MaxIsOne
  <2> QED BY <2>2, <2>4
<1>5. PICK call : call = [pc |-> "insert", req |-> calls[c].req, cart |-> calls[c].cart,
                          base |-> base, keys |-> calls[c].keys]
  OBVIOUS
<1>6. calls'[c] = call /\ \A d \in Calls \ {c} : calls'[d] = calls[d]
  <2>1. [calls[c] EXCEPT !.pc = "insert", !.base = base] = call
    BY <1>3, <1>5, AssignBase
  <2>2. Goes(c, call)
    BY <1>1, <2>1
  <2> QED BY <1>3, <2>2, OthersStay
<1>7. Fits(c)'
  BY <1>2, <1>3, <1>4, <1>5, <1>6 DEF Fits, Kind
<1> QED BY <1>2, <1>3, <1>6, <1>7, StepFits

LEMMA KeysFit ==
    ASSUME TInv, IInv', NEW c \in Calls, Keys(c)
    PROVE  TInv'
<1>1. PICK keys : /\ keys \subseteq Ids(licenses)
                  /\ Goes(c, [calls[c] EXCEPT !.pc = "send", !.keys = keys])
  BY DEF Keys, Ids, OfPayment, Active
<1>2. UNCHANGED <<licenses, activations, emailed, events>> /\ ~At(c, "idle")
  BY DEF Keys, Keeps, At
<1>3. CallsOK /\ Running(calls[c]) /\ Fits(c) /\ OtherTables'
  BY <1>2 DEF TInv, IInv, CallsOK, OtherTables
<1>4. PICK call : call = [pc |-> "send", req |-> calls[c].req, cart |-> calls[c].cart,
                          base |-> calls[c].base, keys |-> keys]
  OBVIOUS
<1>5. calls'[c] = call /\ \A d \in Calls \ {c} : calls'[d] = calls[d]
  <2>1. [calls[c] EXCEPT !.pc = "send", !.keys = keys] = call
    BY <1>3, <1>4, AssignKeys
  <2>2. Goes(c, call)
    BY <1>1, <2>1
  <2> QED BY <1>3, <2>2, OthersStay
<1>6. Fits(c)'
  BY <1>1, <1>2, <1>3, <1>4, <1>5 DEF Fits, Kind
<1> QED BY <1>2, <1>3, <1>5, <1>6, StepFits

(* A step of c that adds to the table, or changes it in place. *)
LEMMA TableFits ==
    ASSUME TInv, IInv', NEW c \in Calls, TableOK', UNCHANGED <<activations, emailed, events>>, Fits(c)',
           \A d \in Calls \ {c} : calls'[d] = calls[d],
           Ids(licenses) \subseteq Ids(licenses'), Cardinality(licenses) <= Cardinality(licenses')
    PROVE  TInv'
<1>1. Cardinality(licenses) \in Nat /\ Cardinality(licenses') \in Nat
  BY FS_CardinalityType DEF TInv, TableOK
<1>2. \A d \in Calls : Fits(d)'
  BY <1>1, OthersFit DEF TInv
<1>3. OtherTables'
  BY DEF TInv, OtherTables
<1> QED BY <1>2, <1>3 DEF TInv

LEMMA InsertTable ==
    ASSUME TInv, NEW lic, licenses' = licenses \cup {lic}, Cardinality(licenses') <= MaxLicences,
           lic.id = Cardinality(licenses) + 1, lic.product \in Products, lic.provider \in AllKinds,
           lic.payment \in Payments \cup {None}, lic.status = "active", lic.expiry \in 0..lic.id
    PROVE  TableOK' /\ Cardinality(licenses') = Cardinality(licenses) + 1
<1>1. IsFiniteSet(licenses) /\ Cardinality(licenses) \in Nat
  BY FS_CardinalityType DEF TInv, TableOK
<1>2. \A l \in licenses : l.id # lic.id
  BY <1>1 DEF TInv, TableOK
<1>3. IsFiniteSet(licenses') /\ Cardinality(licenses') = Cardinality(licenses) + 1
  BY <1>1, <1>2, FS_AddElement
<1>4. \A l \in licenses : l.id \in 1..Cardinality(licenses')
  BY <1>1, <1>3 DEF TInv, TableOK
<1>5. lic.id \in 1..Cardinality(licenses')
  BY <1>1, <1>3
<1>6. \A l, m \in licenses' : l.id = m.id => l = m
  BY <1>2 DEF TInv, TableOK
<1>7. ASSUME NEW l \in licenses'
      PROVE  /\ l.product \in Products /\ l.provider \in AllKinds
             /\ l.payment \in Payments \cup {None} /\ l.status \in {"active", "refunded", "revoked"}
             /\ l.id \in 1..Cardinality(licenses') /\ l.expiry \in 0..l.id
  BY <1>4, <1>5, <1>7 DEF TInv, TableOK
<1> QED BY <1>3, <1>6, <1>7 DEF TableOK

LEMMA InsertFits ==
    ASSUME TInv, IInv', NEW c \in Calls, Insert(c)
    PROVE  TInv'
<1>1. PICK lic, keys, cart, pc :
        /\ lic = Minted(c) /\ keys = IF Kind(c) = "payment" THEN {} ELSE {lic.id}
        /\ Goes(c, [calls[c] EXCEPT !.cart = cart, !.pc = pc, !.keys = keys])
        /\ pc \in {"stack", "keys", "send"}
  BY DEF Insert
<1>2. /\ At(c, "insert") /\ ~At(c, "idle") /\ Cardinality(licenses') <= MaxLicences
      /\ licenses' = Inserted(lic) /\ UNCHANGED <<activations, emailed, events>>
  BY <1>1 DEF Insert, Keeps, At
<1>3. CallsOK /\ Running(calls[c]) /\ Fits(c) /\ Places(c)
  BY <1>2 DEF TInv, IInv, CallsOK
<1>4. /\ calls[c].cart \in Seq(Products) /\ calls[c].cart # <<>>
      /\ Kind(c) \in {"payment", "issue", "free"} /\ calls[c].req \in Requests
      /\ calls[c].base \in 0..Cardinality(licenses)
  BY <1>2, <1>3 DEF Places, Running, At, Fits
<1>5. /\ lic.id = Cardinality(licenses) + 1 /\ lic.product = Head(calls[c].cart)
      /\ lic.provider = Kind(c) /\ lic.payment = calls[c].req.of /\ lic.status = "active"
      /\ lic.expiry \in {0, calls[c].base + 1} /\ IsRow(lic)
  BY <1>1 DEF Minted, IsRow
<1>6. IsFiniteSet(licenses) /\ Cardinality(licenses) \in Nat
  BY FS_CardinalityType DEF TInv, TableOK
<1>7. /\ lic.product \in Products /\ lic.provider \in AllKinds
      /\ lic.payment \in Payments \cup {None} /\ (Kind(c) # "payment" => lic.payment = None)
      /\ lic.expiry \in 0..lic.id
  <2>1. Head(calls[c].cart) \in Products
    BY <1>4
  <2>2. /\ Kind(c) = "payment" => calls[c].req.of \in Payments
        /\ Kind(c) # "payment" => calls[c].req.of = None
    BY <1>4, RequestTypes DEF Kind
  <2>3. lic.expiry \in 0..lic.id
    BY <1>4, <1>5, <1>6
  <2> QED BY <1>4, <1>5, <2>1, <2>2, <2>3 DEF AllKinds
<1>8. PICK call : call = [pc |-> pc, req |-> calls[c].req, cart |-> cart,
                          base |-> calls[c].base, keys |-> keys]
  OBVIOUS
<1>9. calls'[c] = call /\ \A d \in Calls \ {c} : calls'[d] = calls[d]
  <2>1. [calls[c] EXCEPT !.cart = cart, !.pc = pc, !.keys = keys] = call
    BY <1>3, <1>8, AssignThree
  <2>2. Goes(c, call)
    BY <1>1, <2>1
  <2> QED BY <1>3, <2>2, OthersStay
<1>10. CASE \E l \in licenses : Same(l, lic)
  <2>1. licenses' = licenses
    BY <1>2, <1>10 DEF Inserted
  <2>2. lic.payment # None
    <3>1. PICK l \in licenses : Same(l, lic)
      BY <1>10
    <3>2. IsRow(l)
      BY DEF TInv, IInv, RowsOK
    <3> QED BY <1>5, <3>1, <3>2 DEF Same, IsRow
  <2>3. keys = {}
    BY <1>1, <1>7, <2>2
  <2>4. Fits(c)'
    <3>1. /\ calls'[c].pc = pc /\ calls'[c].base = calls[c].base /\ calls'[c].keys = {}
          /\ Cardinality(licenses') = Cardinality(licenses)
      BY <1>8, <1>9, <2>1, <2>3
    <3> QED BY <1>1, <1>4, <3>1 DEF Fits
  <2>5. OtherTables'
    BY <1>2, <2>1 DEF TInv, OtherTables
  <2> QED BY <1>9, <2>1, <2>4, <2>5, StepFits
<1>11. CASE ~\E l \in licenses : Same(l, lic)
  <2>1. licenses' = licenses \cup {lic}
    BY <1>2, <1>11 DEF Inserted
  <2>2. TableOK' /\ Cardinality(licenses') = Cardinality(licenses) + 1
    BY <1>2, <1>5, <1>7, <2>1, InsertTable
  <2>3. Ids(licenses) \subseteq Ids(licenses') /\ keys \subseteq Ids(licenses')
    BY <1>1, <2>1 DEF Ids
  <2>4. calls[c].base \in 0..Cardinality(licenses')
    BY <1>4, <1>6, <2>2
  <2>5. Fits(c)'
    BY <1>1, <1>8, <1>9, <2>3, <2>4 DEF Fits
  <2>6. Cardinality(licenses) <= Cardinality(licenses')
    BY <1>6, <2>2
  <2> QED BY <1>2, <1>9, <2>2, <2>3, <2>5, <2>6, TableFits
<1> QED BY <1>10, <1>11

LEMMA SetStatusFits ==
    ASSUME TInv, IInv', NEW c \in Calls, SetStatus(c)
    PROVE  TInv'
<1> DEFINE status == IF Kind(c) = "refund" THEN "refunded" ELSE "revoked"
           New(l) == IF l.payment = calls[c].req.of THEN [l EXCEPT !.status = status] ELSE l
<1>1. licenses' = {New(l) : l \in licenses}
  BY DEF SetStatus
<1>2. /\ UNCHANGED <<activations, emailed, events>> /\ At(c, "status") /\ ~At(c, "idle")
      /\ To(c, "record")
  BY DEF SetStatus, Keeps, At
<1>3. CallsOK /\ RowsOK /\ TableOK /\ Running(calls[c]) /\ Fits(c)
  BY <1>2 DEF TInv, IInv, CallsOK
<1>4. ASSUME NEW l \in licenses
      PROVE  /\ New(l).id = l.id /\ New(l).product = l.product /\ New(l).payment = l.payment
             /\ New(l).provider = l.provider /\ New(l).expiry = l.expiry
             /\ New(l).status \in {"active", "refunded", "revoked"}
  <2>1. IsRow(l) /\ l.status \in {"active", "refunded", "revoked"}
    BY <1>3, <1>4 DEF RowsOK, TableOK
  <2>2. CASE l.payment = calls[c].req.of
    <3>1. PICK n : n = [l EXCEPT !.status = status]
      OBVIOUS
    <3>2. /\ n.id = l.id /\ n.product = l.product /\ n.payment = l.payment /\ n.provider = l.provider
          /\ n.expiry = l.expiry /\ n.status = status
      BY <2>1, <3>1 DEF IsRow
    <3> QED BY <2>2, <3>1, <3>2
  <2>3. CASE l.payment # calls[c].req.of
    BY <2>1, <2>3
  <2> QED BY <2>2, <2>3
<1> HIDE DEF New
<1>5. IsFiniteSet(licenses') /\ Cardinality(licenses') = Cardinality(licenses)
  <2> DEFINE f == [l \in licenses |-> New(l)]
  <2>1. f \in Surjection(licenses, licenses')
    BY <1>1 DEF Surjection
  <2>2. f \in Injection(licenses, licenses')
    BY <1>1, <1>3, <1>4 DEF Injection, IsInjective, TableOK
  <2> HIDE DEF f
  <2>3. IsFiniteSet(licenses)
    BY <1>3 DEF TableOK
  <2>4. /\ IsFiniteSet(licenses')
        /\ Cardinality(licenses') = Cardinality(licenses) <=> f \in Injection(licenses, licenses')
    BY <2>1, <2>3, FS_Surjection
  <2> QED BY <2>2, <2>4
<1>6. Ids(licenses) \subseteq Ids(licenses')
  BY <1>1, <1>4 DEF Ids
<1>7. TableOK'
  <2>1. ASSUME NEW n \in licenses'
        PROVE  /\ n.product \in Products /\ n.provider \in AllKinds
               /\ n.payment \in Payments \cup {None} /\ n.status \in {"active", "refunded", "revoked"}
               /\ n.id \in 1..Cardinality(licenses') /\ n.expiry \in 0..n.id
    <3>1. PICK l \in licenses : n = New(l)
      BY <1>1
    <3> QED BY <1>3, <1>4, <1>5, <3>1 DEF TableOK
  <2>2. \A l, m \in licenses' : l.id = m.id => l = m
    BY <1>1, <1>3, <1>4 DEF TableOK
  <2> QED BY <1>3, <1>5, <2>1, <2>2 DEF TableOK
<1>8. Fits(c)' /\ \A d \in Calls \ {c} : calls'[d] = calls[d]
  <2>1. PICK call : call = [calls[c] EXCEPT !.pc = "record"]
    OBVIOUS
  <2>2. call.pc = "record" /\ call.base = calls[c].base /\ call.keys = calls[c].keys
    BY <1>3, <2>1 DEF Running
  <2>3. calls'[c] = call /\ \A d \in Calls \ {c} : calls'[d] = calls[d]
    BY <1>2, <1>3, <2>1, OthersStay DEF To
  <2> QED BY <1>2, <1>3, <1>5, <1>6, <2>2, <2>3 DEF Fits
<1>9. Cardinality(licenses) <= Cardinality(licenses')
  BY <1>3, <1>5, FS_CardinalityType DEF TableOK
<1> QED BY <1>2, <1>6, <1>7, <1>8, <1>9, TableFits

LEMMA InitTInv == Init => TInv
<1> SUFFICES ASSUME Init PROVE TInv
  OBVIOUS
<1>1. licenses = {} /\ activations = {} /\ emailed = {} /\ events = {}
      /\ \A c \in Calls : calls[c] = Idle
  BY DEF Init
<1>2. TableOK
  <2>1. IsFiniteSet({}) /\ Cardinality({}) = 0 /\ 0 <= MaxLicences
    BY FS_EmptySet
  <2> QED BY <1>1, <2>1 DEF TableOK
<1>3. OtherTables /\ \A c \in Calls : Fits(c)
  BY <1>1 DEF OtherTables, Fits, At, Idle
<1> QED BY <1>2, <1>3, InitIInv DEF TInv

LEMMA NextTInv == TInv /\ [Next]_vars => TInv'
<1> SUFFICES ASSUME TInv, [Next]_vars PROVE TInv'
  OBVIOUS
<1>1. IInv'
  BY NextIInv DEF TInv
<1>2. CASE HourPasses \/ DayPasses \/ UNCHANGED vars
  <2>1. UNCHANGED <<licenses, events, activations, emailed, calls>>
    BY <1>2 DEF HourPasses, DayPasses, vars
  <2>2. TableOK' /\ OtherTables' /\ \A c \in Calls : Fits(c)'
    BY <2>1 DEF TInv, TableOK, OtherTables, Fits, At, Kind
  <2> QED BY <1>1, <2>2 DEF TInv
<1>3. ASSUME NEW c \in Calls, NEW req \in Requests, Receive(c, req) PROVE TInv'
  BY <1>1, <1>3, ReceiveFits
<1>4. ASSUME NEW c \in Calls, Stack(c) \/ Insert(c) \/ Keys(c) \/ SetStatus(c) PROVE TInv'
  BY <1>1, <1>4, StackFits, InsertFits, KeysFit, SetStatusFits
<1>5. ASSUME NEW c \in Calls,
             \/ CheckEvent(c) \/ Send(c) \/ Record(c) \/ CheckLimit(c) \/ Count(c) \/ Purge(c) \/ Existing(c)
             \/ Licence(c) \/ ReadDevices(c) \/ Touch(c) \/ Register(c) \/ Deactivate(c) \/ Cut(c)
      PROVE  TInv'
  BY <1>1, <1>5, MovesFit
<1> QED BY <1>2, <1>3, <1>4, <1>5 DEF Next

(* The tables are of their types: keys are numbered as they are minted, a   *)
(* year stacked on others never outnumbers the keys, only keys that exist   *)
(* are sent, and only requests that came in are recorded as handled.        *)
THEOREM TypesHold == Spec => []TypeOK
<1>1. TInv => TypeOK
  <2> SUFFICES ASSUME TInv PROVE TypeOK
    OBVIOUS
  <2>1. Cardinality(licenses) \in Nat /\ Cardinality(licenses) <= MaxLicences
    BY FS_CardinalityType DEF TInv, TableOK
  <2>2. ASSUME NEW l \in licenses
        PROVE  l \in [id : 1..MaxLicences, product : Products, provider : AllKinds,
                      payment : Payments \cup {None}, expiry : 0..MaxLicences,
                      status : {"active", "refunded", "revoked"}]
    <3>1. IsRow(l)
      BY DEF TInv, IInv, RowsOK
    <3>2. /\ l.product \in Products /\ l.provider \in AllKinds
          /\ l.payment \in Payments \cup {None} /\ l.status \in {"active", "refunded", "revoked"}
          /\ l.id \in 1..Cardinality(licenses) /\ l.expiry \in 0..l.id
      BY DEF TInv, TableOK
    <3>3. l.id \in 1..MaxLicences /\ l.expiry \in 0..MaxLicences
      BY <2>1, <3>2
    <3> QED BY <3>1, <3>2, <3>3 DEF IsRow
  <2> QED BY <2>2 DEF TypeOK, TInv, OtherTables
<1> QED BY <1>1, InitTInv, NextTInv, PTL DEF Spec
=============================================================================
