------------------------------- MODULE Browser -------------------------------
(***************************************************************************)
(* What every page of the web client is made of: React state, the API's    *)
(* state behind it, and the requests between the two.                      *)
(*                                                                         *)
(* A handler runs to its next await as one step: the state it sets, the    *)
(* requests it starts.  A request is served as one step of the API, fails  *)
(* before it or loses its answer after it, and its answer is received      *)
(* later, in any order.  The modules that extend this one are the pages;   *)
(* a behaviour stays on the page it starts on.                             *)
(***************************************************************************)
EXTENDS Integers, FiniteSets, Sequences, TLC

CONSTANTS
    Nothing,    \* a model value: no answer, no choice, nobody
    MaxCalls,   \* requests one page has out at a time
    MaxFaults,  \* requests that fail, over a behaviour
    MaxOutside  \* changes made outside the page, over a behaviour

ASSUME BrowserAssumption ==
    MaxCalls \in Nat \ {0} /\ MaxFaults \in Nat /\ MaxOutside \in Nat

VARIABLES
    page,     \* the page that is open
    ui,       \* its React state and refs
    server,   \* what the API holds of it
    calls,    \* its requests, by slot
    faults,   \* how many have failed
    outside   \* how many changes others have made

vars == <<page, ui, server, calls, faults, outside>>

Slots == 1..MaxCalls
Free == [op |-> "none"]

OutAs(op) == {c \in Slots : calls[c].op = op}
Quiet == \A c \in Slots : calls[c] = Free
HasSlot == \E c \in Slots : calls[c] = Free
Slot == CHOOSE c \in Slots : calls[c] = Free /\ \A d \in 1..(c - 1) : calls[d] # Free

Request(op, arg) == [op |-> op, arg |-> arg, at |-> "sent", got |-> Nothing]
(* Several requests awaited together, each settling on its own. *)
Requests(op, arg) == [Request(op, arg) EXCEPT !.at = "each"]

NoCalls == [c \in Slots |-> Free]

(* What a filter keeps of a sequence: the elements of S, in their order.    *)
Sifted(seq, S) ==
    LET at == {i \in DOMAIN seq : seq[i] \in S}
        Nth(k) == CHOOSE i \in at : Cardinality({j \in at : j <= i}) = k
    IN [k \in 1..Cardinality(at) |-> seq[Nth(k)]]

(* fetch: the request takes a free slot; the promise is pending. *)
Start(request) == HasSlot /\ calls' = [calls EXCEPT ![Slot] = request]
Fetch(op, arg) == Start(Request(op, arg))

Each(c, op) == calls[c].op = op /\ calls[c].at = "each"
Sent(c, op) == calls[c].op = op /\ calls[c].at = "sent"
Ok(c, op) == calls[c].op = op /\ calls[c].at = "ok"
Failed(c, op) == calls[c].op = op /\ calls[c].at = "failed"
Back(c, op) == Ok(c, op) \/ Failed(c, op)

(* The API answers with got: the promise can resolve. *)
Answer(c, got) == calls' = [calls EXCEPT ![c].at = "ok", ![c].got = got]

(* The await returns: the slot is free, or carries the next request. *)
Done(c) == calls' = [calls EXCEPT ![c] = Free]
ThenFetch(c, op, arg) == calls' = [calls EXCEPT ![c] = Request(op, arg)]

Page(upd) == ui' = upd
Only(v) == UNCHANGED <<page, faults, outside>> /\ UNCHANGED v

(* The network or the API fails a request, before its effect or after it. *)
Fail(c) ==
    /\ calls[c] # Free /\ calls[c].at \in {"sent", "ok"} /\ faults < MaxFaults
    /\ calls' = [calls EXCEPT ![c].at = "failed", ![c].got = Nothing]
    /\ faults' = faults + 1
    /\ UNCHANGED <<page, ui, server, outside>>

(* Somebody else, or the CLI, changes what the API holds. *)
Elsewhere(new) ==
    /\ outside < MaxOutside /\ outside' = outside + 1
    /\ server' = new /\ new # server
    /\ UNCHANGED <<page, ui, calls, faults>>

Opens(name, state, held, first) ==
    /\ page = name /\ ui = state /\ server = held
    /\ calls = [NoCalls EXCEPT ![1] = first]
    /\ faults = 0 /\ outside = 0
=============================================================================
