----------------------------- MODULE CommentBox -----------------------------
(***************************************************************************)
(* The composer of a live session: its draft, its sends and their Retry;   *)
(* and the line that says who else is typing, from the pings of their      *)
(* composers to the timer that forgets them.                               *)
(***************************************************************************)
EXTENDS Browser, SequencesExt

CONSTANT MaxDrafts   \* messages the visitor types; pings, less one

(* No message has the number that stands for none. *)
ASSUME ComposerAssumption == Nothing \notin Nat

OnComposer == page = "composer"
OnTypers == page = "typers"

-----------------------------------------------------------------------------
(* The composer.  Messages are numbered as they are typed.  last is the one *)
(* that was sent last, refused remembers those the API refused.             *)
ComposerInit ==
    Opens("composer", [box |-> TRUE, draft |-> Nothing, typed |-> 0, failed |-> Nothing, last |-> Nothing],
          [live |-> TRUE, got |-> <<>>, refused |-> 0], Free)

TypeDraft ==
    /\ ui.box /\ ui.draft = Nothing /\ ui.typed < MaxDrafts
    /\ Page([ui EXCEPT !.draft = ui.typed + 1, !.typed = @ + 1]) /\ Only(<<server, calls>>)

(* send clears the field and the failure, then waits.                       *)
(* Mutated form: the failure is only cleared by the answer.                 *)
Sending_Keeps(u, id) == [u EXCEPT !.draft = Nothing, !.last = id]
Sending(u, id) == [u EXCEPT !.draft = Nothing, !.failed = Nothing, !.last = id]
Send(id) == Page(Sending(ui, id)) /\ Fetch("send", id) /\ Only(server)

(* Enter, or the green button. *)
SendDraft == ui.box /\ ui.draft # Nothing /\ Send(ui.draft)
(* Retry clears the field too, whatever was typed since. *)
RetrySend == ui.box /\ ui.failed # Nothing /\ Send(ui.failed)

(* POST /sessions/{id}/comments: refused unless the session is live and the *)
(* visitor may comment; a load that fails refuses too, before anything is   *)
(* emitted (bound: MaxFaults such refusals of a live session).              *)
ServeSend(c) ==
    /\ Sent(c, "send")
    /\ \/ /\ server.live
          /\ server' = [server EXCEPT !.got = Append(@, calls[c].arg)]
          /\ Answer(c, "created")
       \/ /\ server.live => server.refused < MaxFaults
          /\ server' = [server EXCEPT !.refused = IF server.live THEN @ + 1 ELSE @]
          /\ calls' = [calls EXCEPT ![c].at = "failed"]
    /\ Only(ui)

(* A send that failed is offered again.                                     *)
(* Mutated form: one that did not withdraws the offer of another.           *)
SendAnswered_Withdraws(c) ==
    /\ Back(c, "send")
    /\ Page([ui EXCEPT !.failed = IF Failed(c, "send") THEN calls[c].arg ELSE Nothing])
    /\ Done(c) /\ Only(server)
SendAnswered(c) ==
    /\ Back(c, "send")
    /\ Page(IF Failed(c, "send") THEN [ui EXCEPT !.failed = calls[c].arg] ELSE ui)
    /\ Done(c) /\ Only(server)

(* The session ends, here or on another machine; the footer that says so    *)
(* takes the place of the composer, its draft and its failure.              *)
EndsWhileTyping == server.live /\ Elsewhere([server EXCEPT !.live = FALSE])
ReadOnlyFooter ==
    /\ ui.box /\ ~server.live
    /\ Page([ui EXCEPT !.box = FALSE, !.draft = Nothing, !.failed = Nothing]) /\ Only(<<server, calls>>)

ComposerNext ==
    /\ OnComposer
    /\ \/ TypeDraft \/ SendDraft \/ RetrySend \/ EndsWhileTyping \/ ReadOnlyFooter
       \/ \E c \in Slots : ServeSend(c) \/ SendAnswered(c)
-----------------------------------------------------------------------------
(* Who is typing.  server holds who pinged in the last three seconds, and   *)
(* how often anybody did.                                                   *)
Self == "me"
Typists == {"me", "v1", "v2", "v3", "v4"}

TypersInit ==
    Opens("typers", [typers |-> [w \in Typists |-> "off"], timer |-> FALSE],
          [recent |-> {}, pings |-> 0], Free)

Typing(u) == {w \in Typists : u.typers[w] # "off"}

(* The effect of the number of typers: an interval while there are any. *)
Restarts(u) ==
    [u EXCEPT !.timer = IF Cardinality(Typing(u)) = Cardinality(Typing(ui)) THEN @ ELSE Typing(u) # {}]

(* A key in w's composer: at most a ping in three seconds, which everybody  *)
(* who watches gets as a frame.                                             *)
KeyPressed(w) ==
    /\ w \notin server.recent /\ server.pings <= MaxDrafts
    /\ server' = [recent |-> server.recent \cup {w}, pings |-> server.pings + 1]
    /\ Page(IF w = Self THEN ui ELSE Restarts([ui EXCEPT !.typers[w] = "on"]))
    /\ Only(calls)
ThreeSeconds(w) ==
    w \in server.recent /\ server' = [server EXCEPT !.recent = @ \ {w}] /\ Only(<<ui, calls>>)

(* until passes; the next tick forgets those it has passed for.             *)
(* Mutated form: a tick that forgets nobody is the last one.                *)
UntilPasses(w) ==
    ui.typers[w] = "on" /\ Page([ui EXCEPT !.typers[w] = "past"]) /\ Only(<<server, calls>>)
Forgotten(u) == [u EXCEPT !.typers = [w \in Typists |-> IF @[w] = "past" THEN "off" ELSE @[w]]]
Tick_Once ==
    /\ ui.timer /\ Page(Restarts([Forgotten(ui) EXCEPT !.timer = FALSE])) /\ Only(<<server, calls>>)
Tick == ui.timer /\ Page(Restarts(Forgotten(ui))) /\ Only(<<server, calls>>)

(* typingLine: up to three by name, or two and how many others.             *)
(* Mutated form: the others are counted from three.                         *)
TypingLine_FromThree(n) == [named |-> IF n <= 3 THEN n ELSE 2, others |-> IF n <= 3 THEN 0 ELSE n - 3]
TypingLine(n) == [named |-> IF n <= 3 THEN n ELSE 2, others |-> IF n <= 3 THEN 0 ELSE n - 2]

TypersNext ==
    OnTypers /\ (Tick \/ \E w \in Typists : KeyPressed(w) \/ ThreeSeconds(w) \/ UntilPasses(w))
-----------------------------------------------------------------------------
CommentBoxTypeOK ==
    /\ OnComposer => /\ ui.typed \in 0..MaxDrafts /\ ui.box \in BOOLEAN
                     /\ {ui.draft, ui.failed, ui.last} \subseteq {Nothing} \cup 1..ui.typed
                     /\ server.got \in Seq(1..ui.typed)
    /\ OnTypers => ui.typers \in [Typists -> {"off", "on", "past"}] /\ ui.timer = (Typing(ui) # {})

(* Enter, the button and Retry never have one message out twice, nor is a   *)
(* message on offer that the session has, unless an answer was lost.        *)
SentOnce ==
    (OnComposer /\ faults = 0) => IsInjective(server.got) /\ ~Contains(server.got, ui.failed)

(* When the last message sent was refused, the page says so: the good news  *)
(* of another one, answered later, does not take the failure away.          *)
RefusalIsTold ==
    (OnComposer /\ ui.box /\ Quiet /\ ui.last # Nothing /\ ~Contains(server.got, ui.last)) =>
      ui.failed # Nothing

(* Whoever is typing is named or counted; the visitor is not one of them.   *)
EveryTypistIsCounted ==
    OnTypers => LET n == Cardinality(Typing(ui)) IN
      /\ TypingLine(n).named + TypingLine(n).others = n /\ Self \notin Typing(ui)

(* Those who stop typing are forgotten.                                     *)
TypersFade == OnTypers => Typing(ui) = {}
=============================================================================
