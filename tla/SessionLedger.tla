---------------------------- MODULE SessionLedger ----------------------------
(***************************************************************************)
(* What a session promises its readers, without Redis, files or handlers:  *)
(* a log that only grows, counted exactly, until the session is erased;    *)
(* and one ending, at most, whose outcome is never rewritten.  A session   *)
(* that is over may still receive entries: the emit pipeline checks that   *)
(* the session is live long before it inserts, and the quota note is       *)
(* written on purpose after the end.                                       *)
(***************************************************************************)
EXTENDS Naturals

VARIABLES
    phase,    \* live, over or gone
    outcome,  \* how the session ended: by quota, archived, or neither
    entries,  \* the recorded events
    count     \* their advertised number

ledgerVars == <<phase, outcome, entries, count>>

Outcomes == {"none", "quota", "archived"}

Init == phase = "live" /\ outcome = "none" /\ entries = {} /\ count = 0

(* One new entry. *)
Record ==
    /\ phase # "gone"
    /\ \E n \in entries' \ entries : entries' = entries \cup {n}
    /\ count' = count + 1
    /\ UNCHANGED <<phase, outcome>>

Finish ==
    /\ phase = "live"
    /\ phase' = "over"
    /\ outcome' \in Outcomes
    /\ UNCHANGED <<entries, count>>

Erase ==
    /\ phase' = "gone" /\ outcome' = "none" /\ entries' = {} /\ count' = 0

Next == Record \/ Finish \/ Erase

Spec == Init /\ [][Next]_ledgerVars
=============================================================================
