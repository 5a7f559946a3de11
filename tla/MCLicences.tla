----------------------------- MODULE MCLicences -----------------------------
(* The requests of one behaviour are of the kinds of one mix: those that   *)
(* touch the same rows.                                                    *)
EXTENDS Licences, TLC
CONSTANT Mixes
VARIABLE mix
MCCart == [p \in Payments |-> <<"pocketai-mac", "ls-pro">>]
Symmetry == Permutations(Calls) \cup Permutations(Devices)
MCInit == Init /\ mix \in Mixes
MCNext ==
    /\ Next /\ UNCHANGED mix
    /\ \A c \in Calls : calls'[c].pc # "idle" => calls'[c].req.kind \in mix
MCSpec == MCInit /\ [][MCNext]_<<vars, mix>>
=============================================================================
