------------------------------- MODULE MCQuota -------------------------------
(* Quota for TLC: handlers, sessions and users are interchangeable. *)
EXTENDS Quota, TLC

QuotaSymmetry == Permutations(Users) \cup Permutations(Sessions) \cup Permutations(Txs)
MCNoOwnLimit == [u \in Users |-> Unset]
=============================================================================
