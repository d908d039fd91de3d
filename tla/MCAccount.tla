------------------------------ MODULE MCAccount ------------------------------
(* An instance of Account for TLC: the requests of one account, one by one. *)
EXTENDS Account, TLC

CONSTANTS ann, p1

OneSlot == (p1 :> {ann})

AccountSymmetry == Permutations(Tokens) \cup Permutations(Sids)
=============================================================================
