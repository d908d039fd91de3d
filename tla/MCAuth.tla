-------------------------------- MODULE MCAuth --------------------------------
(* Instances of Auth for TLC. *)
EXTENDS Auth, TLC

\* Passwords, tokens and request slots are each interchangeable.
AuthSymmetry ==
    Permutations(Passwords) \cup Permutations(Tokens) \cup Permutations(Procs)
=============================================================================
