-------------------------- MODULE MCRedirectProcess --------------------------
(* Instances of RedirectProcess for TLC. *)
EXTENDS RedirectProcess, TLC

\* Handlers are interchangeable.
ReqSymmetry == Permutations(Reqs)
=============================================================================
