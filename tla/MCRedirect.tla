------------------------------ MODULE MCRedirect ------------------------------
(* Instances of Redirect for TLC. *)
EXTENDS Redirect, TLC

\* Handlers are interchangeable.
ReqSymmetry == Permutations(Reqs)

\* Everything but the auxiliary variables, which no action and no definition of
\* the refinement reads: used where only the refinement is checked.
BareView == <<link, redis, handler>>
=============================================================================
