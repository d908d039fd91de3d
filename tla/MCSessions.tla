------------------------------ MODULE MCSessions ------------------------------
(* Instances of Sessions for TLC. *)
EXTENDS Sessions, TLC

CONSTANTS u1, u2, p1, p2

\* Two requests of u1 may overlap, and each with one of u2.
SharedSlot == (p1 :> {u1}) @@ (p2 :> {u1, u2})

\* Both slots handle the requests of one user.
SameUser == (p1 :> {u1}) @@ (p2 :> {u1})
=============================================================================
