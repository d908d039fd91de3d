------------------------------- MODULE Accounts -------------------------------
(***************************************************************************)
(* What registration promises, without its pool, its transactions and its  *)
(* failures: an account is created at once and once, by a request that     *)
(* asks for it, and stays.                                                 *)
(***************************************************************************)
CONSTANTS Logins, NoLogin, Reqs

VARIABLES
    accounts,  \* the logins that have an account
    asking,    \* the login each request registers, or NoLogin
    made,      \* has it created the account?
    answer     \* the last answer of each request

vars == <<accounts, asking, made, answer>>

Init ==
    /\ accounts = {}
    /\ asking = [r \in Reqs |-> NoLogin]
    /\ made = [r \in Reqs |-> FALSE]
    /\ answer = [r \in Reqs |-> "none"]

Ask(r, l) ==
    /\ asking[r] = NoLogin
    /\ asking' = [asking EXCEPT ![r] = l]
    /\ answer' = [answer EXCEPT ![r] = "none"]
    /\ UNCHANGED <<accounts, made>>

Create(r) ==
    /\ asking[r] # NoLogin /\ asking[r] \notin accounts
    /\ accounts' = accounts \cup {asking[r]}
    /\ made' = [made EXCEPT ![r] = TRUE]
    /\ UNCHANGED <<asking, answer>>

\* A request that fails may have created its account all the same.
Reply(r, a) ==
    /\ asking[r] # NoLogin
    /\ \/ a = "ok" /\ made[r]
       \/ a = "taken" /\ ~made[r] /\ asking[r] \in accounts
       \/ a = "failed"
    /\ answer' = [answer EXCEPT ![r] = a]
    /\ asking' = [asking EXCEPT ![r] = NoLogin]
    /\ made' = [made EXCEPT ![r] = FALSE]
    /\ UNCHANGED accounts

\* A crash loses every request; some may just have created their account.
Lose(L) ==
    /\ L \subseteq {asking[r] : r \in Reqs} \ {NoLogin}
    /\ accounts' = accounts \cup L
    /\ asking' = [r \in Reqs |-> NoLogin]
    /\ made' = [r \in Reqs |-> FALSE]
    /\ answer' = [r \in Reqs |-> IF asking[r] = NoLogin THEN answer[r] ELSE "lost"]

Next ==
    \/ \E r \in Reqs : Create(r) \/ \E l \in Logins : Ask(r, l)
    \/ \E r \in Reqs, a \in {"ok", "taken", "failed"} : Reply(r, a)
    \/ \E L \in SUBSET Logins : Lose(L)

Spec == Init /\ [][Next]_vars
=============================================================================
