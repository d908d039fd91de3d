------------------------------ MODULE StaleRead ------------------------------
(***************************************************************************)
(* What the redirect path promises, without its cache, its calls and its   *)
(* clocks: it answers from what it remembers of a link, it learns only the *)
(* link's current URL, and what it has forgotten never comes back unless   *)
(* it is current again.                                                    *)
(***************************************************************************)
CONSTANTS Codes, Urls, EmptyUrl, NoUrl, NoCode, Unborn, Gone, Reqs

VARIABLES
    link,        \* the URL of each code
    remembered,  \* the URLs the redirect path could still answer for it
    asking,      \* the code each client is waiting for, or NoCode
    answer       \* the last answer each client got

vars == <<link, remembered, asking, answer>>

Init ==
    /\ link = [c \in Codes |-> Unborn]
    /\ remembered = [c \in Codes |-> {}]
    /\ asking = [r \in Reqs |-> NoCode]
    /\ answer = [r \in Reqs |-> <<"none", NoUrl>>]

Shrinks == \A c \in Codes : remembered'[c] \subseteq remembered[c]

Write(c, u) ==
    /\ \/ link[c] = Unborn /\ u \in Urls \ {EmptyUrl}
       \/ link[c] \in Urls /\ u \in Urls \cup {Gone}
    /\ link' = [link EXCEPT ![c] = u]
    /\ UNCHANGED <<remembered, asking, answer>>

Learn(c) ==
    /\ link[c] \in Urls
    /\ remembered' = [remembered EXCEPT ![c] = @ \cup {link[c]}]
    /\ UNCHANGED <<link, asking, answer>>

Forget == Shrinks /\ UNCHANGED <<link, asking, answer>>

Ask(r, c) ==
    /\ asking[r] = NoCode
    /\ asking' = [asking EXCEPT ![r] = c]
    /\ answer' = [answer EXCEPT ![r] = <<"none", NoUrl>>]
    /\ UNCHANGED <<link, remembered>>

Ignore(r) ==
    /\ asking[r] = NoCode
    /\ answer' = [answer EXCEPT ![r] = <<"204", NoUrl>>]
    /\ UNCHANGED <<link, remembered, asking>>

Reply(r) ==
    /\ asking[r] # NoCode
    /\ \/ answer' = [answer EXCEPT ![r] = <<"500", NoUrl>>]
       \/ \E u \in remembered[asking[r]] :
             answer' = [answer EXCEPT ![r] = <<"301", u>>]
    /\ asking' = [asking EXCEPT ![r] = NoCode]
    /\ Shrinks
    /\ UNCHANGED link

\* A crash drops every waiting client and what was held for it.
Lose ==
    /\ asking' = [r \in Reqs |-> NoCode]
    /\ answer' = [r \in Reqs |->
                    IF asking[r] = NoCode THEN answer[r] ELSE <<"lost", NoUrl>>]
    /\ Shrinks
    /\ UNCHANGED link

Next ==
    \/ \E c \in Codes, u \in Urls \cup {Gone} : Write(c, u)
    \/ \E c \in Codes : Learn(c)
    \/ \E r \in Reqs : Ignore(r) \/ Reply(r) \/ \E c \in Codes : Ask(r, c)
    \/ Forget
    \/ Lose

Spec == Init /\ [][Next]_vars
=============================================================================
