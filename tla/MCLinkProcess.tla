---------------------------- MODULE MCLinkProcess ----------------------------
EXTENDS LinkProcess

CONSTANTS r1, r2, r3, l1, l2

\* Two requests may race for a login, and all three for the only username.
MCServes == [r \in Reqs |-> IF r = r3 THEN {l2} ELSE {l1}]

\* Usable: every variable set but the HTTP port, for which any free one will do.
Good == [k \in Keys |-> IF k = "APP_PORT" THEN "unset" ELSE "fine"]

\* No gRPC port; a variable that makes no sense.
MCEnvs ==
    {Good, [Good EXCEPT !["GRPC_PORT"] = "unset"]}
        \cup {[Good EXCEPT ![k] = "junk"] : k \in Keys}
=============================================================================
