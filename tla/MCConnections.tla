--------------------------- MODULE MCConnections ---------------------------
(* Connections for TLC: two users, spellings of a bank's page and of one of   *)
(* the heritage bank, two requests at a time.                                 *)
EXTENDS Connections, TLC
CONSTANTS u1, u2, c1, c2

Plain(host) == [scheme |-> "https", host |-> host, www |-> FALSE, upper |-> FALSE, port |-> "none",
                path |-> "/login", slash |-> FALSE, fragment |-> FALSE]
Dressed(host) == [Plain(host) EXCEPT !.www = TRUE, !.upper = TRUE, !.slash = TRUE,
                                     !.fragment = TRUE]
MCUrls == {Plain("acme"), [Dressed("acme") EXCEPT !.port = "default"],
           Plain("heritage"), [Dressed("heritage") EXCEPT !.port = "default"]}
MCSymmetry == Permutations({u1, u2}) \cup Permutations({c1, c2})
=============================================================================
