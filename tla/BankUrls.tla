------------------------------ MODULE BankUrls ------------------------------
(***************************************************************************)
(* The identity of a bank's login page: normalize_url (core/urls.py) and   *)
(* bank_slug_from_url (services/operations.py).  A URL is a record of what *)
(* the two tell apart.  The query, which both leave as it is or drop, goes *)
(* with the path; a slug that is cut off or in which `.` and `-` fall      *)
(* together is told apart by the normalized URL beside it.                 *)
(***************************************************************************)

CONSTANTS
    Hosts,         \* names of hosts, in lower case, without `www.`
    HeritageHosts  \* those with `heritage` or `demo-bank` in them

ASSUME HostsAssumption == HeritageHosts \subseteq Hosts

Url == [scheme : {"http", "https"}, host : Hosts,
        www : BOOLEAN, upper : BOOLEAN,         \* `www.` before it, letters in upper case
        port : {"none", "default", "other"},    \* as written
        path : {"", "/login"}, slash : BOOLEAN, \* a slash after it
        fragment : BOOLEAN]

\* Mutant of Normalized: the trailing slash stays.
NormalizedKeepsSlash(url) ==
    [scheme |-> url.scheme, host |-> url.host, path |-> url.path, slash |-> url.slash,
     port |-> IF url.port = "default" THEN "none" ELSE url.port]

\* normalize_url: case, `www.`, the default port, slash and fragment are gone.
Normalized(url) ==
    [scheme |-> url.scheme, host |-> url.host, path |-> url.path,
     port |-> IF url.port = "default" THEN "none" ELSE url.port]

\* bank_slug_from_url: netloc, in lower case, without `www.`, but with any port
\* that is written; one name for all hosts of the heritage bank.
Slug(url) == IF url.host \in HeritageHosts
               THEN [name |-> "heritage_bank", port |-> "none"]
               ELSE [name |-> url.host, port |-> url.port]

\* Two spellings of one address, by the URL standard and without regard to `www.`.
SameBank(u, v) ==
    /\ <<u.scheme, u.host, u.path>> = <<v.scheme, v.host, v.path>>
    /\ u.port = v.port \/ {u.port, v.port} = {"none", "default"}
=============================================================================
