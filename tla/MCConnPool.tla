----------------------------- MODULE MCConnPool -----------------------------
(* Small instances of the connection pool for TLC. *)
EXTENDS ConnPool, HostLookup, TLC

(* A name with two IPv4 addresses; its IPv6 address is not asked for. *)
TwoHosts == lookupHosts(<<HostName(<<V4("h1"), V6("h6"), V4("h2")>>)>>, FALSE)

(* A name that has only an IPv6 address. *)
OneHost == lookupHosts(<<HostName(<<V6("h6")>>)>>, FALSE)

(* Two hosts given to Dial that are the same address. *)
RepeatedHost == lookupHosts(<<IP("h1"), HostName(<<V4("h1")>>)>>, FALSE)

(* Goroutines are alike; no definition tells one from another. *)
Interchangeable == Permutations(Goroutines)
=============================================================================
