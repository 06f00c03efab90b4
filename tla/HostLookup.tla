----------------------------- MODULE HostLookup -----------------------------
(***************************************************************************)
(* lookupHosts (goftp.go): from the hosts given to Dial to the list of     *)
(* addresses that the pool goes round.  A host that is an address stands   *)
(* for itself; the resolver is external, so a host name comes with what it *)
(* resolves to, or with nothing if it cannot be resolved.  The default     *)
(* port and the syntax of addresses are left out.                          *)
(***************************************************************************)
EXTENDS Integers, Sequences
LOCAL INSTANCE SequencesExt

(* A host as the caller gives it. *)
IP(addr) == [name |-> FALSE, ips |-> <<[addr |-> addr, v6 |-> FALSE]>>]

HostName(ips) == [name |-> TRUE, ips |-> ips]

V4(addr) == [addr |-> addr, v6 |-> FALSE]

V6(addr) == [addr |-> addr, v6 |-> TRUE]

Addresses(ips) == [i \in DOMAIN ips |-> ips[i].addr]

(* The addresses in the order of the hosts, repetitions included.  IPv6    *)
(* addresses of names are left out unless they were asked for or there is  *)
(* nothing else.  No host, or one that does not resolve, is an error: <<>>. *)
lookupHosts(given, ipv6Lookup) ==
  LET ips == FlattenSeq([i \in DOMAIN given |-> given[i].ips])
      ret == SelectSeq(ips, LAMBDA ip : ipv6Lookup \/ ~ip.v6)
  IN IF \E i \in DOMAIN given : given[i].ips = <<>> THEN <<>>
     ELSE Addresses(IF ret = <<>> THEN ips ELSE ret)
=============================================================================
