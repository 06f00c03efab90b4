------------------------------ MODULE SlotPool ------------------------------
(***************************************************************************)
(* What the connection pool promises its callers, without channel, mutex   *)
(* or counters: a slot is a connection to one host that at most one user   *)
(* has at a time.  A slot is taken in use, freed or handed on by its user, *)
(* and given up only by its user, so that none vanishes while it is idle;  *)
(* a new one is opened only below its host's limit.  ConnPool implements   *)
(* this specification.                                                     *)
(***************************************************************************)
EXTENDS Integers, FiniteSets

CONSTANTS Users, Hosts, Limit

VARIABLE slots   \* connection -> its host and its users, at most one

OnHost(h) == {c \in DOMAIN slots : slots[c].host = h}

Without(c) == [d \in DOMAIN slots \ {c} |-> slots[d]]

(* User u, who has no other slot, opens connection c to host h. *)
Open(u, c, h) ==
  /\ c \notin DOMAIN slots
  /\ \A d \in DOMAIN slots : u \notin slots[d].users
  /\ Cardinality(OnHost(h)) < Limit
  /\ slots' = [d \in DOMAIN slots \cup {c} |->
                 IF d = c THEN [host |-> h, users |-> {u}] ELSE slots[d]]

(* Connection c passes from its user, or from none, to u, or to nobody. *)
Pass(c, users) ==
  /\ c \in DOMAIN slots
  /\ users # slots[c].users
  /\ \A d \in DOMAIN slots : slots[d].users \cap users = {}
  /\ slots' = [slots EXCEPT ![c].users = users]

(* The user of c gives it up. *)
GiveUp(c) ==
  /\ c \in DOMAIN slots
  /\ slots[c].users # {}
  /\ slots' = Without(c)

Init == slots = [c \in {} |-> 0]

Next ==
  \/ \E c \in DOMAIN slots', u \in Users, h \in Hosts : Open(u, c, h)
  \/ \E c \in DOMAIN slots :
       \/ GiveUp(c)
       \/ Pass(c, {})
       \/ \E u \in Users : Pass(c, {u})

Spec == Init /\ [][Next]_slots
=============================================================================
