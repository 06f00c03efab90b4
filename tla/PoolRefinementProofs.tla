------------------------ MODULE PoolRefinementProofs ------------------------
(* Proof that the connection pool implements SlotPool: every critical      *)
(* section, channel operation and socket step of client.go is a step of    *)
(* the abstract pool, or none.                                             *)
EXTENDS ConnPoolProofs

(* Who has the counted connection c. *)
UsersOf(c) == {g \in Holders : held[g] = c}

(* The abstract pool that a state of ConnPool stands for. *)
SlotMap == [c \in Counted |-> [host |-> conns[c].host, users |-> UsersOf(c)]]

(* SlotPool counts with the same Cardinality. *)
LEMMA SameCardinality == \A S : Slots!Cardinality(S) = Cardinality(S)
BY DEF Slots!Cardinality, Cardinality

(* The steps of the abstract pool, read off SlotMap. *)
LEMMA AbstractSteps ==
  /\ \A g \in Goroutines, h \in Hosts, c \in DOMAIN SlotMap' :
       /\ c \notin DOMAIN SlotMap
       /\ \A d \in DOMAIN SlotMap : g \notin SlotMap[d].users
       /\ Cardinality({d \in DOMAIN SlotMap : SlotMap[d].host = h}) < ConnectionsPerHost
       /\ SlotMap' = [d \in DOMAIN SlotMap \cup {c} |->
                        IF d = c THEN [host |-> h, users |-> {g}] ELSE SlotMap[d]]
       => Slots!Next
  /\ \A c \in DOMAIN SlotMap :
       /\ SlotMap[c].users # {}
       /\ SlotMap' = [d \in DOMAIN SlotMap \ {c} |-> SlotMap[d]]
       => Slots!Next
  /\ \A c \in DOMAIN SlotMap :
       /\ SlotMap[c].users # {}
       /\ SlotMap' = [SlotMap EXCEPT ![c].users = {}]
       => Slots!Next
  /\ \A c \in DOMAIN SlotMap, u \in Goroutines :
       /\ \A d \in DOMAIN SlotMap : u \notin SlotMap[d].users
       /\ SlotMap' = [SlotMap EXCEPT ![c].users = {u}]
       => Slots!Next
<1>1. ASSUME NEW g \in Goroutines, NEW h \in Hosts, NEW c \in DOMAIN SlotMap',
             c \notin DOMAIN SlotMap,
             \A d \in DOMAIN SlotMap : g \notin SlotMap[d].users,
             Cardinality({d \in DOMAIN SlotMap : SlotMap[d].host = h}) < ConnectionsPerHost,
             SlotMap' = [d \in DOMAIN SlotMap \cup {c} |->
                           IF d = c THEN [host |-> h, users |-> {g}] ELSE SlotMap[d]]
      PROVE  Slots!Next
  <2>1. Slots!Open(g, c, h)
    BY <1>1, SameCardinality DEF Slots!Open, Slots!OnHost, SlotMap, UsersOf
  <2> QED BY <2>1 DEF Slots!Next, SlotMap, UsersOf
<1>2. ASSUME NEW c \in DOMAIN SlotMap, SlotMap[c].users # {},
             SlotMap' = [d \in DOMAIN SlotMap \ {c} |-> SlotMap[d]]
      PROVE  Slots!Next
  <2>1. Slots!GiveUp(c)
    BY <1>2 DEF Slots!GiveUp, Slots!Without, SlotMap, UsersOf
  <2> QED BY <2>1 DEF Slots!Next, SlotMap, UsersOf
<1>3. ASSUME NEW c \in DOMAIN SlotMap, SlotMap[c].users # {},
             SlotMap' = [SlotMap EXCEPT ![c].users = {}]
      PROVE  Slots!Next
  <2>1. Slots!Pass(c, {})
    BY <1>3 DEF Slots!Pass, SlotMap, UsersOf
  <2> QED BY <2>1 DEF Slots!Next, SlotMap, UsersOf
<1>4. ASSUME NEW c \in DOMAIN SlotMap, NEW u \in Goroutines,
             \A d \in DOMAIN SlotMap : u \notin SlotMap[d].users,
             SlotMap' = [SlotMap EXCEPT ![c].users = {u}]
      PROVE  Slots!Next
  <2>0. {u} # SlotMap[c].users /\ \A d \in DOMAIN SlotMap : SlotMap[d].users \cap {u} = {}
    BY <1>4
  <2>1. Slots!Pass(c, {u})
    BY <1>4, <2>0 DEF Slots!Pass, SlotMap, UsersOf
  <2> QED BY <2>1 DEF Slots!Next, SlotMap, UsersOf
<1> QED BY <1>1, <1>2, <1>3, <1>4

-----------------------------------------------------------------------------
(* The steps of the pool                                                   *)

(* A step that leaves the counted connections and their users alone. *)
LEMMA SlotMapKept ==
  ASSUME Counted' = Counted,
         \A c \in Counted : conns'[c].host = conns[c].host,
         Holders' = Holders, \A k \in Holders : held'[k] = held[k]
  PROVE  SlotMap' = SlotMap
<1>1. \A c \in Counted : UsersOf(c)' = UsersOf(c)
  BY DEF UsersOf
<1> QED BY <1>1 DEF SlotMap

(* A step that only changes the users of the counted connection c. *)
LEMMA SlotMapPassed ==
  ASSUME NEW c \in Counted, NEW users, Counted' = Counted, conns' = conns,
         UsersOf(c)' = users, \A d \in Counted \ {c} : UsersOf(d)' = UsersOf(d)
  PROVE  SlotMap' = [SlotMap EXCEPT ![c].users = users]
<1>1. [[host |-> conns[c].host, users |-> UsersOf(c)] EXCEPT !.users = users] =
        [host |-> conns[c].host, users |-> users]
  OBVIOUS
<1>2. SlotMap[c] = [host |-> conns[c].host, users |-> UsersOf(c)]
  BY DEF SlotMap
<1>3. SlotMap' = [d \in Counted |-> IF d = c THEN [host |-> conns[c].host, users |-> users]
                                    ELSE SlotMap[d]]
  BY DEF SlotMap
<1>4. [SlotMap EXCEPT ![c].users = users] =
        [d \in Counted |-> IF d = c THEN [SlotMap[c] EXCEPT !.users = users] ELSE SlotMap[d]]
  <2>1. DOMAIN SlotMap = Counted
    BY DEF SlotMap
  <2> QED BY <2>1, Zenon
<1> QED BY <1>1, <1>2, <1>3, <1>4, Zenon

(* A counted connection exists, and at most one goroutine has it: none if  *)
(* it is in the channel.                                                   *)
LEMMA CountedUsers ==
  ASSUME IInv
  PROVE  /\ Counted \subseteq DOMAIN conns
         /\ \A g \in Holders : held[g] \in Counted /\ UsersOf(held[g]) = {g}
         /\ \A c \in Buffered : c \in Counted /\ UsersOf(c) = {}
         /\ \A c \in Counted : UsersOf(c) \subseteq Holders
<1>1. Counted \subseteq DOMAIN conns
  BY DEF Counted, Holders, IInv, Hands
<1>2. ASSUME NEW g \in Holders PROVE held[g] \in Counted /\ UsersOf(held[g]) = {g}
  BY DEF Counted, UsersOf, IInv, ExclusiveOwner, Users
<1>3. ASSUME NEW c \in Buffered PROVE c \in Counted /\ UsersOf(c) = {}
  BY DEF Counted, UsersOf, IInv, ExclusiveOwner, Users
<1> QED BY <1>1, <1>2, <1>3 DEF UsersOf

LEMMA QuietRefines ==
  ASSUME IInv, NEW g \in Goroutines, Quiet(g) \/ Park(g)
  PROVE  SlotMap' = SlotMap
<1>1. /\ freeConnCh' = freeConnCh /\ \A c \in DOMAIN conns : conns'[c].host = conns[c].host
      /\ Holders' = Holders /\ \A k \in Holders : held'[k] = held[k]
  <2>1. CASE Quiet(g)
    BY <2>1, QuietKept
  <2>2. CASE Park(g)
    BY <2>2 DEF Park, Goto, Holders, IInv, TypeOK
  <2> QED BY <2>1, <2>2
<1>2. Counted' = Counted
  BY <1>1 DEF Counted, Buffered
<1> QED BY <1>1, <1>2, CountedUsers, SlotMapKept

(* Receiving: the connection passes from the channel to g. *)
LEMMA ReceiveRefines ==
  ASSUME IInv, NEW g \in Goroutines, PollFree(g) \/ ReceiveBuffered(g)
  PROVE  Slots!Next
<1>0. PICK c : c = Head(freeConnCh)
  OBVIOUS
<1>1. /\ freeConnCh # <<>> /\ freeConnCh' = Tail(freeConnCh) /\ conns' = conns
      /\ pc[g] \in {"poll", "block"} /\ held' = [held EXCEPT ![g] = c]
      /\ pc' = [pc EXCEPT ![g] = IF conns[c].broken THEN "decr" ELSE "own"]
  BY <1>0 DEF PollFree, ReceiveBuffered, Received, Goto
<1>2. c \in Buffered /\ Buffered' = Buffered \ {c}
  BY <1>0, <1>1, RangeTail DEF IInv, TypeOK, ExclusiveOwner, Buffered
<1>3. c > 0
  BY <1>2 DEF IInv, TypeOK, Buffered, Range
<1>4. /\ g \notin Holders /\ held'[g] = c /\ pc'[g] \in {"decr", "own"}
      /\ \A k \in Goroutines \ {g} : held'[k] = held[k] /\ pc'[k] = pc[k]
  BY <1>1 DEF Holders, IInv, TypeOK
<1>5. Holders' = Holders \cup {g}
  BY <1>3, <1>4 DEF Holders
<1>6. Counted' = Counted
  BY <1>2, <1>4, <1>5 DEF Counted, Holders
<1>7. /\ c \in Counted /\ UsersOf(c)' = {g}
      /\ \A d \in Counted \ {c} : UsersOf(d)' = UsersOf(d)
      /\ \A d \in Counted : g \notin UsersOf(d)
  <2>1. c \in Counted /\ \A k \in Holders : held[k] # c
    BY <1>2, CountedUsers DEF UsersOf
  <2>2. \A k \in Holders : held'[k] = held[k]
    BY <1>4 DEF Holders
  <2>3. UsersOf(c)' = {g}
    BY <1>4, <1>5, <2>1, <2>2 DEF UsersOf
  <2>4. \A d \in Counted \ {c} : UsersOf(d)' = UsersOf(d)
    BY <1>4, <1>5, <2>2 DEF UsersOf
  <2>5. \A d \in Counted : g \notin UsersOf(d)
    BY <1>4 DEF UsersOf
  <2> QED BY <2>1, <2>3, <2>4, <2>5
<1>8. SlotMap' = [SlotMap EXCEPT ![c].users = {g}]
  BY <1>1, <1>6, <1>7, SlotMapPassed
<1>9. c \in DOMAIN SlotMap /\ \A d \in DOMAIN SlotMap : g \notin SlotMap[d].users
  BY <1>7 DEF SlotMap
<1> QED BY <1>8, <1>9, AbstractSteps

(* Returning: the connection passes from g to the longest waiting receiver *)
(* or to nobody.                                                           *)
LEMMA ReturnRefines ==
  ASSUME IInv, NEW g \in Goroutines, returnConn(g)
  PROVE  Slots!Next
<1>0. PICK c, w : c = held[g] /\ w = Head(recvq)
  OBVIOUS
<1>1. /\ pc[g] = "own" /\ c \in 1..connIdx /\ c > 0 /\ conns' = conns /\ Send(g)
  BY <1>0 DEF returnConn, IInv, TypeOK, Hands, ConnIds
<1>2. g \in Holders
  BY <1>0, <1>1 DEF Holders
<1>3. c \in Counted /\ UsersOf(c) = {g} /\ c \notin Buffered
  BY <1>0, <1>2, CountedUsers
<1>4. CASE recvq # <<>>
  <2>1. w \in Goroutines \ {g} /\ pc[w] = "wait"
    BY <1>0, <1>1, <1>4, RangeTail, ParkedWait DEF IInv, TypeOK, Parked
  <2>2. /\ held'[g] = 0 /\ held'[w] = c
        /\ pc'[g] = "idle" /\ pc'[w] \in {"own", "decr"}
        /\ \A k \in Goroutines \ {g, w} : pc'[k] = pc[k] /\ held'[k] = held[k]
        /\ Buffered' = Buffered
    BY <1>0, <1>1, <1>4, <2>1 DEF Send, IInv, TypeOK, Buffered
  <2>3. Holders' = (Holders \ {g}) \cup {w} /\ w \notin Holders
    BY <1>1, <2>1, <2>2 DEF Holders
  <2>4. \A k \in Holders \ {g} : held'[k] = held[k]
    BY <2>2, <2>3 DEF Holders
  <2>5. Counted' = Counted
    BY <1>0, <1>2, <2>2, <2>3, <2>4 DEF Counted
  <2>6. /\ UsersOf(c)' = {w} /\ \A d \in Counted \ {c} : UsersOf(d)' = UsersOf(d)
        /\ \A d \in Counted : w \notin UsersOf(d)
    <3>1. held[g] = c /\ \A k \in Holders \ {g} : held[k] # c
      BY <1>0, <1>3 DEF UsersOf
    <3>2. UsersOf(c)' = {w}
      BY <2>2, <2>3, <2>4, <3>1 DEF UsersOf
    <3>3. \A d \in Counted \ {c} : UsersOf(d)' = UsersOf(d)
      BY <2>2, <2>3, <2>4, <3>1 DEF UsersOf
    <3>4. \A d \in Counted : w \notin UsersOf(d)
      BY <2>3 DEF UsersOf
    <3> QED BY <3>2, <3>3, <3>4
  <2>7. SlotMap' = [SlotMap EXCEPT ![c].users = {w}]
    BY <1>1, <1>3, <2>5, <2>6, SlotMapPassed
  <2>8. c \in DOMAIN SlotMap /\ \A d \in DOMAIN SlotMap : w \notin SlotMap[d].users
    BY <1>3, <2>6 DEF SlotMap
  <2> QED BY <2>1, <2>7, <2>8, AbstractSteps
<1>5. CASE recvq = <<>>
  <2>1. freeConnCh' = Append(freeConnCh, c)
    BY <1>0, <1>1, <1>5 DEF Send
  <2>2. Buffered' = Buffered \cup {c}
    BY <1>1, <2>1, RangeAppend DEF IInv, TypeOK, Buffered
  <2>3. /\ held'[g] = 0 /\ pc'[g] = "idle"
        /\ \A k \in Goroutines \ {g} : pc'[k] = pc[k] /\ held'[k] = held[k]
    BY <1>1, <1>5 DEF Send, Goto, IInv, TypeOK
  <2>4. Holders' = Holders \ {g} /\ \A k \in Holders \ {g} : held'[k] = held[k]
    BY <2>3 DEF Holders
  <2>5. Counted' = Counted
    BY <1>0, <1>2, <2>2, <2>4 DEF Counted
  <2>6. UsersOf(c)' = {} /\ \A d \in Counted \ {c} : UsersOf(d)' = UsersOf(d)
    <3>1. held[g] = c /\ \A k \in Holders \ {g} : held[k] # c
      BY <1>0, <1>3 DEF UsersOf
    <3>2. UsersOf(c)' = {}
      BY <2>4, <3>1 DEF UsersOf
    <3>3. \A d \in Counted \ {c} : UsersOf(d)' = UsersOf(d)
      BY <2>4, <3>1 DEF UsersOf
    <3> QED BY <3>2, <3>3
  <2>7. SlotMap' = [SlotMap EXCEPT ![c].users = {}]
    BY <1>1, <1>3, <2>5, <2>6, SlotMapPassed
  <2>8. c \in DOMAIN SlotMap /\ SlotMap[c].users # {}
    BY <1>3 DEF SlotMap
  <2> QED BY <2>7, <2>8, AbstractSteps
<1> QED BY <1>4, <1>5

(* Reserving a slot opens a connection, on a host below its limit. *)
LEMMA ReserveRefines ==
  ASSUME IInv, NEW g \in Goroutines, ReserveSlot(g)
  PROVE  Slots!Next \/ SlotMap' = SlotMap
<1>0. PICK c : c = connIdx + 1
  OBVIOUS
<1>1. /\ pc[g] = "decide" /\ freeConnCh' = freeConnCh
      /\ connIdx \in Nat /\ c > 0 /\ c \notin DOMAIN conns /\ c \notin Counted
  <2>1. connIdx \in Nat /\ rawConnIdx \in Nat /\ DOMAIN conns \subseteq ConnIds
    BY DEF IInv, TypeOK
  <2>2. c \notin 1..connIdx /\ c \notin ConnIds
    BY <1>0, <2>1 DEF ConnIds
  <2>3. Counted \subseteq 1..connIdx
    BY CountedFinite DEF IInv
  <2> QED BY <1>0, <2>1, <2>2, <2>3 DEF ReserveSlot
<1>2. g \notin Holders
  BY <1>1 DEF Holders
<1>3. CASE RoundRobin(c) # {}
  <2>1. PICK i \in RoundRobin(c) : NewConn(g, c, HostAt(i))
    BY <1>0, <1>3 DEF ReserveSlot
  <2>0. PICK h : h = HostAt(i)
    OBVIOUS
  <2>2. h \in Hosts /\ numConnsPerHost[h] < ConnectionsPerHost
    <3>1. i \in Nat /\ numConnsPerHost[h] < ConnectionsPerHost
      BY <1>0, <1>1, <2>0, PoolAssumption DEF RoundRobin
    <3> QED BY <2>0, <3>1, HostAtInHosts
  <2>3. /\ conns'[c].host = h /\ \A d \in DOMAIN conns : conns'[d] = conns[d]
        /\ held' = [held EXCEPT ![g] = c] /\ pc' = [pc EXCEPT ![g] = "dial"]
    BY <1>1, <2>0, <2>1 DEF NewConn, Goto, IInv, TypeOK
  <2>4. /\ held'[g] = c /\ pc'[g] = "dial"
        /\ \A k \in Goroutines \ {g} : held'[k] = held[k] /\ pc'[k] = pc[k]
    BY <2>3 DEF IInv, TypeOK
  <2>5. Holders' = Holders \cup {g} /\ \A k \in Holders : held'[k] = held[k]
    BY <1>1, <1>2, <2>4 DEF Holders
  <2>6. Counted' = Counted \cup {c}
    BY <1>1, <2>4, <2>5 DEF Counted, Buffered
  <2>7. UsersOf(c)' = {g} /\ \A d \in Counted : UsersOf(d)' = UsersOf(d)
    <3>1. \A k \in Holders : held[k] # c
      BY <1>1, CountedUsers
    <3>2. UsersOf(c)' = {g}
      BY <2>4, <2>5, <3>1 DEF UsersOf
    <3>3. \A d \in Counted : UsersOf(d)' = UsersOf(d)
      BY <1>1, <2>4, <2>5 DEF UsersOf
    <3> QED BY <3>2, <3>3
  <2>8. \A d \in Counted : conns'[d] = conns[d]
    BY <2>3, CountedUsers
  <2>9. SlotMap' = [d \in DOMAIN SlotMap \cup {c} |->
                      IF d = c THEN [host |-> h, users |-> {g}] ELSE SlotMap[d]]
    <3>1. /\ DOMAIN SlotMap = Counted
          /\ SlotMap' = [d \in Counted \cup {c} |->
                           [host |-> conns'[d].host, users |-> UsersOf(d)']]
      BY <2>6 DEF SlotMap
    <3>2. \A d \in Counted : SlotMap[d] = [host |-> conns'[d].host, users |-> UsersOf(d)']
      BY <2>7, <2>8 DEF SlotMap
    <3> QED BY <1>1, <2>3, <2>7, <3>1, <3>2
  <2>10. /\ c \notin DOMAIN SlotMap /\ c \in DOMAIN SlotMap'
         /\ \A d \in DOMAIN SlotMap : g \notin SlotMap[d].users
    BY <1>1, <1>2, <2>6, CountedUsers DEF SlotMap
  <2>11. Cardinality({d \in DOMAIN SlotMap : SlotMap[d].host = h}) < ConnectionsPerHost
    <3>1. {d \in DOMAIN SlotMap : SlotMap[d].host = h} = CountedOn(h)
      BY DEF SlotMap, CountedOn
    <3> QED BY <2>2, <3>1 DEF IInv, SlotsExact
  <2> QED BY <2>2, <2>9, <2>10, <2>11, AbstractSteps
<1>4. CASE RoundRobin(c) = {}
  <2>1. pc' = [pc EXCEPT ![g] = "panic"] /\ UNCHANGED <<conns, held>>
    BY <1>0, <1>4 DEF ReserveSlot, Goto
  <2>2. Holders' = Holders
    BY <1>2, <2>1 DEF Holders, IInv, TypeOK
  <2>3. Counted' = Counted
    BY <1>1, <2>1, <2>2 DEF Counted, Buffered
  <2> QED BY <2>1, <2>2, <2>3, SlotMapKept
<1> QED BY <1>3, <1>4

(* A slot is given up by the goroutine that has the connection; a raw      *)
(* connection that could not be opened had none.                           *)
LEMMA GiveUpRefines ==
  ASSUME IInv, NEW g \in Goroutines, GiveUpSlot(g) \/ OpenFailed(g)
  PROVE  Slots!Next \/ SlotMap' = SlotMap
<1>0. PICK c : c = held[g]
  OBVIOUS
<1>1. /\ pc[g] \in {"decr", "openErr"} /\ freeConnCh' = freeConnCh /\ conns' = conns
      /\ pc'[g] \in {"remove", "idle"}
      /\ \A k \in Goroutines \ {g} : held'[k] = held[k] /\ pc'[k] = pc[k]
  BY DEF GiveUpSlot, OpenFailed, Goto, IInv, TypeOK
<1>2. Holders' = Holders \ {g} /\ \A k \in Holders \ {g} : held'[k] = held[k]
  BY <1>1 DEF Holders
<1>3. CASE c > 0
  <2>1. g \in Holders
    BY <1>0, <1>1, <1>3 DEF Holders
  <2>2. c \in Counted /\ UsersOf(c) = {g} /\ c \notin Buffered
    BY <1>0, <2>1, CountedUsers
  <2>3. \A k \in Holders \ {g} : held[k] # c
    BY <2>2 DEF UsersOf
  <2>4. Counted' = Counted \ {c}
    BY <1>0, <1>1, <1>2, <2>1, <2>2, <2>3 DEF Counted, Buffered
  <2>5. \A d \in Counted \ {c} : UsersOf(d)' = UsersOf(d)
    BY <1>0, <1>2, <2>1 DEF UsersOf
  <2>6. SlotMap' = [d \in DOMAIN SlotMap \ {c} |-> SlotMap[d]]
    BY <1>1, <2>4, <2>5 DEF SlotMap
  <2>7. c \in DOMAIN SlotMap /\ SlotMap[c].users # {}
    BY <2>2 DEF SlotMap
  <2> QED BY <2>6, <2>7, AbstractSteps
<1>4. CASE ~(c > 0)
  <2>1. Holders' = Holders /\ \A k \in Holders : held'[k] = held[k]
    BY <1>0, <1>2, <1>4 DEF Holders
  <2>2. Counted' = Counted
    BY <1>1, <2>1 DEF Counted, Buffered
  <2> QED BY <1>1, <2>1, <2>2, SlotMapKept
<1> QED BY <1>3, <1>4

-----------------------------------------------------------------------------
(* The refinement                                                          *)

LEMMA StepRefines ==
  ASSUME IInv, [Next]_vars
  PROVE  Slots!Next \/ SlotMap' = SlotMap
<1>1. CASE UNCHANGED vars
  BY <1>1 DEF vars, SlotMap, UsersOf, Counted, Holders, Buffered
<1>2. ASSUME NEW g \in Goroutines, Quiet(g) \/ Park(g) PROVE SlotMap' = SlotMap
  BY <1>2, QuietRefines
<1>3. ASSUME NEW g \in Goroutines, PollFree(g) \/ ReceiveBuffered(g) PROVE Slots!Next
  BY <1>3, ReceiveRefines
<1>4. ASSUME NEW g \in Goroutines, returnConn(g) PROVE Slots!Next
  BY <1>4, ReturnRefines
<1>5. ASSUME NEW g \in Goroutines, ReserveSlot(g) PROVE Slots!Next \/ SlotMap' = SlotMap
  BY <1>5, ReserveRefines
<1>6. ASSUME NEW g \in Goroutines, GiveUpSlot(g) \/ OpenFailed(g)
      PROVE  Slots!Next \/ SlotMap' = SlotMap
  BY <1>6, GiveUpRefines
<1> QED
  BY <1>1, <1>2, <1>3, <1>4, <1>5, <1>6 DEF Next, Continue, Quiet

(* The pool implements the abstract pool of slots, for any number of       *)
(* goroutines, hosts and connections: a connection passes from one user to *)
(* the next, is given up only by the one who has it, and a new one is      *)
(* opened only below its host's limit.                                     *)
THEOREM PoolRefinesSlots == Spec => PoolImplementsSlots
<1>1. Init => Slots!Init
  <2> SUFFICES ASSUME Init PROVE Counted = {}
    BY DEF Slots!Init
  <2> QED BY DEF Init, Counted, Buffered, Range, Holders
<1>2. IInv /\ [Next]_vars =>
        [Slots!Next]_([c \in Counted |-> [host |-> conns[c].host,
                                         users |-> {g \in Holders : held[g] = c}]])
  BY StepRefines DEF SlotMap, UsersOf
<1> QED BY <1>1, <1>2, PoolInvariant, PTL DEF Spec, PoolImplementsSlots, Slots!Spec
=============================================================================
