--------------------------- MODULE ConnPoolProofs ---------------------------
(* Proofs that the connection pool keeps its books for any number of       *)
(* goroutines, hosts and connections.                                      *)
EXTENDS ConnPool, FiniteSetTheorems, TLAPS

-----------------------------------------------------------------------------
(* Sequences as buffers                                                    *)

(* Receiving takes the head out of what a queue without repetitions holds. *)
LEMMA RangeTail ==
  ASSUME NEW S, NEW s \in Seq(S), s # <<>>, IsInjective(s)
  PROVE  /\ Head(s) \in Range(s)
         /\ Range(Tail(s)) = Range(s) \ {Head(s)}
         /\ IsInjective(Tail(s))
         /\ Tail(s) \in Seq(S)
<1>1. /\ Tail(s) \in Seq(S) /\ Len(Tail(s)) = Len(s) - 1 /\ Len(s) \in Nat
      /\ Len(s) > 0 /\ Head(s) = s[1]
      /\ \A i \in 1..Len(Tail(s)) : Tail(s)[i] = s[i + 1]
  OBVIOUS
<1>2. DOMAIN s = 1..Len(s) /\ DOMAIN Tail(s) = 1..Len(Tail(s))
  BY <1>1
<1>3. IsInjective(Tail(s))
  BY <1>1, <1>2 DEF IsInjective
<1>4. Head(s) \in Range(s)
  BY <1>1, <1>2 DEF Range
<1>5. ASSUME NEW x \in Range(Tail(s)) PROVE x \in Range(s) \ {Head(s)}
  <2>1. PICK i \in 1..Len(Tail(s)) : x = s[i + 1]
    BY <1>1, <1>2, <1>5 DEF Range
  <2> QED BY <2>1, <1>1, <1>2 DEF Range, IsInjective
<1>6. ASSUME NEW x \in Range(s) \ {Head(s)} PROVE x \in Range(Tail(s))
  <2>1. PICK i \in 1..Len(s) : x = s[i] /\ i # 1
    BY <1>1, <1>2, <1>6 DEF Range
  <2>2. i - 1 \in 1..Len(Tail(s)) /\ Tail(s)[i - 1] = x
    BY <2>1, <1>1
  <2> QED BY <2>2, <1>2 DEF Range
<1> QED BY <1>1, <1>3, <1>4, <1>5, <1>6

(* A buffer of some connections is a buffer of more connections. *)
LEMMA SeqMonotone ==
  ASSUME NEW S, NEW T, S \subseteq T, NEW s \in Seq(S)
  PROVE  s \in Seq(T)
OBVIOUS

(* Sending adds one element to what a queue holds. *)
LEMMA RangeAppend ==
  ASSUME NEW S, NEW s \in Seq(S), NEW e \in S
  PROVE  /\ Range(Append(s, e)) = Range(s) \cup {e}
         /\ IsInjective(s) /\ e \notin Range(s) => IsInjective(Append(s, e))
         /\ Append(s, e) \in Seq(S)
<1>1. /\ Append(s, e) \in Seq(S) /\ Len(Append(s, e)) = Len(s) + 1 /\ Len(s) \in Nat
      /\ Append(s, e)[Len(s) + 1] = e
      /\ \A i \in 1..Len(s) : Append(s, e)[i] = s[i]
  OBVIOUS
<1>2. DOMAIN s = 1..Len(s) /\ DOMAIN Append(s, e) = 1..(Len(s) + 1)
  BY <1>1
<1>3. Range(Append(s, e)) = Range(s) \cup {e}
  BY <1>1, <1>2 DEF Range
<1>4. ASSUME IsInjective(s), e \notin Range(s) PROVE IsInjective(Append(s, e))
  BY <1>1, <1>2, <1>4 DEF IsInjective, Range
<1> QED BY <1>1, <1>3, <1>4
-----------------------------------------------------------------------------
(* The inductive invariant                                                 *)

(* What a goroutine has in its hands at each point of getIdleConn,         *)
(* openConn and removeConn is a connection that exists; past registration  *)
(* it is one of the pool's, except for the caller of OpenRawConn.          *)
Hands ==
  /\ Buffered \cup allCons \cup toClose \subseteq DOMAIN conns
  /\ \A g \in Goroutines :
       /\ pc[g] \in {"dial", "login", "register", "openErr", "raw"}
            => held[g] \in DOMAIN conns
       /\ pc[g] \in {"own", "decr", "remove", "closeConn"}
            => held[g] \in DOMAIN conns /\ held[g] > 0

(* The channel's queue of receivers holds waiting goroutines, each once. *)
Parked ==
  /\ IsInjective(recvq)
  /\ \A g \in Range(recvq) : pc[g] = "wait"

IInv == TypeOK /\ Hands /\ Parked /\ ExclusiveOwner /\ SlotsExact

-----------------------------------------------------------------------------
(* Counting the occupied slots                                             *)

(* Only finitely many connections occupy a slot, all of the pool's. *)
LEMMA CountedFinite ==
  ASSUME TypeOK
  PROVE  Counted \subseteq 1..connIdx /\ IsFiniteSet(Counted)
<1>1. Counted \subseteq 1..connIdx
  <2>1. Buffered \subseteq 1..connIdx
    BY DEF TypeOK, Buffered, Range
  <2>2. \A g \in Holders : held[g] \in 1..connIdx
    BY DEF TypeOK, Holders, ConnIds
  <2> QED BY <2>1, <2>2 DEF Counted
<1>2. IsFiniteSet(1..connIdx)
  <2>1. 1 \in Int /\ connIdx \in Int
    BY DEF TypeOK
  <2> QED BY <2>1, FS_Interval
<1> QED BY <1>1, <1>2, FS_Subset

(* A step that leaves the occupied slots as they are. *)
LEMMA SlotsKept ==
  ASSUME SlotsExact, Counted' = Counted,
         \A c \in Counted : conns'[c].host = conns[c].host,
         numConnsPerHost' = numConnsPerHost
  PROVE  SlotsExact'
<1>1. \A h \in Hosts : CountedOn(h)' = CountedOn(h)
  BY DEF CountedOn
<1> QED BY <1>1 DEF SlotsExact

(* A step that occupies one more slot, on host h0. *)
LEMMA SlotTaken ==
  ASSUME TypeOK, SlotsExact, NEW c, c \notin Counted, NEW h0 \in Hosts,
         Counted' = Counted \cup {c}, conns'[c].host = h0,
         \A d \in Counted : conns'[d].host = conns[d].host,
         numConnsPerHost' = [numConnsPerHost EXCEPT ![h0] = @ + 1]
  PROVE  SlotsExact'
<1> SUFFICES ASSUME NEW h \in Hosts
             PROVE  numConnsPerHost'[h] = Cardinality(CountedOn(h)')
  BY DEF SlotsExact
<1>1. IsFiniteSet(CountedOn(h))
  BY CountedFinite, FS_Subset DEF CountedOn
<1>2. numConnsPerHost[h] = Cardinality(CountedOn(h))
  BY DEF SlotsExact
<1>3. CASE h = h0
  <2>1. CountedOn(h)' = CountedOn(h) \cup {c} /\ c \notin CountedOn(h)
    BY <1>3 DEF CountedOn
  <2>2. Cardinality(CountedOn(h)') = Cardinality(CountedOn(h)) + 1
    BY <2>1, <1>1, FS_AddElement
  <2> QED BY <2>2, <1>2, <1>3 DEF TypeOK
<1>4. CASE h # h0
  <2>1. CountedOn(h)' = CountedOn(h)
    BY <1>4 DEF CountedOn
  <2> QED BY <2>1, <1>2, <1>4 DEF TypeOK
<1> QED BY <1>3, <1>4

(* A step that gives up the slot of connection c. *)
LEMMA SlotGivenUp ==
  ASSUME TypeOK, SlotsExact, NEW c \in Counted, conns[c].host \in Hosts,
         Counted' = Counted \ {c}, conns' = conns,
         numConnsPerHost' = [numConnsPerHost EXCEPT ![conns[c].host] = @ - 1]
  PROVE  SlotsExact'
<1> SUFFICES ASSUME NEW h \in Hosts
             PROVE  numConnsPerHost'[h] = Cardinality(CountedOn(h)')
  BY DEF SlotsExact
<1>1. IsFiniteSet(CountedOn(h)) /\ Cardinality(CountedOn(h)) \in Nat
  BY CountedFinite, FS_Subset, FS_CardinalityType DEF CountedOn
<1>2. numConnsPerHost[h] = Cardinality(CountedOn(h))
  BY DEF SlotsExact
<1>3. CASE h = conns[c].host
  <2>1. CountedOn(h)' = CountedOn(h) \ {c} /\ c \in CountedOn(h)
    BY <1>3 DEF CountedOn
  <2>2. Cardinality(CountedOn(h)') = Cardinality(CountedOn(h)) - 1
    BY <2>1, <1>1, FS_RemoveElement
  <2> QED BY <2>2, <1>1, <1>2, <1>3 DEF TypeOK
<1>4. CASE h # conns[c].host
  <2>1. CountedOn(h)' = CountedOn(h)
    BY <1>4 DEF CountedOn
  <2> QED BY <2>1, <1>2, <1>4 DEF TypeOK
<1> QED BY <1>3, <1>4

(* A step that gives nobody a connection keeps the owners apart. *)
LEMMA OwnersKept ==
  ASSUME ExclusiveOwner, freeConnCh' = freeConnCh, Users' \subseteq Users,
         \A g \in Users' : held'[g] = held[g]
  PROVE  ExclusiveOwner'
BY DEF ExclusiveOwner, Buffered, Range, IsInjective

-----------------------------------------------------------------------------
(* The steps, grouped by what they do to the books                         *)

(* A pool as newClient makes it. *)
LEMMA InitIInv == Init => IInv
<1> SUFFICES ASSUME Init PROVE IInv
  OBVIOUS
<1> USE DEF Init
<1>1. Buffered = {} /\ Range(recvq) = {} /\ Holders = {} /\ Droppers = {}
  BY DEF Buffered, Range, Holders, Droppers
<1>2. TypeOK
  <2>1. freeConnCh \in Seq(1..connIdx) /\ recvq \in Seq(Goroutines)
    OBVIOUS
  <2>2. conns \in [DOMAIN conns -> Conn] /\ DOMAIN conns \subseteq ConnIds
    OBVIOUS
  <2>3. numConnsPerHost \in [Hosts -> Int]
    OBVIOUS
  <2>4. /\ pc \in [Goroutines -> Labels]
        /\ held \in [Goroutines -> {0} \cup ConnIds]
        /\ resume \in [Goroutines -> {"poll", "decide", "closing"}]
    BY DEF Labels
  <2> QED BY <2>1, <2>2, <2>3, <2>4 DEF TypeOK
<1>3. Hands /\ Parked
  BY <1>1 DEF Hands, Parked, IsInjective
<1>4. ExclusiveOwner
  BY <1>1 DEF ExclusiveOwner, Users, IsInjective
<1>5. SlotsExact
  <2>1. \A h \in Hosts : CountedOn(h) = {}
    BY <1>1 DEF CountedOn, Counted
  <2> QED BY <2>1, FS_EmptySet DEF SlotsExact
<1> QED BY <1>2, <1>3, <1>4, <1>5 DEF IInv

(* The round robin stays within hosts. *)
LEMMA HostAtInHosts == \A i \in Nat : HostAt(i) \in Hosts
<1> SUFFICES ASSUME NEW i \in Nat PROVE HostAt(i) \in Hosts
  OBVIOUS
<1>1. Len(hosts) \in Nat /\ Len(hosts) > 0 /\ DOMAIN hosts = 1..Len(hosts)
  BY PoolAssumption
<1>2. i % Len(hosts) \in 0..(Len(hosts) - 1)
  BY <1>1
<1> QED BY <1>1, <1>2 DEF HostAt, Hosts, Range

(* Steps that move no connection of the pool. *)
Quiet(g) ==
  \/ BeginOp(g) \/ PollEmpty(g) \/ PoolFull(g) \/ removeConn(g) \/ close(g)
  \/ DialSucceeds(g) \/ DialFails(g) \/ LoginSucceeds(g) \/ LoginFails(g)
  \/ Register(g) \/ BreakConn(g) \/ Close(g) \/ CloseNext(g)
  \/ CloseReturns(g) \/ OpenRawConn(g) \/ CloseRaw(g)

LEMMA QuietHands ==
  ASSUME IInv, NEW g \in Goroutines, Quiet(g)
  PROVE  TypeOK' /\ Hands'
<1> USE DEF IInv, TypeOK, Hands, ConnIds, Goto, Labels, Conn, ClosedConn, Buffered
<1>1. CASE BeginOp(g) BY <1>1 DEF BeginOp
<1>2. CASE PollEmpty(g) BY <1>2 DEF PollEmpty
<1>3. CASE PoolFull(g) BY <1>3 DEF PoolFull
<1>4. CASE removeConn(g) BY <1>4 DEF removeConn
<1>5. CASE close(g) BY <1>5, ZenonT(60) DEF close
<1>6. CASE DialSucceeds(g) BY <1>6, ZenonT(60) DEF DialSucceeds
<1>7. CASE DialFails(g) BY <1>7 DEF DialFails
<1>8. CASE LoginSucceeds(g) BY <1>8 DEF LoginSucceeds
<1>9. CASE LoginFails(g) BY <1>9, ZenonT(60) DEF LoginFails
<1>10. CASE Register(g)
  <2>1. CASE closed
    <3>1. /\ pc[g] = "register" /\ conns' = ClosedConn(held[g])
          /\ pc' = [pc EXCEPT ![g] = "openErr"]
          /\ UNCHANGED <<freeConnCh, recvq, numConnsPerHost, allCons, connIdx,
                         rawConnIdx, closed, toClose, held, resume>>
      BY <1>10, <2>1, Zenon DEF Register
    <3> QED BY <3>1, ZenonT(60)
  <2>2. CASE ~closed /\ held[g] >= 0
    <3>1. held[g] \in 1..connIdx
      BY <1>10, <2>2 DEF Register
    <3> QED BY <1>10, <2>2, <3>1 DEF Register
  <2>3. CASE ~closed /\ ~(held[g] >= 0) BY <1>10, <2>3 DEF Register
  <2> QED BY <2>1, <2>2, <2>3
<1>11. CASE BreakConn(g) BY <1>11, ZenonT(60) DEF BreakConn
<1>12. CASE Close(g) BY <1>12 DEF Close
<1>13. CASE CloseNext(g) BY <1>13 DEF CloseNext
<1>14. CASE CloseReturns(g) BY <1>14 DEF CloseReturns
<1>15. CASE OpenRawConn(g)
  <2> DEFINE c == -(rawConnIdx + 1)
  <2>1. HostAt(rawConnIdx) \in Hosts
    BY HostAtInHosts
  <2>2. /\ conns' \in [DOMAIN conns \cup {c} -> Conn]
        /\ \A d \in DOMAIN conns : d \in DOMAIN conns'
        /\ c \in DOMAIN conns'
    BY <1>15, <2>1 DEF OpenRawConn, NewConn
  <2>3. ConnIds' = ConnIds \cup {c} /\ connIdx' = connIdx
    BY <1>15 DEF OpenRawConn
  <2>4. /\ held' = [held EXCEPT ![g] = c] /\ pc' = [pc EXCEPT ![g] = "dial"]
        /\ UNCHANGED <<freeConnCh, recvq, numConnsPerHost, allCons, closed,
                       toClose, resume>>
        /\ rawConnIdx' \in Nat
    BY <1>15 DEF OpenRawConn, NewConn
  <2> HIDE DEF c, ConnIds
  <2>5. TypeOK'
    BY <2>2, <2>3, <2>4
  <2>6. Hands'
    BY <2>2, <2>3, <2>4
  <2> QED BY <2>5, <2>6
<1>16. CASE CloseRaw(g) BY <1>16, ZenonT(60) DEF CloseRaw
<1> QED BY <1>1, <1>2, <1>3, <1>4, <1>5, <1>6, <1>7, <1>8, <1>9, <1>10,
           <1>11, <1>12, <1>13, <1>14, <1>15, <1>16 DEF Quiet

(* A step of g leaves what the other goroutines hold alone. *)
OthersKept(g) ==
  \A k \in Goroutines \ {g} :
    pc'[k] = pc[k] /\ held'[k] = held[k] /\ resume'[k] = resume[k]

(* What a quiet step leaves as it is. *)
LEMMA QuietKept ==
  ASSUME IInv, NEW g \in Goroutines, Quiet(g)
  PROVE  /\ freeConnCh' = freeConnCh /\ recvq' = recvq
         /\ numConnsPerHost' = numConnsPerHost /\ pc[g] # "wait" /\ OthersKept(g)
         /\ \A c \in DOMAIN conns : conns'[c].host = conns[c].host
         /\ Users' \subseteq Users /\ \A k \in Users' : held'[k] = held[k]
         /\ Holders' = Holders /\ \A k \in Holders : held'[k] = held[k]
<1> DEFINE Kept == /\ freeConnCh' = freeConnCh /\ recvq' = recvq
                   /\ numConnsPerHost' = numConnsPerHost /\ pc[g] # "wait"
                   /\ OthersKept(g)
<1>1. Kept
  <2> USE DEF IInv, TypeOK, Goto, OthersKept
  <2>1. CASE Register(g)
    BY <2>1 DEF Register
  <2>2. CASE CloseNext(g) \/ OpenRawConn(g) \/ CloseRaw(g) \/ close(g)
    BY <2>2 DEF CloseNext, OpenRawConn, NewConn, CloseRaw, close
  <2>3. CASE \/ BeginOp(g) \/ PollEmpty(g) \/ PoolFull(g) \/ removeConn(g)
             \/ DialSucceeds(g) \/ DialFails(g) \/ LoginSucceeds(g)
             \/ LoginFails(g) \/ BreakConn(g) \/ Close(g) \/ CloseReturns(g)
    BY <2>3 DEF BeginOp, PollEmpty, PoolFull, removeConn, DialSucceeds,
         DialFails, LoginSucceeds, LoginFails, BreakConn, Close, CloseReturns
  <2> HIDE DEF Kept
  <2> QED BY <2>1, <2>2, <2>3 DEF Quiet
<1>2. \A c \in DOMAIN conns : conns'[c].host = conns[c].host
  <2>1. \/ conns' = conns
        \/ conns' = ClosedConn(held[g])
        \/ conns' = [conns EXCEPT ![held[g]].ctrl = "open"]
        \/ conns' = [conns EXCEPT ![held[g]].broken = TRUE]
        \/ OpenRawConn(g)
    BY DEF Quiet, BeginOp, PollEmpty, PoolFull, removeConn, close, DialSucceeds,
           DialFails, LoginSucceeds, LoginFails, Register, BreakConn, Close,
           CloseNext, CloseReturns, CloseRaw
  <2>2. CASE OpenRawConn(g)
    BY <2>2 DEF OpenRawConn, NewConn, IInv, TypeOK, ConnIds
  <2>3. \A c \in DOMAIN conns : conns[c] \in Conn
    BY DEF IInv, TypeOK
  <2>4. CASE conns' = ClosedConn(held[g])
    BY <2>3, <2>4 DEF ClosedConn, Conn
  <2>5. CASE conns' = [conns EXCEPT ![held[g]].ctrl = "open"]
    BY <2>3, <2>5 DEF Conn
  <2>6. CASE conns' = [conns EXCEPT ![held[g]].broken = TRUE]
    BY <2>3, <2>6 DEF Conn
  <2> QED BY <2>1, <2>2, <2>4, <2>5, <2>6
<1>3. /\ g \in Holders <=> g \in Holders'
      /\ g \in Droppers' => g \in Droppers
      /\ g \in Users' => held'[g] = held[g]
  <2> USE DEF Holders, Droppers, Users, IInv, TypeOK, Hands, Goto
  <2>1. CASE Register(g)
    BY <2>1, SMTT(30) DEF Register
  <2>2. CASE OpenRawConn(g)
    BY <2>2 DEF OpenRawConn, NewConn
  <2>3. CASE CloseNext(g) \/ CloseRaw(g) \/ close(g)
    BY <2>3 DEF CloseNext, CloseRaw, close
  <2>4. CASE \/ BeginOp(g) \/ PollEmpty(g) \/ PoolFull(g) \/ removeConn(g)
             \/ DialSucceeds(g) \/ DialFails(g) \/ LoginSucceeds(g)
             \/ LoginFails(g) \/ BreakConn(g) \/ Close(g) \/ CloseReturns(g)
    BY <2>4 DEF BeginOp, PollEmpty, PoolFull, removeConn, DialSucceeds,
         DialFails, LoginSucceeds, LoginFails, BreakConn, Close, CloseReturns
  <2> QED BY <2>1, <2>2, <2>3, <2>4 DEF Quiet
<1>4. Holders' = Holders /\ \A k \in Holders : held'[k] = held[k]
  BY <1>1, <1>3 DEF Holders, Users, OthersKept
<1>5. Users' \subseteq Users /\ \A k \in Users' : held'[k] = held[k]
  BY <1>1, <1>3 DEF Users, Holders, Droppers, OthersKept
<1> QED BY <1>1, <1>2, <1>4, <1>5

LEMMA QuietBooks ==
  ASSUME IInv, NEW g \in Goroutines, Quiet(g)
  PROVE  Parked' /\ ExclusiveOwner' /\ SlotsExact'
<1>1. Parked'
  <2>1. recvq' = recvq /\ pc[g] # "wait" /\ OthersKept(g)
    BY QuietKept
  <2> QED BY <2>1 DEF Parked, Range, IInv, TypeOK, OthersKept
<1>2. ExclusiveOwner'
  BY QuietKept, OwnersKept DEF IInv
<1>3. SlotsExact'
  <2>1. Counted' = Counted
    BY QuietKept DEF Counted, Buffered
  <2>2. Counted \subseteq DOMAIN conns
    BY DEF Counted, Holders, IInv, Hands
  <2> QED BY <2>1, <2>2, QuietKept, SlotsKept DEF IInv
<1> QED BY <1>1, <1>2, <1>3

(* Whoever is parked is waiting. *)
LEMMA ParkedWait ==
  ASSUME IInv
  PROVE  Range(recvq) \subseteq Goroutines /\ \A k \in Range(recvq) : pc[k] = "wait"
<1>1. recvq \in Seq(Goroutines)
  BY DEF IInv, TypeOK
<1>2. Range(recvq) \subseteq Goroutines
  BY <1>1 DEF Range
<1> QED BY <1>2 DEF IInv, Parked

(* A sound or broken connection changes hands without leaving the books. *)
LEMMA ReceiveIInv ==
  ASSUME IInv, NEW g \in Goroutines, PollFree(g) \/ ReceiveBuffered(g)
  PROVE  IInv'
<1> DEFINE c == Head(freeConnCh)
<1>1. /\ freeConnCh # <<>> /\ freeConnCh' = Tail(freeConnCh)
      /\ held' = [held EXCEPT ![g] = c]
      /\ pc[g] \in {"poll", "block"}
      /\ pc' = [pc EXCEPT ![g] = IF conns[c].broken THEN "decr" ELSE "own"]
      /\ \E again \in {"poll", "decide"} : resume' = [resume EXCEPT ![g] = again]
      /\ UNCHANGED <<recvq, numConnsPerHost, allCons, connIdx, rawConnIdx,
                     closed, conns, toClose>>
  BY DEF PollFree, ReceiveBuffered, Received, Goto
<1>2. /\ freeConnCh' \in Seq(1..connIdx) /\ IsInjective(freeConnCh')
      /\ c \in Buffered /\ Buffered' = Buffered \ {c}
  BY <1>1, RangeTail DEF IInv, TypeOK, ExclusiveOwner, Buffered
<1>3. c \in 1..connIdx /\ c \in DOMAIN conns
  BY <1>2 DEF IInv, TypeOK, Hands, Buffered, Range
<1> HIDE DEF c
<1>4. TypeOK'
  BY <1>1, <1>2, <1>3 DEF IInv, TypeOK, ConnIds, Labels
<1>5. Hands'
  BY <1>1, <1>2, <1>3 DEF IInv, TypeOK, Hands
<1>6. Parked'
  <2>1. g \notin Range(recvq) /\ Range(recvq) \subseteq Goroutines
    BY <1>1, ParkedWait
  <2> QED BY <1>1, <2>1 DEF IInv, TypeOK, Parked
<1>7. /\ g \notin Users /\ Users' = Users \cup {g}
      /\ g \notin Holders /\ Holders' = Holders \cup {g}
      /\ held'[g] = c /\ \A k \in Users : held'[k] = held[k]
  <2>1. held'[g] = c /\ \A k \in Goroutines \ {g} : held'[k] = held[k]
    BY <1>1 DEF IInv, TypeOK
  <2>2. Holders' = Holders \cup {g} /\ g \notin Holders
    BY <1>1, <1>3, <2>1 DEF IInv, TypeOK, Holders
  <2>3. Droppers' = Droppers /\ g \notin Droppers
    <3>1. pc'[g] \in {"decr", "own"}
      BY <1>1 DEF IInv, TypeOK
    <3>2. \A k \in Goroutines \ {g} : pc'[k] = pc[k] /\ resume'[k] = resume[k]
      BY <1>1 DEF IInv, TypeOK
    <3> QED BY <1>1, <3>1, <3>2 DEF Droppers
  <2> QED BY <2>1, <2>2, <2>3 DEF Users, Holders, Droppers
<1>8. ExclusiveOwner'
  BY <1>2, <1>7 DEF IInv, ExclusiveOwner
<1>9. SlotsExact'
  <2>1. Counted' = Counted
    BY <1>2, <1>7 DEF Counted, Users
  <2> QED BY <2>1, <1>1, SlotsKept DEF IInv
<1> QED BY <1>4, <1>5, <1>6, <1>8, <1>9 DEF IInv

(* The deferred return: into the hands of the longest waiter, or into the  *)
(* buffer.                                                                 *)
LEMMA ReturnIInv ==
  ASSUME IInv, NEW g \in Goroutines, returnConn(g)
  PROVE  IInv'
<1> DEFINE c == held[g]
<1>1. /\ pc[g] = "own" /\ c \in DOMAIN conns /\ c \in 1..connIdx
      /\ g \in Holders /\ g \in Users /\ c \notin Buffered
      /\ UNCHANGED <<numConnsPerHost, allCons, connIdx, rawConnIdx, closed,
                     conns, toClose>>
  BY DEF returnConn, IInv, TypeOK, Hands, ConnIds, Holders, Users, ExclusiveOwner
<1>2. ASSUME recvq # <<>>, Send(g) PROVE IInv'
  <2> DEFINE w == Head(recvq)
  <2>1. /\ held' = [held EXCEPT ![g] = 0, ![w] = c]
        /\ pc' = [pc EXCEPT ![g] = "idle",
                            ![w] = IF conns[c].broken THEN "decr" ELSE "own"]
        /\ resume' = [resume EXCEPT ![w] = "decide"]
        /\ recvq' = Tail(recvq) /\ freeConnCh' = freeConnCh
    BY <1>2 DEF Send
  <2>2. /\ w \in Range(recvq) /\ Range(recvq') = Range(recvq) \ {w}
        /\ IsInjective(recvq') /\ recvq' \in Seq(Goroutines)
    BY <1>2, <2>1, RangeTail DEF IInv, TypeOK, Parked
  <2>3. w \in Goroutines /\ pc[w] = "wait" /\ w # g
    BY <1>1, <2>2, ParkedWait
  <2> HIDE DEF w
  <2>4. /\ held'[g] = 0 /\ held'[w] = c
        /\ pc'[g] = "idle" /\ pc'[w] \in {"decr", "own"}
        /\ \A k \in Goroutines \ {g, w} : /\ held'[k] = held[k] /\ pc'[k] = pc[k]
                                          /\ resume'[k] = resume[k]
    BY <2>1, <2>3 DEF IInv, TypeOK
  <2>5. TypeOK'
    BY <1>1, <2>1, <2>2, <2>3 DEF IInv, TypeOK, ConnIds, Labels
  <2>6. Hands'
    BY <1>1, <2>1, <2>3, <2>4 DEF IInv, Hands, Buffered
  <2>7. Parked'
    <3>1. \A k \in Range(recvq') : k \in Goroutines \ {g, w} /\ pc[k] = "wait"
      BY <1>1, <2>2, ParkedWait
    <3> QED BY <3>1, <2>2, <2>4 DEF Parked
  <2>8. /\ Holders' = (Holders \ {g}) \cup {w} /\ w \notin Holders
        /\ Droppers' = Droppers /\ w \notin Droppers /\ g \notin Droppers
    BY <1>1, <2>3, <2>4 DEF Holders, Droppers
  <2>9. ExclusiveOwner'
    <3>1. Users' = (Users \ {g}) \cup {w} /\ w \notin Users
      BY <2>8 DEF Users
    <3>2. \A k \in Users \ {g} : held'[k] = held[k] /\ held[k] # c
      BY <1>1, <2>4, <3>1 DEF IInv, ExclusiveOwner, Users, Holders, Droppers
    <3>3. Buffered' = Buffered /\ IsInjective(freeConnCh')
      BY <2>1 DEF Buffered, IInv, ExclusiveOwner
    <3> HIDE DEF c
    <3> QED BY <1>1, <2>4, <3>1, <3>2, <3>3 DEF IInv, ExclusiveOwner
  <2>10. SlotsExact'
    <3>1. Counted' = Counted
      <4>1. Buffered' = Buffered
        BY <2>1 DEF Buffered
      <4>2. \A k \in Holders \ {g} : held'[k] = held[k]
        BY <2>4, <2>8 DEF Holders
      <4>3. {held'[k] : k \in Holders'} = {held[k] : k \in Holders}
        BY <1>1, <2>4, <2>8, <4>2
      <4> QED BY <4>1, <4>3 DEF Counted
    <3> QED BY <3>1, <1>1, SlotsKept DEF IInv
  <2> QED BY <2>5, <2>6, <2>7, <2>9, <2>10 DEF IInv
<1>3. ASSUME recvq = <<>>, Send(g) PROVE IInv'
  <2>1. /\ held' = [held EXCEPT ![g] = 0] /\ pc' = [pc EXCEPT ![g] = "idle"]
        /\ recvq' = recvq /\ resume' = resume
        /\ freeConnCh' = Append(freeConnCh, c)
    BY <1>3 DEF Send, Goto
  <2>2. /\ freeConnCh' \in Seq(1..connIdx) /\ IsInjective(freeConnCh')
        /\ Buffered' = Buffered \cup {c}
    BY <1>1, <2>1, RangeAppend DEF IInv, TypeOK, ExclusiveOwner, Buffered
  <2>4. /\ held'[g] = 0 /\ pc'[g] = "idle"
        /\ \A k \in Goroutines \ {g} : /\ held'[k] = held[k] /\ pc'[k] = pc[k]
                                       /\ resume'[k] = resume[k]
    BY <2>1 DEF IInv, TypeOK
  <2>5. TypeOK'
    BY <1>1, <2>1, <2>2 DEF IInv, TypeOK, ConnIds, Labels
  <2>6. Hands'
    BY <1>1, <2>2, <2>4 DEF IInv, Hands
  <2>7. Parked'
    BY <1>3, <2>1 DEF Parked, IsInjective, Range
  <2>8. /\ Holders' = Holders \ {g}
        /\ Droppers' = Droppers /\ g \notin Droppers
    BY <1>1, <2>4 DEF Holders, Droppers
  <2>9. ExclusiveOwner'
    BY <1>1, <2>2, <2>4, <2>8 DEF IInv, ExclusiveOwner, Users, Holders, Droppers
  <2>10. SlotsExact'
    <3>1. Counted' = Counted
      BY <1>1, <2>2, <2>4, <2>8 DEF Counted, Holders, IInv, ExclusiveOwner, Users
    <3> QED BY <3>1, <1>1, SlotsKept DEF IInv
  <2> QED BY <2>5, <2>6, <2>7, <2>9, <2>10 DEF IInv
<1> QED BY <1>2, <1>3 DEF returnConn

(* Waiting changes only the queue of receivers. *)
LEMMA ParkIInv ==
  ASSUME IInv, NEW g \in Goroutines, Park(g)
  PROVE  IInv'
<1>1. /\ pc[g] = "block" /\ pc' = [pc EXCEPT ![g] = "wait"]
      /\ recvq' = Append(recvq, g)
      /\ UNCHANGED <<freeConnCh, numConnsPerHost, allCons, connIdx, rawConnIdx,
                     closed, conns, toClose, held, resume>>
  BY DEF Park, Goto
<1>2. g \notin Range(recvq)
  BY <1>1, ParkedWait
<1>3. /\ recvq' \in Seq(Goroutines) /\ IsInjective(recvq')
      /\ Range(recvq') = Range(recvq) \cup {g}
  BY <1>1, <1>2, RangeAppend DEF IInv, TypeOK, Parked
<1>4. TypeOK'
  BY <1>1, <1>3 DEF IInv, TypeOK, ConnIds, Labels
<1>5. Hands'
  BY <1>1 DEF IInv, TypeOK, Hands, Buffered
<1>6. Parked'
  BY <1>1, <1>2, <1>3, ParkedWait DEF IInv, TypeOK, Parked
<1>7. Holders' = Holders /\ Droppers' = Droppers
  BY <1>1 DEF IInv, TypeOK, Holders, Droppers
<1>8. ExclusiveOwner'
  BY <1>1, <1>7, OwnersKept DEF IInv, Users
<1>9. SlotsExact'
  BY <1>1, <1>7, SlotsKept DEF IInv, Counted, Buffered
<1> QED BY <1>4, <1>5, <1>6, <1>8, <1>9 DEF IInv

(* Reserving a slot: the new connection is on nobody's books yet. *)
LEMMA ReserveIInv ==
  ASSUME IInv, NEW g \in Goroutines, ReserveSlot(g)
  PROVE  IInv'
<1> DEFINE c == connIdx + 1
<1>1. /\ pc[g] = "decide" /\ connIdx' = c
      /\ UNCHANGED <<freeConnCh, recvq, allCons, rawConnIdx, closed, toClose, resume>>
      /\ connIdx \in Nat /\ c \notin DOMAIN conns /\ c \notin Counted
  <2>1. connIdx \in Nat /\ rawConnIdx \in Nat /\ DOMAIN conns \subseteq ConnIds
    BY DEF IInv, TypeOK
  <2>2. c \notin 1..connIdx /\ c \notin ConnIds
    BY <2>1 DEF ConnIds
  <2>3. Counted \subseteq 1..connIdx
    BY CountedFinite DEF IInv
  <2> QED BY <2>1, <2>2, <2>3 DEF ReserveSlot
<1>2. ConnIds' = ConnIds \cup {c} /\ (1..connIdx)' = (1..connIdx) \cup {c} /\ c \in Nat
  BY <1>1 DEF ConnIds
<1>3. g \notin Users /\ g \notin Holders /\ g \notin Range(recvq)
  BY <1>1, ParkedWait DEF Users, Holders, Droppers
<1>4. CASE RoundRobin(c) # {}
  <2>1. PICK i \in RoundRobin(c) :
          /\ numConnsPerHost' = [numConnsPerHost EXCEPT ![HostAt(i)] = @ + 1]
          /\ NewConn(g, c, HostAt(i))
    BY <1>4 DEF ReserveSlot
  <2> DEFINE h == HostAt(i)
  <2>2. h \in Hosts
    <3>1. i \in Nat
      BY <1>1, PoolAssumption DEF RoundRobin
    <3> QED BY <3>1, HostAtInHosts
  <2>3. /\ conns' \in [DOMAIN conns \cup {c} -> Conn] /\ conns'[c].host = h
        /\ \A d \in DOMAIN conns : conns'[d] = conns[d]
        /\ held' = [held EXCEPT ![g] = c] /\ pc' = [pc EXCEPT ![g] = "dial"]
    BY <1>1, <2>1, <2>2 DEF NewConn, Goto, Conn, IInv, TypeOK
  <2> HIDE DEF h, c
  <2>4. /\ held'[g] = c /\ pc'[g] = "dial"
        /\ \A k \in Goroutines \ {g} : /\ held'[k] = held[k] /\ pc'[k] = pc[k]
                                       /\ resume'[k] = resume[k]
    BY <1>1, <2>3 DEF IInv, TypeOK
  <2>5. TypeOK'
    <3>1. freeConnCh' \in Seq((1..connIdx)')
      BY <1>1, <1>2, SeqMonotone DEF IInv, TypeOK
    <3>2. numConnsPerHost' \in [Hosts -> Int]
      <4>1. numConnsPerHost \in [Hosts -> Int]
        BY DEF IInv, TypeOK
      <4> QED BY <4>1, <2>1, <2>2 DEF h
    <3>3. held' \in [Goroutines -> {0} \cup ConnIds']
      BY <1>2, <2>3 DEF IInv, TypeOK
    <3>4. pc' \in [Goroutines -> Labels]
      BY <2>3 DEF IInv, TypeOK, Labels
    <3>5. conns' \in [DOMAIN conns' -> Conn] /\ DOMAIN conns' \subseteq ConnIds'
      BY <1>2, <2>3 DEF IInv, TypeOK
    <3>6. connIdx' \in Nat /\ allCons' \subseteq (1..connIdx)'
          /\ toClose' \subseteq (1..connIdx)'
      BY <1>1, <1>2 DEF IInv, TypeOK
    <3> QED BY <1>1, <3>1, <3>2, <3>3, <3>4, <3>5, <3>6 DEF IInv, TypeOK
  <2>6. Hands'
    BY <1>1, <2>3, <2>4 DEF IInv, Hands, Buffered
  <2>7. Parked'
    BY <1>1, <1>3, <2>4, ParkedWait DEF IInv, Parked
  <2>8. /\ Holders' = Holders \cup {g} /\ Droppers' = Droppers
        /\ Buffered' = Buffered /\ g \notin Droppers
    BY <1>1, <1>2, <2>4 DEF Holders, Droppers, Buffered, c
  <2>9. ExclusiveOwner'
    <3>1. \A k \in Users : held'[k] = held[k] /\ held[k] # c
      BY <1>1, <1>3, <2>4 DEF Users, Holders, Droppers, IInv, Hands
    <3>2. c \notin Buffered
      BY <1>1 DEF Counted
    <3>3. Users' = Users \cup {g} /\ IsInjective(freeConnCh')
      BY <1>1, <2>8 DEF Users, IInv, ExclusiveOwner
    <3> QED BY <2>4, <2>8, <3>1, <3>2, <3>3 DEF IInv, ExclusiveOwner
  <2>10. SlotsExact'
    <3>1. \A k \in Holders : held'[k] = held[k]
      BY <1>3, <2>4 DEF Holders
    <3>2. Counted' = Counted \cup {c}
      BY <2>4, <2>8, <3>1 DEF Counted
    <3>3. Counted \subseteq DOMAIN conns
      BY DEF Counted, Holders, IInv, Hands
    <3> QED BY <1>1, <2>1, <2>2, <2>3, <3>2, <3>3, SlotTaken DEF IInv, h
  <2> QED BY <2>5, <2>6, <2>7, <2>9, <2>10 DEF IInv
<1>5. CASE RoundRobin(c) = {}
  <2>1. pc' = [pc EXCEPT ![g] = "panic"] /\ UNCHANGED <<numConnsPerHost, conns, held>>
    BY <1>5 DEF ReserveSlot, Goto
  <2> HIDE DEF c
  <2>2. pc'[g] = "panic" /\ \A k \in Goroutines \ {g} : pc'[k] = pc[k]
    BY <2>1 DEF IInv, TypeOK
  <2>3. TypeOK'
    <3>1. freeConnCh' \in Seq((1..connIdx)')
      BY <1>1, <1>2, SeqMonotone DEF IInv, TypeOK
    <3>2. pc' \in [Goroutines -> Labels]
      BY <2>1 DEF IInv, TypeOK, Labels
    <3> QED BY <1>1, <1>2, <2>1, <3>1, <3>2 DEF IInv, TypeOK
  <2>4. Hands' /\ Parked'
    BY <1>1, <1>3, <2>1, <2>2, ParkedWait DEF IInv, Hands, Parked, Buffered
  <2>5. Holders' = Holders /\ Droppers' = Droppers
    BY <1>1, <2>1, <2>2 DEF Holders, Droppers
  <2>6. ExclusiveOwner'
    BY <1>1, <2>1, <2>5, OwnersKept DEF IInv, Users
  <2>7. SlotsExact'
    BY <1>1, <2>1, <2>5, SlotsKept DEF IInv, Counted, Buffered
  <2> QED BY <2>3, <2>4, <2>6, <2>7 DEF IInv
<1> QED BY <1>4, <1>5

(* The two ways to give up a slot: a connection received broken, and one   *)
(* that could not be opened.  A raw connection that could not be opened    *)
(* occupies none.                                                          *)
LEMMA GiveUpIInv ==
  ASSUME IInv, NEW g \in Goroutines, GiveUpSlot(g) \/ OpenFailed(g)
  PROVE  IInv'
<1> DEFINE c == held[g]
<1>1. /\ pc[g] \in {"decr", "openErr"} /\ c \in DOMAIN conns /\ conns[c].host \in Hosts
      /\ UNCHANGED <<freeConnCh, recvq, allCons, connIdx, rawConnIdx, closed,
                     conns, toClose, resume>>
      /\ c > 0 => g \in Holders
      /\ pc[g] = "decr" => c > 0
  BY DEF GiveUpSlot, OpenFailed, IInv, TypeOK, Hands, Holders, Conn
<1>2. /\ numConnsPerHost' = IF c > 0
                            THEN [numConnsPerHost EXCEPT ![conns[c].host] = @ - 1]
                            ELSE numConnsPerHost
      /\ \E l \in {"remove", "idle"} : pc' = [pc EXCEPT ![g] = l]
      /\ held' = held \/ (held' = [held EXCEPT ![g] = 0] /\ pc'[g] # "remove")
      /\ pc'[g] = "remove" => c > 0
  BY <1>1 DEF GiveUpSlot, OpenFailed, Goto, IInv, TypeOK
<1>3. /\ \A k \in Goroutines \ {g} : /\ held'[k] = held[k] /\ pc'[k] = pc[k]
                                     /\ resume'[k] = resume[k]
      /\ pc'[g] \in {"remove", "idle"}
      /\ pc'[g] = "remove" => held'[g] = c /\ c > 0
  BY <1>1, <1>2 DEF IInv, TypeOK
<1>4. TypeOK'
  <2>1. numConnsPerHost' \in [Hosts -> Int]
    BY <1>1, <1>2 DEF IInv, TypeOK
  <2>2. pc' \in [Goroutines -> Labels]
    BY <1>2 DEF IInv, TypeOK, Labels
  <2>3. held' \in [Goroutines -> {0} \cup ConnIds]
    BY <1>2 DEF IInv, TypeOK
  <2> QED BY <1>1, <2>1, <2>2, <2>3 DEF IInv, TypeOK, ConnIds
<1>5. Hands'
  BY <1>1, <1>3 DEF IInv, Hands, Buffered
<1>6. Parked'
  <2>1. g \notin Range(recvq)
    BY <1>1, ParkedWait
  <2> QED BY <1>1, <1>3, <2>1, ParkedWait DEF IInv, Parked
<1>7. Holders' = Holders \ {g} /\ Users' \subseteq Users
      /\ \A k \in Users' : held'[k] = held[k]
  BY <1>1, <1>3 DEF Users, Holders, Droppers
<1>8. ExclusiveOwner'
  BY <1>1, <1>7, OwnersKept DEF IInv
<1>9. SlotsExact'
  <2>1. CASE c > 0
    <3>1. \A k \in Holders \ {g} : held'[k] = held[k] /\ held[k] # c
      BY <1>1, <1>3, <2>1 DEF IInv, ExclusiveOwner, Users, Holders
    <3>2. c \in Counted /\ c \notin Buffered /\ Buffered' = Buffered
      BY <1>1, <2>1 DEF IInv, ExclusiveOwner, Users, Counted, Buffered
    <3>3. {held'[k] : k \in Holders'} = {held[k] : k \in Holders} \ {c}
      BY <1>7, <3>1
    <3>4. Counted' = Counted \ {c}
      BY <3>2, <3>3 DEF Counted
    <3> QED BY <1>1, <1>2, <2>1, <3>2, <3>4, SlotGivenUp DEF IInv
  <2>2. CASE ~(c > 0)
    <3>1. Holders' = Holders
      BY <1>7, <2>2 DEF Holders
    <3>2. Counted' = Counted
      BY <1>1, <1>7, <3>1 DEF Counted, Buffered, Users
    <3> QED BY <1>1, <1>2, <2>2, <3>2, SlotsKept DEF IInv
  <2> QED BY <2>1, <2>2
<1> QED BY <1>4, <1>5, <1>6, <1>8, <1>9 DEF IInv

-----------------------------------------------------------------------------
(* The theorems                                                            *)

(* Every step of every goroutine, and stuttering, keep the invariant. *)
LEMMA StepIInv == IInv /\ [Next]_vars => IInv'
<1> SUFFICES ASSUME IInv, [Next]_vars PROVE IInv'
  OBVIOUS
<1>1. CASE UNCHANGED vars
  <2>1. /\ Buffered' = Buffered /\ Holders' = Holders /\ Droppers' = Droppers
        /\ Counted' = Counted
    BY <1>1 DEF vars, Buffered, Holders, Droppers, Counted
  <2>2. TypeOK' /\ Hands' /\ Parked'
    BY <1>1, <2>1 DEF vars, IInv, TypeOK, ConnIds, Hands, Parked
  <2>3. ExclusiveOwner'
    BY <1>1, <2>1, OwnersKept DEF vars, IInv, Users
  <2>4. SlotsExact'
    BY <1>1, <2>1, SlotsKept DEF vars, IInv
  <2> QED BY <2>2, <2>3, <2>4 DEF IInv
<1>2. ASSUME NEW g \in Goroutines, Quiet(g) PROVE IInv'
  BY <1>2, QuietHands, QuietBooks DEF IInv
<1>3. ASSUME NEW g \in Goroutines, PollFree(g) \/ ReceiveBuffered(g) PROVE IInv'
  BY <1>3, ReceiveIInv
<1>4. ASSUME NEW g \in Goroutines, returnConn(g) PROVE IInv'
  BY <1>4, ReturnIInv
<1>5. ASSUME NEW g \in Goroutines, Park(g) PROVE IInv'
  BY <1>5, ParkIInv
<1>6. ASSUME NEW g \in Goroutines, ReserveSlot(g) PROVE IInv'
  BY <1>6, ReserveIInv
<1>7. ASSUME NEW g \in Goroutines, GiveUpSlot(g) \/ OpenFailed(g) PROVE IInv'
  BY <1>7, GiveUpIInv
<1> QED
  BY <1>1, <1>2, <1>3, <1>4, <1>5, <1>6, <1>7 DEF Next, Continue, Quiet

(* The books are kept in every reachable state. *)
THEOREM PoolInvariant == Spec => []IInv
BY InitIInv, StepIInv, PTL DEF Spec

(* Every variable of the pool keeps its type. *)
THEOREM PoolTypes == Spec => []TypeOK
<1>1. IInv => TypeOK
  BY DEF IInv
<1> QED BY <1>1, PoolInvariant, PTL

(* Nobody shares a pool connection: it is idle once, or in one goroutine's *)
(* hands, for any number of goroutines, hosts and connections.             *)
THEOREM PoolExclusiveOwner == Spec => []ExclusiveOwner
<1>1. IInv => ExclusiveOwner
  BY DEF IInv
<1> QED BY <1>1, PoolInvariant, PTL

(* numConnsPerHost is exact on every host: no interleaving of opens,       *)
(* failures, broken connections and Close leaks or double-frees a slot.    *)
THEOREM PoolSlotsExact == Spec => []SlotsExact
<1>1. IInv => SlotsExact
  BY DEF IInv
<1> QED BY <1>1, PoolInvariant, PTL

(* ConnectionsPerHost is an upper bound for every host's counter, and the  *)
(* counter is never negative.  Only ReserveSlot counts up, and the round   *)
(* robin chose a host below its limit in the same critical section.        *)
THEOREM PoolLimitRespected == Spec => []LimitRespected
<1> DEFINE Below == \A h \in Hosts : numConnsPerHost[h] <= ConnectionsPerHost
<1>1. Init => Below
  BY PoolAssumption DEF Init
<1>2. IInv /\ Below /\ [Next]_vars => Below'
  <2> SUFFICES ASSUME IInv, Below, [Next]_vars, NEW h \in Hosts
               PROVE  numConnsPerHost'[h] <= ConnectionsPerHost
    OBVIOUS
  <2>0. numConnsPerHost \in [Hosts -> Int] /\ ConnectionsPerHost \in Nat
    BY PoolAssumption DEF IInv, TypeOK
  <2>1. ASSUME NEW g \in Goroutines, ReserveSlot(g)
        PROVE  numConnsPerHost'[h] <= ConnectionsPerHost
    <3>1. CASE RoundRobin(connIdx + 1) # {}
      <4>1. PICK i \in RoundRobin(connIdx + 1) :
              numConnsPerHost' = [numConnsPerHost EXCEPT ![HostAt(i)] = @ + 1]
        BY <2>1, <3>1 DEF ReserveSlot
      <4>2. numConnsPerHost[HostAt(i)] < ConnectionsPerHost
        BY DEF RoundRobin
      <4> QED BY <4>1, <4>2, <2>0
    <3>2. CASE RoundRobin(connIdx + 1) = {}
      BY <2>1, <3>2 DEF ReserveSlot
    <3> QED BY <3>1, <3>2
  <2>2. ASSUME NEW g \in Goroutines, GiveUpSlot(g) \/ OpenFailed(g)
        PROVE  numConnsPerHost'[h] <= ConnectionsPerHost
    BY <2>0, <2>2 DEF GiveUpSlot, OpenFailed
  <2>3. ASSUME NEW g \in Goroutines,
               \/ Quiet(g) \/ PollFree(g) \/ ReceiveBuffered(g)
               \/ returnConn(g) \/ Park(g)
        PROVE  numConnsPerHost' = numConnsPerHost
    BY <2>3 DEF Quiet, BeginOp, PollEmpty, PoolFull, removeConn, close,
                DialSucceeds, DialFails, LoginSucceeds, LoginFails, Register,
                BreakConn, Close, CloseNext, CloseReturns, OpenRawConn, CloseRaw,
                PollFree, ReceiveBuffered, returnConn, Park
  <2>4. CASE UNCHANGED vars
    BY <2>4 DEF vars
  <2> QED BY <2>1, <2>2, <2>3, <2>4 DEF Next, Continue, Quiet
<1>3. IInv /\ Below => LimitRespected
  <2> SUFFICES ASSUME IInv, Below, NEW h \in Hosts
               PROVE  numConnsPerHost[h] \in 0..ConnectionsPerHost
    BY DEF LimitRespected
  <2>1. Cardinality(CountedOn(h)) \in Nat
    BY CountedFinite, FS_Subset, FS_CardinalityType DEF IInv, CountedOn
  <2> QED BY <2>1, PoolAssumption DEF IInv, SlotsExact
<1> QED BY <1>1, <1>2, <1>3, PoolInvariant, PTL DEF Spec
=============================================================================
