-------------------------- MODULE PoolSafetyProofs --------------------------
(* Proofs about the sockets of the pool: none is lost, their number is     *)
(* bounded, and Close reaches all of them; and that neither a return nor   *)
(* the round robin can fail.                                               *)
EXTENDS ConnPoolProofs, FunctionTheorems

-----------------------------------------------------------------------------
(* What receiving from the channel and sending to it do to its content. *)
LEMMA ChannelMoves ==
  ASSUME IInv
  PROVE  /\ Buffered \subseteq 1..connIdx
         /\ freeConnCh # <<>> =>
              /\ Head(freeConnCh) \in Buffered
              /\ Range(Tail(freeConnCh)) = Buffered \ {Head(freeConnCh)}
         /\ \A c \in 1..connIdx : Range(Append(freeConnCh, c)) = Buffered \cup {c}
<1>1. freeConnCh \in Seq(1..connIdx) /\ IsInjective(freeConnCh) /\ connIdx \in Nat
  BY DEF IInv, TypeOK, ExclusiveOwner
<1>2. Buffered \subseteq 1..connIdx
  BY <1>1 DEF Buffered, Range
<1>3. ASSUME freeConnCh # <<>>
      PROVE  /\ Head(freeConnCh) \in Buffered
             /\ Range(Tail(freeConnCh)) = Buffered \ {Head(freeConnCh)}
  BY <1>1, <1>3, RangeTail DEF Buffered
<1>4. ASSUME NEW c \in 1..connIdx
      PROVE  Range(Append(freeConnCh, c)) = Buffered \cup {c}
  BY <1>1, RangeAppend DEF Buffered
<1> QED BY <1>2, <1>3, <1>4

-----------------------------------------------------------------------------
(* Sockets and the goroutines that hold them                               *)

(* A goroutine between two calls of openConn, removeConn or an operation   *)
(* has nothing in its hands, and what OpenRawConn returned is not one of   *)
(* the pool's.                                                             *)
InHand ==
  \A g \in Goroutines :
    /\ pc[g] \in {"idle", "poll", "decide", "panic", "block", "wait", "closing"}
         => held[g] = 0
    /\ pc[g] = "raw" => held[g] < 0

(* A raw connection is its caller's alone. *)
RawOwner == \A g, k \in Goroutines : held[g] = held[k] /\ held[g] < 0 => g = k

(* There is no socket before the dial, and none is left after a failure. *)
Opening ==
  \A g \in Goroutines :
    /\ pc[g] = "dial" => conns[held[g]].ctrl = "none"
    /\ pc[g] = "openErr" => conns[held[g]].ctrl # "open"

(* Whoever drops a broken connection goes back to getIdleConn. *)
Dropping == \A g \in Goroutines : pc[g] = "decr" => resume[g] # "closing"

SocketInv == InHand /\ RawOwner /\ Opening /\ Dropping /\ NoLostSocket

(* What a step of g that leaves the channel alone does to the sockets and  *)
(* to what g holds: sockets are only closed, except for the one g dials,   *)
(* and g lets go of no open one unless it is closing it after Close.       *)
Tidy(g) ==
  /\ OthersKept(g) /\ freeConnCh' = freeConnCh
  /\ DOMAIN conns \subseteq DOMAIN conns'
  /\ \A d \in DOMAIN conns :
       \/ conns'[d].ctrl = conns[d].ctrl
       \/ conns[d].ctrl = "open" /\ conns'[d].ctrl = "closed"
       \/ d = held[g] /\ pc[g] = "dial"
  /\ \A d \in DOMAIN conns' \ DOMAIN conns : conns'[d].ctrl = "none"
  /\ pc'[g] \in {"idle", "poll", "decide", "panic", "block", "wait", "closing"}
       => held'[g] = 0
  /\ pc'[g] = "dial" => conns'[held'[g]].ctrl = "none"
  /\ pc'[g] = "openErr" => conns'[held'[g]].ctrl # "open"
  /\ pc'[g] = "decr" => resume'[g] # "closing"
  /\ held'[g] # held[g] => held'[g] >= 0 \/ held'[g] = -(rawConnIdx + 1)
  /\ pc'[g] = "raw" => held'[g] < 0
  /\ \/ held'[g] = held[g] /\ ~Closer(g)'
     \/ pc[g] # "dial" /\ (Closer(g) \/ held[g] = 0 \/ conns'[held[g]].ctrl # "open")

LEMMA TidySockets ==
  ASSUME IInv, SocketInv, NEW g \in Goroutines, Tidy(g)
  PROVE  SocketInv'
<1>1. /\ \A k \in Goroutines : held[k] \in {0} \cup ConnIds
      /\ \A k \in Goroutines : pc[k] \in {"dial", "openErr"} => held[k] \in DOMAIN conns
      /\ connIdx \in Nat /\ rawConnIdx \in Nat /\ Buffered \subseteq DOMAIN conns
  BY DEF IInv, TypeOK, Hands
<1>2. Buffered' = Buffered
  BY DEF Tidy, Buffered
<1>3. \A k \in Goroutines \ {g} :
        pc'[k] = pc[k] /\ held'[k] = held[k] /\ resume'[k] = resume[k]
  BY DEF Tidy, OthersKept
<1>4. InHand' /\ Dropping'
  BY <1>3 DEF Tidy, SocketInv, InHand, Dropping
<1>5. RawOwner'
  BY <1>1, <1>3 DEF Tidy, SocketInv, RawOwner, ConnIds
<1>6. Opening'
  <2> SUFFICES ASSUME NEW k \in Goroutines \ {g}
               PROVE  /\ pc'[k] = "dial" => conns'[held'[k]].ctrl = "none"
                      /\ pc'[k] = "openErr" => conns'[held'[k]].ctrl # "open"
    BY DEF Tidy, Opening
  <2>1. pc[k] \in {"dial", "openErr"} /\ pc[g] = "dial" => held[k] # held[g]
    <3> SUFFICES ASSUME pc[k] \in {"dial", "openErr"}, pc[g] = "dial", held[k] = held[g]
                 PROVE  FALSE
      OBVIOUS
    <3>1. CASE held[g] > 0
      BY <3>1 DEF IInv, ExclusiveOwner, Users, Holders
    <3>2. CASE held[g] < 0
      BY <3>2 DEF SocketInv, RawOwner
    <3>3. held[g] # 0 /\ held[g] \in Int
      BY <1>1 DEF IInv, TypeOK, ConnIds
    <3> QED BY <3>1, <3>2, <3>3
  <2> QED BY <1>1, <1>3, <2>1 DEF Tidy, SocketInv, Opening
<1>7. NoLostSocket'
  <2> SUFFICES ASSUME NEW d \in DOMAIN conns', conns'[d].ctrl = "open", d \notin Buffered
               PROVE  \E k \in Goroutines : held'[k] = d /\ ~Closer(k)'
    BY <1>2 DEF NoLostSocket
  <2>1. CASE d = held[g] /\ pc[g] = "dial"
    BY <2>1 DEF Tidy
  <2>2. CASE ~(d = held[g] /\ pc[g] = "dial")
    <3>1. d \in DOMAIN conns /\ conns[d].ctrl = "open"
      BY <2>2 DEF Tidy
    <3>2. PICK k \in Goroutines : held[k] = d /\ ~Closer(k)
      BY <3>1 DEF SocketInv, NoLostSocket
    <3>3. CASE k = g
      BY <3>1, <3>2, <3>3, <1>1 DEF Tidy, ConnIds, IInv, TypeOK
    <3>4. CASE k # g
      BY <1>3, <3>2, <3>4 DEF Closer
    <3> QED BY <3>3, <3>4
  <2> QED BY <2>1, <2>2
<1> QED BY <1>4, <1>5, <1>6, <1>7 DEF SocketInv

(* Every step but those on the channel is one of these. *)
LEMMA StepsTidy ==
  ASSUME IInv, SocketInv, NEW g \in Goroutines,
         \/ Quiet(g) \/ Park(g) \/ ReserveSlot(g) \/ GiveUpSlot(g) \/ OpenFailed(g)
  PROVE  Tidy(g)
<1> USE DEF IInv, TypeOK, Hands, ConnIds, Goto, Conn, ClosedConn, OthersKept,
            SocketInv, InHand, Opening, Dropping, Closer, Tidy
<1>1. CASE BeginOp(g) BY <1>1 DEF BeginOp
<1>2. CASE PollEmpty(g) BY <1>2 DEF PollEmpty
<1>3. CASE PoolFull(g) BY <1>3 DEF PoolFull
<1>4. CASE removeConn(g) BY <1>4 DEF removeConn
<1>5. CASE close(g)
  <2>1. /\ pc[g] = "closeConn" /\ pc'[g] \in {"poll", "decide", "closing"}
        /\ held'[g] = 0 /\ freeConnCh' = freeConnCh /\ OthersKept(g)
    BY <1>5 DEF close
  <2>2. /\ DOMAIN conns' = DOMAIN conns
        /\ \A d \in DOMAIN conns : \/ conns'[d].ctrl = conns[d].ctrl
                                   \/ conns[d].ctrl = "open" /\ conns'[d].ctrl = "closed"
        /\ conns'[held[g]].ctrl # "open"
    BY <1>5 DEF close
  <2> HIDE DEF IInv, TypeOK, Hands, SocketInv, OthersKept
  <2> QED BY <2>1, <2>2
<1>6. CASE DialSucceeds(g) BY <1>6 DEF DialSucceeds
<1>7. CASE DialFails(g) BY <1>7 DEF DialFails
<1>8. CASE LoginSucceeds(g) BY <1>8 DEF LoginSucceeds
<1>9. CASE LoginFails(g) BY <1>9 DEF LoginFails
<1>10. CASE Register(g)
  <2>1. CASE closed
    <3>1. /\ pc[g] = "register" /\ conns' = ClosedConn(held[g])
          /\ pc' = [pc EXCEPT ![g] = "openErr"]
          /\ UNCHANGED <<freeConnCh, held, resume>>
      BY <1>10, <2>1, Zenon DEF Register
    <3> QED BY <3>1
  <2>2. CASE ~closed /\ held[g] >= 0 BY <1>10, <2>2 DEF Register
  <2>3. CASE ~closed /\ ~(held[g] >= 0)
    <3>1. /\ pc[g] = "register" /\ pc' = [pc EXCEPT ![g] = "raw"]
          /\ UNCHANGED <<freeConnCh, conns, held, resume>>
      BY <1>10, <2>3 DEF Register
    <3> QED BY <2>3, <3>1
  <2> QED BY <2>1, <2>2, <2>3
<1>11. CASE BreakConn(g) BY <1>11 DEF BreakConn
<1>12. CASE Close(g) BY <1>12 DEF Close
<1>13. CASE CloseNext(g) BY <1>13 DEF CloseNext
<1>14. CASE CloseReturns(g) BY <1>14 DEF CloseReturns
<1>15. CASE OpenRawConn(g)
  <2> DEFINE c == -(rawConnIdx + 1)
  <2>1. c \notin DOMAIN conns
    <3>1. c \notin ConnIds /\ DOMAIN conns \subseteq ConnIds
      OBVIOUS
    <3> QED BY <3>1
  <2>2. /\ DOMAIN conns' = DOMAIN conns \cup {c} /\ conns'[c].ctrl = "none"
        /\ \A d \in DOMAIN conns : conns'[d] = conns[d]
        /\ held' = [held EXCEPT ![g] = c] /\ pc' = [pc EXCEPT ![g] = "dial"]
    BY <1>15, <2>1 DEF OpenRawConn, NewConn
  <2>3. pc[g] = "idle" /\ UNCHANGED <<freeConnCh, resume>>
    BY <1>15 DEF OpenRawConn
  <2> HIDE DEF c
  <2>4. pc'[g] = "dial" /\ held'[g] = c /\ OthersKept(g)
    BY <2>2, <2>3
  <2> QED BY <2>2, <2>3, <2>4 DEF c
<1>16. CASE CloseRaw(g) BY <1>16 DEF CloseRaw
<1>17. CASE Park(g) BY <1>17 DEF Park
<1>18. CASE ReserveSlot(g)
  <2>1. CASE RoundRobin(connIdx + 1) # {}
    <3>1. PICK i \in RoundRobin(connIdx + 1) : NewConn(g, connIdx + 1, HostAt(i))
      BY <1>18, <2>1 DEF ReserveSlot
    <3>2. connIdx + 1 \notin DOMAIN conns /\ connIdx + 1 > 0
      OBVIOUS
    <3>3. /\ DOMAIN conns' = DOMAIN conns \cup {connIdx + 1}
          /\ conns'[connIdx + 1].ctrl = "none"
          /\ \A d \in DOMAIN conns : conns'[d] = conns[d]
          /\ held' = [held EXCEPT ![g] = connIdx + 1]
          /\ pc' = [pc EXCEPT ![g] = "dial"]
      BY <3>1, <3>2 DEF NewConn
    <3>4. pc[g] = "decide" /\ UNCHANGED <<freeConnCh, resume>>
      BY <1>18 DEF ReserveSlot
    <3>5. pc'[g] = "dial" /\ held'[g] = connIdx + 1 /\ OthersKept(g)
      BY <3>3, <3>4
    <3> QED BY <3>2, <3>3, <3>4, <3>5
  <2>2. CASE RoundRobin(connIdx + 1) = {} BY <1>18, <2>2 DEF ReserveSlot
  <2> QED BY <2>1, <2>2
<1>19. CASE GiveUpSlot(g) BY <1>19 DEF GiveUpSlot
<1>20. CASE OpenFailed(g) BY <1>20 DEF OpenFailed
<1> QED
  BY <1>1, <1>2, <1>3, <1>4, <1>5, <1>6, <1>7, <1>8, <1>9, <1>10, <1>11, <1>12,
     <1>13, <1>14, <1>15, <1>16, <1>17, <1>18, <1>19, <1>20, Zenon DEF Quiet

(* A received connection goes from the channel into the hands of g. *)
LEMMA ReceiveSockets ==
  ASSUME IInv, SocketInv, NEW g \in Goroutines, PollFree(g) \/ ReceiveBuffered(g)
  PROVE  SocketInv'
<1> DEFINE c == Head(freeConnCh)
<1>1. /\ c \in Buffered /\ Buffered' = Buffered \ {c} /\ c \in 1..connIdx
  <2>1. freeConnCh # <<>> /\ freeConnCh' = Tail(freeConnCh)
    BY DEF PollFree, ReceiveBuffered
  <2>2. Buffered' = Range(freeConnCh')
    BY DEF Buffered
  <2> QED BY <2>1, <2>2, ChannelMoves
<1>2. /\ held'[g] = c /\ pc'[g] \in {"own", "decr"} /\ resume'[g] # "closing"
      /\ held[g] = 0 /\ UNCHANGED conns /\ OthersKept(g)
  <2>1. /\ pc[g] \in {"poll", "block"} /\ UNCHANGED conns
        /\ Received(g, c, "poll") \/ Received(g, c, "decide")
    BY DEF PollFree, ReceiveBuffered
  <2> HIDE DEF c
  <2>2. held[g] = 0
    BY <2>1 DEF SocketInv, InHand
  <2> QED BY <2>1, <2>2 DEF Received, Goto, OthersKept, IInv, TypeOK
<1>3. \A k \in Goroutines \ {g} :
        pc'[k] = pc[k] /\ held'[k] = held[k] /\ resume'[k] = resume[k]
  BY <1>2 DEF OthersKept
<1> HIDE DEF c
<1>4. InHand' /\ Dropping' /\ Opening'
  BY <1>2, <1>3 DEF SocketInv, InHand, Dropping, Opening
<1>5. RawOwner'
  BY <1>1, <1>2, <1>3 DEF SocketInv, RawOwner, IInv, TypeOK
<1>6. \A d \in DOMAIN conns : d # 0
  BY DEF IInv, TypeOK, ConnIds
<1>7. NoLostSocket'
  BY <1>1, <1>2, <1>3, <1>6 DEF SocketInv, NoLostSocket, Closer
<1> QED BY <1>4, <1>5, <1>7 DEF SocketInv

(* A returned connection goes from the hands of g to the longest waiting   *)
(* receiver or into the channel.                                           *)
LEMMA ReturnSockets ==
  ASSUME IInv, SocketInv, NEW g \in Goroutines, returnConn(g)
  PROVE  SocketInv'
<1> DEFINE c == held[g]  w == Head(recvq)
<1>1. /\ pc[g] = "own" /\ c \in 1..connIdx /\ UNCHANGED conns /\ Send(g)
  BY DEF returnConn, IInv, TypeOK, Hands, ConnIds
<1>2. CASE recvq # <<>>
  <2>1. w \in Goroutines \ {g} /\ pc[w] = "wait"
    BY <1>1, <1>2, RangeTail, ParkedWait DEF IInv, TypeOK, Parked
  <2>2. /\ held'[g] = 0 /\ held'[w] = c
        /\ pc'[g] = "idle" /\ pc'[w] \in {"own", "decr"}
        /\ resume'[w] = "decide" /\ resume'[g] = resume[g]
        /\ \A k \in Goroutines \ {g, w} :
             pc'[k] = pc[k] /\ held'[k] = held[k] /\ resume'[k] = resume[k]
        /\ Buffered' = Buffered
    BY <1>1, <1>2, <2>1 DEF Send, IInv, TypeOK, Buffered
  <2> HIDE DEF c, w
  <2>3. InHand' /\ Dropping' /\ Opening'
    BY <1>1, <2>1, <2>2 DEF SocketInv, InHand, Dropping, Opening
  <2>4. RawOwner'
    <3>1. \A k \in Goroutines : k # w => held'[k] = 0 \/ held'[k] = held[k]
      BY <2>2
    <3>2. held'[w] \in Int /\ held'[w] > 0
      BY <1>1, <2>2
    <3> QED BY <3>1, <3>2 DEF SocketInv, RawOwner
  <2>5. held[w] = 0 /\ \A d \in DOMAIN conns : d # 0
    BY <2>1 DEF SocketInv, InHand, IInv, TypeOK, ConnIds
  <2>6. NoLostSocket'
    <3> SUFFICES ASSUME NEW d \in DOMAIN conns, conns[d].ctrl = "open", d \notin Buffered
                 PROVE  \E k \in Goroutines : held'[k] = d /\ ~Closer(k)'
      BY <1>1, <2>2 DEF NoLostSocket
    <3>1. PICK k \in Goroutines : held[k] = d /\ ~Closer(k)
      BY DEF SocketInv, NoLostSocket
    <3>2. CASE k = g
      BY <2>1, <2>2, <3>1, <3>2 DEF Closer, c
    <3>3. CASE k # g
      BY <2>2, <2>5, <3>1, <3>3 DEF Closer
    <3> QED BY <3>2, <3>3
  <2> QED BY <2>3, <2>4, <2>6 DEF SocketInv
<1>3. CASE recvq = <<>>
  <2>1. Buffered' = Buffered \cup {c}
    <3>1. freeConnCh' = Append(freeConnCh, c)
      BY <1>1, <1>3 DEF Send
    <3>2. Buffered' = Range(freeConnCh')
      BY DEF Buffered
    <3> HIDE DEF c
    <3> QED BY <1>1, <3>1, <3>2, ChannelMoves
  <2>2. /\ held'[g] = 0 /\ pc'[g] = "idle" /\ resume' = resume
        /\ \A k \in Goroutines \ {g} : pc'[k] = pc[k] /\ held'[k] = held[k]
    BY <1>1, <1>3 DEF Send, Goto, IInv, TypeOK
  <2>3. InHand' /\ Dropping' /\ Opening' /\ RawOwner'
    BY <1>1, <2>2 DEF SocketInv, InHand, Dropping, Opening, RawOwner
  <2>4. NoLostSocket'
    BY <1>1, <2>1, <2>2 DEF SocketInv, NoLostSocket, Closer
  <2> QED BY <2>3, <2>4 DEF SocketInv
<1> QED BY <1>2, <1>3

(* Every step of every goroutine, and stuttering, keep track of the sockets. *)
LEMMA StepSocketInv == IInv /\ SocketInv /\ [Next]_vars => SocketInv'
<1> SUFFICES ASSUME IInv, SocketInv, [Next]_vars PROVE SocketInv'
  OBVIOUS
<1>1. CASE UNCHANGED vars
  BY <1>1 DEF vars, SocketInv, InHand, RawOwner, Opening, Dropping,
              NoLostSocket, Closer, Buffered
<1>2. ASSUME NEW g \in Goroutines, returnConn(g) PROVE SocketInv'
  BY <1>2, ReturnSockets
<1>3. ASSUME NEW g \in Goroutines, PollFree(g) \/ ReceiveBuffered(g) PROVE SocketInv'
  BY <1>3, ReceiveSockets
<1>4. ASSUME NEW g \in Goroutines,
             Quiet(g) \/ Park(g) \/ ReserveSlot(g) \/ GiveUpSlot(g) \/ OpenFailed(g)
      PROVE  SocketInv'
  BY <1>4, StepsTidy, TidySockets
<1> QED
  BY <1>1, <1>2, <1>3, <1>4 DEF Next, Continue, Quiet

LEMMA InitSocketInv == Init => SocketInv
BY DEF Init, SocketInv, InHand, RawOwner, Opening, Dropping, NoLostSocket

(* The books and the sockets together. *)
LEMMA SocketInvariant == Spec => [](IInv /\ SocketInv)
BY InitIInv, StepIInv, InitSocketInv, StepSocketInv, PTL DEF Spec

(* No control socket is lost, for any number of goroutines, hosts and      *)
(* connections: whatever is open is idle, in use, being set up, or held by *)
(* the goroutine about to close it.                                        *)
THEOREM PoolNoLostSocket == Spec => []NoLostSocket
<1>1. SocketInv => NoLostSocket
  BY DEF SocketInv
<1> QED BY <1>1, SocketInvariant, PTL

-----------------------------------------------------------------------------
(* Close and the connections it has to reach                               *)

(* Is g inside Close? *)
AtClose(g) == pc[g] = "closing" \/ Closer(g)

(* The connections an operation holds or can pick up. *)
Served == Buffered \cup {held[g] : g \in {k \in Goroutines : pc[k] \in {"own", "decr"}}}

(* Until Close is called allCons has every served connection with an open  *)
(* socket; afterwards the rest of the snapshot or the caller of Close has  *)
(* it, and that caller does not return before the snapshot is used up.     *)
CloseInv ==
  /\ \A g \in Goroutines : AtClose(g) => closed
  /\ closed /\ toClose # {} => \E g \in Goroutines : AtClose(g)
  /\ \A c \in Served :
       conns[c].ctrl = "open" =>
         IF closed THEN c \in toClose \/ \E g \in Goroutines : Closer(g) /\ held[g] = c
                   ELSE c \in allCons

(* A step of g outside the loop of Close.  It serves a new connection only *)
(* by registering it, takes none but its own from allCons, and the caller  *)
(* of Close lets go of a connection only when its socket is closed.        *)
Steady(g) ==
  /\ OthersKept(g) /\ freeConnCh' = freeConnCh /\ UNCHANGED <<closed, toClose>>
  /\ pc'[g] \in {"own", "decr"} =>
       \/ pc[g] \in {"own", "decr"} /\ held'[g] = held[g]
       \/ ~closed /\ held'[g] \in allCons'
  /\ AtClose(g)' <=> AtClose(g)
  /\ Closer(g) => \/ Closer(g)' /\ held'[g] = held[g]
                  \/ conns'[held[g]].ctrl # "open"
  /\ allCons \subseteq allCons' \/ (pc[g] = "remove" /\ allCons' = allCons \ {held[g]})
  /\ \A d \in DOMAIN conns :
       conns'[d].ctrl = "open" =>
         conns[d].ctrl = "open" \/ (d = held[g] /\ pc[g] = "dial")

(* What is served is nobody's to dial or to drop. *)
LEMMA ServedOwners ==
  ASSUME IInv, NEW c \in Served
  PROVE  /\ c \in DOMAIN conns /\ c > 0
         /\ \A g \in Goroutines : pc[g] = "dial" => held[g] # c
         /\ \A g \in Goroutines : pc[g] = "remove" /\ ~Closer(g) => held[g] # c
<1>1. c \in DOMAIN conns /\ c > 0
  <2>1. CASE c \in Buffered
    BY <2>1, ChannelMoves DEF IInv, TypeOK, Hands
  <2>2. CASE c \notin Buffered
    BY <2>2 DEF Served, IInv, Hands
  <2> QED BY <2>1, <2>2
<1>2. \A k \in Users : held[k] # c \/ pc[k] \in {"own", "decr"}
  <2>1. CASE c \in Buffered
    BY <2>1 DEF IInv, ExclusiveOwner
  <2>2. CASE c \notin Buffered
    <3>1. PICK k \in Goroutines : pc[k] \in {"own", "decr"} /\ held[k] = c
      BY <2>2 DEF Served
    <3>2. k \in Users
      BY <1>1, <3>1 DEF Users, Holders
    <3> QED BY <3>1, <3>2 DEF IInv, ExclusiveOwner
  <2> QED BY <2>1, <2>2
<1>3. ASSUME NEW g \in Goroutines, pc[g] = "dial", held[g] = c PROVE FALSE
  BY <1>1, <1>2, <1>3 DEF Users, Holders
<1>4. ASSUME NEW g \in Goroutines, pc[g] = "remove", ~Closer(g), held[g] = c PROVE FALSE
  BY <1>2, <1>4 DEF Users, Droppers, Closer
<1> QED BY <1>1, <1>3, <1>4

LEMMA SteadyClose ==
  ASSUME IInv, CloseInv, NEW g \in Goroutines, Steady(g)
  PROVE  CloseInv'
<1>1. \A k \in Goroutines \ {g} :
        pc'[k] = pc[k] /\ held'[k] = held[k] /\ resume'[k] = resume[k]
  BY DEF Steady, OthersKept
<1>2. \A k \in Goroutines : AtClose(k)' <=> AtClose(k)
  BY <1>1 DEF Steady, AtClose, Closer
<1>3. Buffered' = Buffered
  BY DEF Steady, Buffered
<1>4. ASSUME NEW c \in Served', conns'[c].ctrl = "open"
      PROVE  IF closed THEN c \in toClose \/ \E k \in Goroutines : Closer(k)' /\ held'[k] = c
                       ELSE c \in allCons'
  <2>1. CASE c \notin Served
    <3>1. PICK k \in Goroutines : pc'[k] \in {"own", "decr"} /\ held'[k] = c
      BY <1>3, <2>1 DEF Served
    <3>2. k = g
      BY <1>1, <2>1, <3>1 DEF Served
    <3> QED BY <2>1, <3>1, <3>2 DEF Steady, Served
  <2>2. CASE c \in Served
    <3>1. c \in DOMAIN conns /\ conns[c].ctrl = "open"
      BY <1>4, <2>2, ServedOwners DEF Steady
    <3>2. CASE closed
      <4>1. CASE c \in toClose
        BY <3>2, <4>1
      <4>2. CASE c \notin toClose
        <5>1. PICK k \in Goroutines : Closer(k) /\ held[k] = c
          BY <2>2, <3>1, <3>2, <4>2 DEF CloseInv
        <5>2. CASE k = g
          BY <1>4, <3>2, <5>1, <5>2 DEF Steady
        <5>3. CASE k # g
          BY <1>1, <3>2, <5>1, <5>3 DEF Closer
        <5> QED BY <5>2, <5>3
      <4> QED BY <4>1, <4>2
    <3>3. CASE ~closed
      <4>1. c \in allCons
        BY <2>2, <3>1, <3>3 DEF CloseInv
      <4>2. ~Closer(g)
        BY <3>3 DEF CloseInv, AtClose
      <4> QED BY <2>2, <3>3, <4>1, <4>2, ServedOwners DEF Steady
    <3> QED BY <3>2, <3>3
  <2> QED BY <2>1, <2>2
<1>5. closed' = closed /\ toClose' = toClose
  BY DEF Steady
<1> QED BY <1>2, <1>4, <1>5 DEF CloseInv

LEMMA StepsSteady ==
  ASSUME IInv, SocketInv, NEW g \in Goroutines,
         \/ Quiet(g) \/ Park(g) \/ ReserveSlot(g) \/ GiveUpSlot(g) \/ OpenFailed(g),
         ~Close(g), ~CloseNext(g), ~CloseReturns(g)
  PROVE  Steady(g)
<1> USE DEF IInv, TypeOK, Hands, ConnIds, Goto, Conn, ClosedConn, OthersKept,
            SocketInv, InHand, Dropping, Closer, AtClose, Steady
<1>1. CASE BeginOp(g) BY <1>1 DEF BeginOp
<1>2. CASE PollEmpty(g) BY <1>2 DEF PollEmpty
<1>3. CASE PoolFull(g) BY <1>3 DEF PoolFull
<1>4. CASE removeConn(g) BY <1>4 DEF removeConn
<1>5. CASE close(g) BY <1>5 DEF close
<1>6. CASE DialSucceeds(g) BY <1>6 DEF DialSucceeds
<1>7. CASE DialFails(g) BY <1>7 DEF DialFails
<1>8. CASE LoginSucceeds(g) BY <1>8 DEF LoginSucceeds
<1>9. CASE LoginFails(g) BY <1>9 DEF LoginFails
<1>10. CASE Register(g)
  <2>1. CASE closed
    <3>1. /\ pc[g] = "register" /\ conns' = ClosedConn(held[g])
          /\ pc' = [pc EXCEPT ![g] = "openErr"]
          /\ UNCHANGED <<freeConnCh, allCons, closed, toClose, held, resume>>
      BY <1>10, <2>1, Zenon DEF Register
    <3> QED BY <3>1
  <2>2. CASE ~closed /\ held[g] >= 0 BY <1>10, <2>2 DEF Register
  <2>3. CASE ~closed /\ ~(held[g] >= 0) BY <1>10, <2>3 DEF Register
  <2> QED BY <2>1, <2>2, <2>3
<1>11. CASE BreakConn(g) BY <1>11 DEF BreakConn
<1>15. CASE OpenRawConn(g) BY <1>15 DEF OpenRawConn, NewConn
<1>16. CASE CloseRaw(g) BY <1>16 DEF CloseRaw
<1>17. CASE Park(g) BY <1>17 DEF Park
<1>18. CASE ReserveSlot(g)
  <2>1. CASE RoundRobin(connIdx + 1) # {}
    <3>1. PICK i \in RoundRobin(connIdx + 1) : NewConn(g, connIdx + 1, HostAt(i))
      BY <1>18, <2>1 DEF ReserveSlot
    <3>2. \A d \in DOMAIN conns : conns'[d] = conns[d]
      <4>1. /\ DOMAIN conns \subseteq (1..connIdx) \cup ((-rawConnIdx)..(-1))
            /\ rawConnIdx \in Nat /\ connIdx \in Nat
        BY Zenon
      <4>2. connIdx + 1 \notin DOMAIN conns
        BY ONLY <4>1
      <4> QED BY <3>1, <4>2 DEF NewConn
    <3>3. pc' = [pc EXCEPT ![g] = "dial"] /\ held' = [held EXCEPT ![g] = connIdx + 1]
      BY <3>1 DEF NewConn
    <3>4. pc[g] = "decide" /\ UNCHANGED <<freeConnCh, allCons, closed, toClose, resume>>
      BY <1>18 DEF ReserveSlot
    <3> QED BY <3>2, <3>3, <3>4
  <2>2. CASE RoundRobin(connIdx + 1) = {} BY <1>18, <2>2 DEF ReserveSlot
  <2> QED BY <2>1, <2>2
<1>19. CASE GiveUpSlot(g) BY <1>19 DEF GiveUpSlot
<1>20. CASE OpenFailed(g) BY <1>20 DEF OpenFailed
<1> QED
  BY <1>1, <1>2, <1>3, <1>4, <1>5, <1>6, <1>7, <1>8, <1>9, <1>10, <1>11,
     <1>15, <1>16, <1>17, <1>18, <1>19, <1>20, Zenon DEF Quiet

(* The loop of Close itself: the snapshot is allCons, and each connection  *)
(* goes from the snapshot into the caller's hands.                         *)
LEMMA LoopClose ==
  ASSUME IInv, SocketInv, CloseInv, NEW g \in Goroutines,
         Close(g) \/ CloseNext(g) \/ CloseReturns(g)
  PROVE  CloseInv'
<1>1. /\ OthersKept(g) /\ UNCHANGED <<freeConnCh, conns>>
      /\ pc[g] \in {"idle", "closing"} /\ pc'[g] \notin {"own", "decr"}
  BY DEF Close, CloseNext, CloseReturns, Goto, OthersKept, IInv, TypeOK
<1>2. \A k \in Goroutines \ {g} :
        pc'[k] = pc[k] /\ held'[k] = held[k] /\ resume'[k] = resume[k]
  BY <1>1 DEF OthersKept
<1>3. Served' \subseteq Served
  BY <1>1, <1>2 DEF Served, Buffered
<1>4. \A k \in Goroutines \ {g} : /\ AtClose(k)' <=> AtClose(k)
                                  /\ Closer(k)' <=> Closer(k)
  BY <1>2 DEF AtClose, Closer
<1>5. ~Closer(g)
  BY <1>1 DEF Closer
<1>6. CASE Close(g)
  <2>1. ~closed /\ closed' = TRUE /\ toClose' = allCons /\ AtClose(g)'
    BY <1>6 DEF Close, Goto, AtClose, IInv, TypeOK
  <2> QED BY <1>1, <1>3, <1>4, <2>1 DEF CloseInv
<1>7. CASE CloseNext(g)
  <2>1. PICK c \in toClose : toClose' = toClose \ {c} /\ held' = [held EXCEPT ![g] = c]
    BY <1>7 DEF CloseNext
  <2>2. held'[g] = c /\ Closer(g)' /\ AtClose(g)' /\ AtClose(g) /\ closed' = closed
    BY <1>7, <2>1 DEF CloseNext, Goto, Closer, AtClose, IInv, TypeOK
  <2>3. closed
    BY <2>2 DEF CloseInv
  <2>4. ASSUME NEW d \in Served', conns'[d].ctrl = "open"
        PROVE  d \in toClose' \/ \E k \in Goroutines : Closer(k)' /\ held'[k] = d
    <3>1. CASE d = c
      BY <2>2, <3>1
    <3>2. CASE d # c /\ d \in toClose
      BY <2>1, <3>2
    <3>3. CASE d \notin toClose
      <4>1. PICK k \in Goroutines : Closer(k) /\ held[k] = d
        BY <1>1, <1>3, <2>3, <2>4, <3>3 DEF CloseInv
      <4> QED BY <1>2, <1>4, <1>5, <4>1
    <3> QED BY <3>1, <3>2, <3>3
  <2>5. CloseInv!1' /\ CloseInv!2'
    BY <2>2, <2>3
  <2> QED BY <2>2, <2>3, <2>4, <2>5 DEF CloseInv
<1>8. CASE CloseReturns(g)
  <2>1. toClose = {} /\ toClose' = {} /\ pc'[g] = "idle" /\ UNCHANGED <<closed, allCons, held>>
    BY <1>8 DEF CloseReturns, Goto, IInv, TypeOK
  <2>2. ~AtClose(g)' /\ ~Closer(g)'
    BY <2>1 DEF AtClose, Closer
  <2>3. ASSUME NEW d \in Served', conns'[d].ctrl = "open"
        PROVE  IF closed THEN d \in toClose' \/ \E k \in Goroutines : Closer(k)' /\ held'[k] = d
                         ELSE d \in allCons'
    <3>1. d \in Served /\ conns[d].ctrl = "open"
      BY <1>1, <1>3, <2>3
    <3>2. CASE closed
      <4>1. PICK k \in Goroutines : Closer(k) /\ held[k] = d
        BY <2>1, <3>1, <3>2 DEF CloseInv
      <4> QED BY <1>2, <1>4, <1>5, <3>2, <4>1
    <3>3. CASE ~closed
      BY <2>1, <3>1, <3>3 DEF CloseInv
    <3> QED BY <3>2, <3>3
  <2> QED BY <1>4, <2>1, <2>2, <2>3 DEF CloseInv
<1> QED BY <1>6, <1>7, <1>8

(* Through the channel only served connections pass. *)
LEMMA ChannelClose ==
  ASSUME IInv, SocketInv, CloseInv, NEW g \in Goroutines,
         PollFree(g) \/ ReceiveBuffered(g) \/ returnConn(g)
  PROVE  CloseInv'
<1>1. /\ UNCHANGED <<allCons, closed, conns, toClose>>
      /\ pc[g] \in {"poll", "block", "own"}
  BY DEF PollFree, ReceiveBuffered, returnConn
<1>2. /\ Served' \subseteq Served
      /\ \A k \in Goroutines : AtClose(k)' <=> AtClose(k)
      /\ \A k \in Goroutines : Closer(k) => Closer(k)' /\ held'[k] = held[k]
  <2>1. CASE PollFree(g) \/ ReceiveBuffered(g)
    <3> DEFINE c == Head(freeConnCh)
    <3>1. freeConnCh # <<>> /\ freeConnCh' = Tail(freeConnCh)
      BY <2>1 DEF PollFree, ReceiveBuffered
    <3>2. c \in Buffered /\ Buffered' \subseteq Buffered
      BY <3>1, ChannelMoves, Buffered' = Range(freeConnCh') DEF Buffered
    <3>3. Received(g, c, "poll") \/ Received(g, c, "decide")
      BY <2>1 DEF PollFree, ReceiveBuffered
    <3> HIDE DEF c
    <3>4. /\ held'[g] = c /\ pc'[g] \in {"own", "decr"}
          /\ \A k \in Goroutines \ {g} :
               pc'[k] = pc[k] /\ held'[k] = held[k] /\ resume'[k] = resume[k]
      BY <3>3 DEF Received, Goto, IInv, TypeOK
    <3>5. Served' \subseteq Served
      BY <3>2, <3>4 DEF Served
    <3> QED BY <1>1, <3>4, <3>5 DEF AtClose, Closer
  <2>2. CASE returnConn(g) /\ recvq # <<>>
    <3> DEFINE w == Head(recvq)
    <3>1. w \in Goroutines \ {g} /\ pc[w] = "wait" /\ pc[g] = "own" /\ Send(g)
      BY <1>1, <2>2, RangeTail, ParkedWait DEF returnConn, IInv, TypeOK, Parked
    <3>2. /\ held'[g] = 0 /\ held'[w] = held[g]
          /\ pc'[g] = "idle" /\ pc'[w] \in {"own", "decr"}
          /\ \A k \in Goroutines \ {g, w} :
               pc'[k] = pc[k] /\ held'[k] = held[k] /\ resume'[k] = resume[k]
          /\ Buffered' = Buffered
      BY <2>2, <3>1 DEF Send, IInv, TypeOK, Buffered
    <3> HIDE DEF w
    <3>3. Served' \subseteq Served
      BY <3>1, <3>2 DEF Served
    <3> QED BY <3>1, <3>2, <3>3 DEF AtClose, Closer
  <2>3. CASE returnConn(g) /\ recvq = <<>>
    <3>1. pc[g] = "own" /\ Send(g) /\ held[g] \in 1..connIdx
      BY <2>3 DEF returnConn, IInv, TypeOK, Hands, ConnIds
    <3>2. Buffered' = Buffered \cup {held[g]}
      <4>1. freeConnCh' = Append(freeConnCh, held[g])
        BY <2>3, <3>1 DEF Send
      <4> QED BY <3>1, <4>1, ChannelMoves, Buffered' = Range(freeConnCh') DEF Buffered
    <3>3. /\ held'[g] = 0 /\ pc'[g] = "idle" /\ resume' = resume
          /\ \A k \in Goroutines \ {g} : pc'[k] = pc[k] /\ held'[k] = held[k]
      BY <2>3, <3>1 DEF Send, Goto, IInv, TypeOK
    <3>4. Served' \subseteq Served
      BY <3>1, <3>2, <3>3 DEF Served
    <3> QED BY <3>1, <3>3, <3>4 DEF AtClose, Closer
  <2> QED BY <2>1, <2>2, <2>3
<1> QED BY <1>1, <1>2 DEF CloseInv

LEMMA StepCloseInv == IInv /\ SocketInv /\ CloseInv /\ [Next]_vars => CloseInv'
<1> SUFFICES ASSUME IInv, SocketInv, CloseInv, [Next]_vars PROVE CloseInv'
  OBVIOUS
<1>1. CASE UNCHANGED vars
  BY <1>1 DEF vars, CloseInv, AtClose, Closer, Served, Buffered
<1>2. ASSUME NEW g \in Goroutines, PollFree(g) \/ ReceiveBuffered(g) \/ returnConn(g)
      PROVE  CloseInv'
  BY <1>2, ChannelClose
<1>3. ASSUME NEW g \in Goroutines, Close(g) \/ CloseNext(g) \/ CloseReturns(g)
      PROVE  CloseInv'
  BY <1>3, LoopClose
<1>4. ASSUME NEW g \in Goroutines, ~Close(g), ~CloseNext(g), ~CloseReturns(g),
             Quiet(g) \/ Park(g) \/ ReserveSlot(g) \/ GiveUpSlot(g) \/ OpenFailed(g)
      PROVE  CloseInv'
  BY <1>4, StepsSteady, SteadyClose
<1> QED
  BY <1>1, <1>2, <1>3, <1>4 DEF Next, Continue, Quiet

LEMMA InitCloseInv == Init => CloseInv
<1>1. Init => Buffered = {}
  BY DEF Init, Buffered, Range
<1> QED BY <1>1 DEF Init, CloseInv, AtClose, Closer, Served

(* Once Close has returned nothing that an operation holds or can pick up  *)
(* has an open control socket, for any number of goroutines and            *)
(* connections and whatever they were doing when Close took its snapshot.  *)
THEOREM PoolCloseReachesAll == Spec => []CloseReachesAll
<1>1. IInv /\ CloseInv => CloseReachesAll
  <2> SUFFICES ASSUME CloseInv, CloseReturned, NEW c \in Served, conns[c].ctrl = "open"
               PROVE  FALSE
    BY DEF CloseReachesAll, Served
  <2> QED BY DEF CloseInv, CloseReturned, AtClose
<1> QED BY <1>1, InitCloseInv, StepCloseInv, SocketInvariant, PTL DEF Spec

-----------------------------------------------------------------------------
(* Counting sockets, slots and the room in the channel                     *)

(* The connections counted on a host are as many as its counter says. *)
LEMMA CountedOnBound ==
  ASSUME IInv, LimitRespected, NEW h \in Hosts
  PROVE  /\ IsFiniteSet(CountedOn(h))
         /\ Cardinality(CountedOn(h)) \in 0..ConnectionsPerHost
<1>1. IsFiniteSet(CountedOn(h))
  BY CountedFinite, FS_Subset DEF IInv, CountedOn
<1> QED BY <1>1 DEF IInv, SlotsExact, LimitRespected

(* An open socket of the pool is counted, or about to be closed. *)
LEMMA OpenSocketOwned ==
  ASSUME IInv, SocketInv, NEW h \in Hosts, NEW c \in OpenSockets(h)
  PROVE  c \in CountedOn(h) \/ \E g \in Droppers : held[g] = c /\ conns[held[g]].host = h
<1>1. c \in DOMAIN conns /\ c > 0 /\ conns[c].host = h /\ conns[c].ctrl = "open"
  BY DEF OpenSockets
<1>2. CASE c \in Buffered
  BY <1>1, <1>2 DEF CountedOn, Counted
<1>3. CASE c \notin Buffered
  <2>1. PICK g \in Goroutines : held[g] = c /\ ~Closer(g)
    BY <1>1, <1>3 DEF SocketInv, NoLostSocket
  <2>2. c \in Int /\ pc[g] \in Labels
    BY <1>1 DEF IInv, TypeOK, ConnIds
  <2>3. pc[g] \in {"dial", "login", "register", "openErr", "own", "decr",
                   "remove", "closeConn"}
    BY <1>1, <2>1, <2>2 DEF SocketInv, InHand, Labels
  <2>4. g \in Holders \/ g \in Droppers
    BY <1>1, <2>1, <2>3 DEF Holders, Droppers, Closer
  <2> QED BY <1>1, <2>1, <2>4 DEF CountedOn, Counted
<1> QED BY <1>2, <1>3

(* A host sees at most ConnectionsPerHost control sockets, and one more    *)
(* for each goroutine that has given up a slot and not yet closed its      *)
(* socket, for any number of goroutines and connections.                   *)
THEOREM PoolSocketsBounded == Spec => []SocketsBounded
<1>1. IInv /\ SocketInv /\ LimitRespected => SocketsBounded
  <2> SUFFICES ASSUME IInv, SocketInv, LimitRespected, NEW h \in Hosts
               PROVE  Cardinality(OpenSockets(h)) <=
                        ConnectionsPerHost
                          + Cardinality({g \in Droppers : conns[held[g]].host = h})
    BY DEF SocketsBounded
  <2> DEFINE D == {g \in Droppers : conns[held[g]].host = h}
             T == {held[g] : g \in D}
             f == [g \in D |-> held[g]]
  <2>1. IsFiniteSet(D) /\ Cardinality(D) \in Nat
    <3>1. D \in SUBSET Goroutines
      BY DEF Droppers
    <3> QED BY <3>1, PoolAssumption, FS_Subset, FS_CardinalityType
  <2>2. f \in Surjection(D, T)
    <3>1. f \in [D -> T] /\ \A t \in T : \E g \in D : f[g] = t
      OBVIOUS
    <3> QED BY <3>1, Fun_IsSurj
  <2>3. OpenSockets(h) \subseteq CountedOn(h) \cup T
    BY OpenSocketOwned
  <2> HIDE DEF D, T, f
  <2>4. IsFiniteSet(T) /\ Cardinality(T) <= Cardinality(D) /\ Cardinality(T) \in Nat
    BY <2>1, <2>2, FS_Surjection, FS_CardinalityType
  <2>5. /\ IsFiniteSet(CountedOn(h)) /\ Cardinality(CountedOn(h)) \in Nat
        /\ Cardinality(CountedOn(h)) <= ConnectionsPerHost
    BY CountedOnBound, PoolAssumption
  <2>6. /\ IsFiniteSet(CountedOn(h) \cup T)
        /\ Cardinality(CountedOn(h) \cup T) =
             Cardinality(CountedOn(h)) + Cardinality(T) - Cardinality(CountedOn(h) \cap T)
    BY <2>4, <2>5, FS_Union
  <2>7. Cardinality(CountedOn(h) \cap T) \in Nat
    <3>1. CountedOn(h) \cap T \in SUBSET T
      OBVIOUS
    <3> QED BY <2>4, <3>1, FS_Subset, FS_CardinalityType
  <2>8. /\ Cardinality(OpenSockets(h)) <= Cardinality(CountedOn(h) \cup T)
        /\ Cardinality(OpenSockets(h)) \in Nat
    BY <2>3, <2>6, FS_Subset, FS_CardinalityType
  <2>9. Cardinality(OpenSockets(h)) <= ConnectionsPerHost + Cardinality(D)
    BY <2>1, <2>4, <2>5, <2>6, <2>7, <2>8, PoolAssumption
  <2> QED BY <2>9 DEF D
<1> QED BY <1>1, SocketInvariant, PoolLimitRespected, PTL

(* There are at most as many hosts as the list is long, and as many if     *)
(* none is repeated.                                                       *)
LEMMA HostsCount ==
  /\ IsFiniteSet(Hosts) /\ Cardinality(Hosts) \in Nat
  /\ Cardinality(Hosts) <= Len(hosts)
  /\ IsInjective(hosts) => Cardinality(Hosts) = Len(hosts)
<1>1. hosts \in [1..Len(hosts) -> STRING] /\ Len(hosts) \in Nat
  BY PoolAssumption
<1>2. hosts \in Surjection(1..Len(hosts), Hosts)
  BY <1>1, Fun_RangeProperties DEF Hosts
<1>3. IsFiniteSet(1..Len(hosts)) /\ Cardinality(1..Len(hosts)) = Len(hosts)
  <2>1. 1 \in Int /\ Len(hosts) \in Int /\ Len(hosts) > 0
    BY PoolAssumption
  <2> QED BY <2>1, FS_Interval
<1>4. IsFiniteSet(Hosts) /\ Cardinality(Hosts) <= Len(hosts)
  BY <1>2, <1>3, FS_Surjection
<1>5. ASSUME IsInjective(hosts) PROVE Cardinality(Hosts) = Len(hosts)
  <2>1. hosts \in [1..Len(hosts) -> Hosts]
    BY <1>2 DEF Surjection
  <2>2. hosts \in Injection(1..Len(hosts), Hosts)
    BY <1>5, <2>1 DEF Injection
  <2> QED BY <1>2, <1>3, <2>2, FS_Surjection
<1> QED BY <1>4, <1>5, FS_CardinalityType

(* Hosts times ConnectionsPerHost. *)
LEMMA SlotsCount ==
  /\ IsFiniteSet(Hosts \X (1..ConnectionsPerHost))
  /\ Cardinality(Hosts \X (1..ConnectionsPerHost)) \in Nat
  /\ Cardinality(Hosts \X (1..ConnectionsPerHost)) <= Cap
  /\ IsInjective(hosts) => Cardinality(Hosts \X (1..ConnectionsPerHost)) = Cap
<1>1. /\ IsFiniteSet(1..ConnectionsPerHost)
      /\ Cardinality(1..ConnectionsPerHost) = ConnectionsPerHost
      /\ ConnectionsPerHost \in Nat /\ Len(hosts) \in Nat
  BY PoolAssumption, FS_Interval
<1>2. /\ IsFiniteSet(Hosts \X (1..ConnectionsPerHost))
      /\ Cardinality(Hosts \X (1..ConnectionsPerHost)) = Cardinality(Hosts) * ConnectionsPerHost
  BY <1>1, HostsCount, FS_Product
<1>3. \A a, b, n \in Nat : a <= b => a * n <= b * n
  OBVIOUS
<1>4. Cardinality(Hosts) * ConnectionsPerHost <= Cap
  BY <1>1, <1>3, HostsCount DEF Cap
<1>5. IsInjective(hosts) => Cardinality(Hosts) * ConnectionsPerHost = Cap
  BY HostsCount DEF Cap
<1> QED BY <1>2, <1>4, <1>5, FS_CardinalityType

(* All counted connections together fit into the channel: numbering those  *)
(* of each host from 1 gives every one a slot of its own.                  *)
LEMMA CountedFits ==
  ASSUME IInv, LimitRespected
  PROVE  IsFiniteSet(Counted) /\ Cardinality(Counted) <= Cap
<1> DEFINE S == Hosts \X (1..ConnectionsPerHost)
           num == [h \in Hosts |-> CHOOSE f : f \in Injection(CountedOn(h), 1..ConnectionsPerHost)]
           slot == [c \in Counted |-> <<conns[c].host, num[conns[c].host][c]>>]
<1>1. ASSUME NEW h \in Hosts
      PROVE  num[h] \in Injection(CountedOn(h), 1..ConnectionsPerHost)
  <2> DEFINE n == Cardinality(CountedOn(h))
  <2>1. n \in 0..ConnectionsPerHost /\ IsFiniteSet(CountedOn(h))
    BY CountedOnBound
  <2>2. ExistsBijection(1..n, CountedOn(h))
    BY <2>1, FS_CardinalityType
  <2>3. PICK f : f \in Bijection(CountedOn(h), 1..n)
    BY <2>2, Fun_ExistsBijSymmetric DEF ExistsBijection
  <2> HIDE DEF n
  <2>4. f \in [CountedOn(h) -> 1..n] /\ IsInjective(f)
    BY <2>3 DEF Bijection, Injection
  <2>5. 1..n \subseteq 1..ConnectionsPerHost
    BY <2>1, PoolAssumption
  <2>6. f \in Injection(CountedOn(h), 1..ConnectionsPerHost)
    BY <2>4, <2>5 DEF Injection
  <2> QED BY <2>6
<1>2. \A c \in Counted : conns[c].host \in Hosts /\ c \in CountedOn(conns[c].host)
  <2>1. Counted \subseteq DOMAIN conns
    BY DEF IInv, Hands, Counted, Holders
  <2> QED BY <2>1 DEF IInv, TypeOK, Conn, CountedOn
<1> HIDE DEF num
<1>3. \A h \in Hosts : /\ num[h] \in [CountedOn(h) -> 1..ConnectionsPerHost]
                       /\ \A c, d \in CountedOn(h) : num[h][c] = num[h][d] => c = d
  BY <1>1 DEF Injection, IsInjective
<1>4. slot \in [Counted -> S]
  BY <1>2, <1>3
<1>5. \A c, d \in Counted : slot[c] = slot[d] => c = d
  BY <1>2, <1>3
<1>6. slot \in Injection(Counted, S)
  BY <1>4, <1>5, Fun_IsInj
<1> HIDE DEF slot, S
<1>7. IsFiniteSet(S) /\ Cardinality(S) \in Nat /\ Cardinality(S) <= Cap /\ Cap \in Nat
  BY SlotsCount, PoolAssumption DEF S, Cap
<1>8. IsFiniteSet(Counted) /\ Cardinality(Counted) <= Cardinality(S)
  BY <1>6, <1>7, FS_Injection
<1> QED BY <1>7, <1>8, FS_CardinalityType

(* Returning a connection never blocks: while an operation has one, the    *)
(* channel has room for it, however many goroutines return theirs and      *)
(* however often a host is listed.                                         *)
THEOREM PoolSendNeverBlocks == Spec => []SendNeverBlocks
<1>1. IInv /\ LimitRespected => SendNeverBlocks
  <2> SUFFICES ASSUME IInv, LimitRespected, NEW g \in Goroutines, pc[g] = "own"
               PROVE  Len(freeConnCh) < Cap
    BY DEF SendNeverBlocks
  <2>1. /\ freeConnCh \in [1..Len(freeConnCh) -> 1..connIdx] /\ Len(freeConnCh) \in Nat
        /\ IsInjective(freeConnCh)
    BY DEF IInv, TypeOK, ExclusiveOwner
  <2>2. freeConnCh \in Bijection(1..Len(freeConnCh), Buffered)
    BY <2>1, Fun_InjMeansBijImage DEF Injection, Buffered
  <2>3. Cardinality(Buffered) = Len(freeConnCh)
    BY <2>1, <2>2, FS_CountingElements DEF ExistsBijection
  <2>4. held[g] \notin Buffered /\ Buffered \cup {held[g]} \subseteq Counted
    <3>1. g \in Holders
      BY DEF IInv, Hands, Holders
    <3> QED BY <3>1 DEF IInv, ExclusiveOwner, Users, Counted
  <2>5. /\ IsFiniteSet(Counted) /\ Cardinality(Counted) <= Cap
        /\ Cardinality(Counted) \in Nat /\ Cap \in Nat
    BY CountedFits, FS_CardinalityType, PoolAssumption DEF Cap
  <2>6. IsFiniteSet(Buffered)
    BY <2>4, <2>5, FS_Subset
  <2>7. Cardinality(Buffered \cup {held[g]}) = Cardinality(Buffered) + 1
    BY <2>4, <2>6, FS_AddElement
  <2>8. Cardinality(Buffered \cup {held[g]}) <= Cardinality(Counted)
    BY <2>4, <2>5, FS_Subset
  <2> QED BY <2>1, <2>3, <2>5, <2>7, <2>8
<1> QED BY <1>1, PoolInvariant, PoolLimitRespected, PTL

(* One turn of the round robin over a list of n hosts, wherever it starts, *)
(* comes past every position.                                              *)
LEMMA FullTurn ==
  ASSUME NEW n \in Nat \ {0}, NEW i \in Nat, NEW p \in 0..(n - 1)
  PROVE  \E k \in i..(i + n - 1) : k % n = p
<1> DEFINE q == i \div n
           r == i % n
<1>1. q \in Nat /\ r \in 0..(n - 1) /\ i = n * q + r
  OBVIOUS
<1>2. ASSUME NEW d \in Nat PROVE (n * d + p) % n = p
  OBVIOUS
<1> HIDE DEF q, r
<1>3. CASE p >= r
  <2>1. n * q + p \in i..(i + n - 1)
    BY <1>1, <1>3
  <2> QED BY <1>1, <1>2, <2>1
<1>4. CASE p < r
  <2>1. n * (q + 1) = n * q + n
    BY <1>1
  <2>2. n * (q + 1) + p \in i..(i + n - 1)
    BY <1>1, <1>4, <2>1
  <2>3. (n * (q + 1) + p) % n = p
    BY <1>1, <1>2
  <2> QED BY <2>2, <2>3
<1> QED BY <1>1, <1>3, <1>4

(* If no host is listed twice and none is below its limit, the total is    *)
(* not below the limit either.                                             *)
LEMMA AllHostsFull ==
  ASSUME IInv, IsInjective(hosts), \A h \in Hosts : numConnsPerHost[h] >= ConnectionsPerHost
  PROVE  Cap \in Nat /\ numOpenConns \in Nat /\ numOpenConns >= Cap
<1> DEFINE S == Hosts \X (1..ConnectionsPerHost)
<1>1. ConnectionsPerHost \in Nat /\ Cap \in Nat /\ ConnectionsPerHost <= Cap
  <2>1. \A a, b \in Nat \ {0} : a * b \in Nat /\ b <= a * b
    OBVIOUS
  <2> QED BY <2>1, PoolAssumption DEF Cap
<1>2. S \subseteq OpenSlots
  <2> SUFFICES ASSUME NEW h \in Hosts, NEW k \in 1..ConnectionsPerHost
               PROVE  k \in 1..Cap /\ k <= numConnsPerHost[h]
    BY DEF OpenSlots
  <2> QED BY <1>1 DEF IInv, TypeOK
<1>3. IsFiniteSet(OpenSlots)
  <2>1. IsFiniteSet(1..Cap)
    BY <1>1, FS_Interval, 1 \in Int, Cap \in Int
  <2>2. IsFiniteSet(Hosts \X (1..Cap))
    BY <2>1, HostsCount, FS_Product
  <2> QED BY <2>2, FS_Subset DEF OpenSlots
<1>4. Cardinality(S) = Cap
  BY SlotsCount
<1> HIDE DEF S
<1>5. Cardinality(S) <= Cardinality(OpenSlots) /\ Cardinality(OpenSlots) \in Nat
  BY <1>2, <1>3, FS_Subset, FS_CardinalityType
<1> QED BY <1>1, <1>4, <1>5 DEF numOpenConns

(* panic("this shouldn't be possible") is impossible as long as no host is *)
(* listed twice.  The run pool_repeated_host shows that the condition is   *)
(* needed.                                                                 *)
THEOREM PoolNoPanic == ASSUME IsInjective(hosts) PROVE Spec => []NoPanic
<1>1. Init => NoPanic
  BY DEF Init, NoPanic
<1>2. IInv /\ NoPanic /\ [Next]_vars => NoPanic'
  <2> SUFFICES ASSUME IInv, NoPanic, [Next]_vars PROVE NoPanic'
    OBVIOUS
  <2>1. ASSUME NEW g \in Goroutines, ReserveSlot(g) PROVE RoundRobin(connIdx + 1) # {}
    <3> SUFFICES ASSUME RoundRobin(connIdx + 1) = {} PROVE FALSE
      OBVIOUS
    <3>1. connIdx + 1 \in Nat /\ Len(hosts) \in Nat \ {0} /\ DOMAIN hosts = 1..Len(hosts)
      BY PoolAssumption DEF IInv, TypeOK
    <3>2. ASSUME NEW h \in Hosts PROVE numConnsPerHost[h] >= ConnectionsPerHost
      <4>1. PICK j \in 1..Len(hosts) : h = hosts[j]
        BY <3>1 DEF Hosts, Range
      <4>2. j - 1 \in 0..(Len(hosts) - 1)
        BY <3>1
      <4>3. PICK k \in (connIdx + 1)..(connIdx + 1 + Len(hosts) - 1) : k % Len(hosts) = j - 1
        BY <3>1, <4>2, FullTurn
      <4>4. HostAt(k) = h
        BY <3>1, <4>1, <4>3 DEF HostAt
      <4>5. ~(numConnsPerHost[h] < ConnectionsPerHost)
        BY <4>3, <4>4 DEF RoundRobin
      <4> QED BY <4>5, PoolAssumption DEF IInv, TypeOK
    <3>3. Cap \in Nat /\ numOpenConns \in Nat /\ numOpenConns >= Cap
      BY <3>2, AllHostsFull
    <3>4. numOpenConns < Cap
      BY <2>1 DEF ReserveSlot
    <3> QED BY <3>3, <3>4
  <2>2. ASSUME NEW g \in Goroutines, ReserveSlot(g) PROVE NoPanic'
    BY <2>1, <2>2 DEF ReserveSlot, NewConn, Goto, NoPanic, IInv, TypeOK
  <2>3. ASSUME NEW g \in Goroutines, close(g) \/ PollFree(g) \/ ReceiveBuffered(g)
        PROVE  NoPanic'
    BY <2>3 DEF close, PollFree, ReceiveBuffered, Received, Goto, NoPanic, IInv, TypeOK
  <2>4. ASSUME NEW g \in Goroutines, returnConn(g) PROVE NoPanic'
    BY <2>4 DEF returnConn, Send, Goto, NoPanic, IInv, TypeOK
  <2>5. ASSUME NEW g \in Goroutines, Register(g) PROVE NoPanic'
    BY <2>5 DEF Register, Goto, NoPanic, IInv, TypeOK
  <2>6. ASSUME NEW g \in Goroutines, OpenRawConn(g) PROVE NoPanic'
    BY <2>6 DEF OpenRawConn, NewConn, Goto, NoPanic, IInv, TypeOK
  <2>7. ASSUME NEW g \in Goroutines,
               \/ BeginOp(g) \/ PollEmpty(g) \/ PoolFull(g) \/ Park(g) \/ removeConn(g)
               \/ DialSucceeds(g) \/ DialFails(g) \/ LoginSucceeds(g) \/ LoginFails(g)
               \/ BreakConn(g) \/ GiveUpSlot(g) \/ OpenFailed(g) \/ Close(g)
               \/ CloseNext(g) \/ CloseReturns(g) \/ CloseRaw(g)
        PROVE  NoPanic'
    BY <2>7 DEF BeginOp, PollEmpty, PoolFull, Park, removeConn, DialSucceeds, DialFails,
                LoginSucceeds, LoginFails, BreakConn, GiveUpSlot, OpenFailed, Close,
                CloseNext, CloseReturns, CloseRaw, Goto, NoPanic, IInv, TypeOK
  <2>8. CASE UNCHANGED vars
    BY <2>8 DEF vars, NoPanic
  <2> QED BY <2>2, <2>3, <2>4, <2>5, <2>6, <2>7, <2>8 DEF Next, Continue
<1> QED BY <1>1, <1>2, PoolInvariant, PTL DEF Spec
=============================================================================
