------------------------------ MODULE ConnPool ------------------------------
(***************************************************************************)
(* The connection pool of a goftp Client (client.go): goroutines take a    *)
(* control connection with getIdleConn, use it, and give it back with      *)
(* returnConn, while Close may run at any time and OpenRawConn opens       *)
(* connections beside the pool.                                            *)
(*                                                                         *)
(* Client.mu protects numConnsPerHost, allCons, connIdx, rawConnIdx and    *)
(* closed.  No critical section blocks, so each one is a single step here; *)
(* everything between two critical sections is interleaved.                *)
(*                                                                         *)
(* freeConnCh is a buffered Go channel.  The runtime hands a value that is *)
(* sent while receivers are parked to the one that has waited longest, so  *)
(* the parked receivers are a queue of their own (recvq) and the buffer is *)
(* only filled when that queue is empty.                                   *)
(***************************************************************************)
EXTENDS Integers, Sequences, FiniteSets, Functions

CONSTANTS
  Goroutines,          \* callers of the Client's methods
  hosts,               \* Client.hosts, in order; repetitions are possible
  ConnectionsPerHost,  \* Config.ConnectionsPerHost
  MaxConns,            \* bound: pool connections a behaviour may open
  MaxRawConns          \* bound: raw connections a behaviour may open

(* newClient's defaulting makes ConnectionsPerHost positive; lookupHosts   *)
(* refuses an empty host list.                                             *)
ASSUME PoolAssumption ==
  /\ ConnectionsPerHost \in Nat \ {0}
  /\ hosts \in Seq(STRING) /\ Len(hosts) > 0
  /\ IsFiniteSet(Goroutines)

VARIABLES
  freeConnCh,       \* the channel's buffer: indexes of idle connections
  recvq,            \* goroutines parked in the channel's blocking receive
  numConnsPerHost,  \* host -> connections counted against the limit
  allCons,          \* indexes of the connections Close would close
  connIdx,          \* last index given to a pool connection: 1, 2, ...
  rawConnIdx,       \* number of raw connections so far; indexes -1, -2, ...
  closed,           \* has Close been called
  conns,            \* index -> the persistentConn
  toClose,          \* what is left of the snapshot Close iterates over
  pc,               \* goroutine -> where it is
  held,             \* goroutine -> index of the connection in its hands, or 0
  resume            \* goroutine -> where removeConn returns to

vars == <<freeConnCh, recvq, numConnsPerHost, allCons, connIdx, rawConnIdx,
          closed, conns, toClose, pc, held, resume>>

Hosts == Range(hosts)

Cap == Len(hosts) * ConnectionsPerHost

ConnIds == (1..connIdx) \cup ((-rawConnIdx)..(-1))

Conn == [host : Hosts, ctrl : {"none", "open", "closed"}, broken : BOOLEAN]

Labels == {"idle", "poll", "decide", "panic", "block", "wait",
           "dial", "login", "register", "openErr", "own",
           "decr", "remove", "closeConn", "closing", "raw"}

(* Client.numOpenConns: the sum of the counters, as the size of the        *)
(* disjoint union of the intervals 1..numConnsPerHost[h].                  *)
OpenSlots == {s \in Hosts \X (1..Cap) : s[2] <= numConnsPerHost[s[1]]}

numOpenConns == Cardinality(OpenSlots)

HostAt(i) == hosts[(i % Len(hosts)) + 1]

(* Faulty: lets a host that is already at its limit through. *)
RoundRobinOffByOne(idx) ==
  {i \in idx..(idx + Len(hosts) - 1) :
     numConnsPerHost[HostAt(i)] <= ConnectionsPerHost}

(* Faulty: stops one host short of a full turn. *)
RoundRobinTooShort(idx) ==
  {i \in idx..(idx + Len(hosts) - 2) :
     numConnsPerHost[HostAt(i)] < ConnectionsPerHost}

(* The turns of the round robin over hosts for the connection with index   *)
(* idx that find a host below its limit.                                   *)
RoundRobin(idx) ==
  {i \in idx..(idx + Len(hosts) - 1) :
     numConnsPerHost[HostAt(i)] < ConnectionsPerHost}

Goto(g, label) == pc' = [pc EXCEPT ![g] = label]

-----------------------------------------------------------------------------
(* getIdleConn                                                             *)

(* Goroutines that may still have to open a pool connection. *)
Acquiring == {g \in Goroutines :
                pc[g] \in {"poll", "decide", "block", "wait",
                           "decr", "remove", "closeConn"}}

(* A Client method calls getIdleConn. *)
BeginOp(g) ==
  /\ pc[g] = "idle"
  /\ connIdx + Cardinality(Acquiring) < MaxConns
  /\ Goto(g, "poll")
  /\ UNCHANGED <<freeConnCh, recvq, numConnsPerHost, allCons, connIdx,
                 rawConnIdx, closed, conns, toClose, held, resume>>

(* Goroutine g has received connection c from the channel: a broken one is *)
(* dropped before g goes back to label `again`, a sound one is g's.        *)
Received(g, c, again) ==
  /\ held' = [held EXCEPT ![g] = c]
  /\ Goto(g, IF conns[c].broken THEN "decr" ELSE "own")
  /\ resume' = [resume EXCEPT ![g] = again]

(* The first loop: take what is in the channel without blocking. *)
PollFree(g) ==
  /\ pc[g] = "poll"
  /\ freeConnCh # <<>>
  /\ freeConnCh' = Tail(freeConnCh)
  /\ Received(g, Head(freeConnCh), "poll")
  /\ UNCHANGED <<recvq, numConnsPerHost, allCons, connIdx, rawConnIdx,
                 closed, conns, toClose>>

PollEmpty(g) ==
  /\ pc[g] = "poll"
  /\ freeConnCh = <<>>
  /\ Goto(g, "decide")
  /\ UNCHANGED <<freeConnCh, recvq, numConnsPerHost, allCons, connIdx,
                 rawConnIdx, closed, conns, toClose, held, resume>>

(* A new persistentConn with index c in the hands of g, about to dial. *)
NewConn(g, c, host) ==
  /\ conns' = [i \in DOMAIN conns \cup {c} |->
                 IF i = c THEN [host |-> host, ctrl |-> "none", broken |-> FALSE]
                          ELSE conns[i]]
  /\ held' = [held EXCEPT ![g] = c]
  /\ Goto(g, "dial")

(* Faulty: opens without counting the new connection. *)
ReserveNothing(g) ==
  /\ pc[g] = "decide"
  /\ numOpenConns < Cap
  /\ connIdx' = connIdx + 1
  /\ NewConn(g, connIdx + 1, HostAt(connIdx + 1))
  /\ UNCHANGED <<freeConnCh, recvq, numConnsPerHost, allCons, rawConnIdx,
                 closed, toClose, resume>>

(* The critical section of the second loop when the total is below the     *)
(* limit: reserve a slot on the next host that has one.  No such host is   *)
(* the code's panic("this shouldn't be possible").                         *)
ReserveSlot(g) ==
  /\ pc[g] = "decide"
  /\ numOpenConns < Cap
  /\ connIdx' = connIdx + 1
  /\ IF RoundRobin(connIdx + 1) # {}
     THEN \E i \in RoundRobin(connIdx + 1) :
            /\ \A j \in RoundRobin(connIdx + 1) : i <= j
            /\ numConnsPerHost' = [numConnsPerHost EXCEPT ![HostAt(i)] = @ + 1]
            /\ NewConn(g, connIdx + 1, HostAt(i))
     ELSE /\ Goto(g, "panic")
          /\ UNCHANGED <<numConnsPerHost, conns, held>>
  /\ UNCHANGED <<freeConnCh, recvq, allCons, rawConnIdx, closed, toClose, resume>>

PoolFull(g) ==
  /\ pc[g] = "decide"
  /\ numOpenConns >= Cap
  /\ Goto(g, "block")
  /\ UNCHANGED <<freeConnCh, recvq, numConnsPerHost, allCons, connIdx,
                 rawConnIdx, closed, conns, toClose, held, resume>>

(* The blocking receive, after the mutex was released: a connection may    *)
(* have been returned in between.                                          *)
ReceiveBuffered(g) ==
  /\ pc[g] = "block"
  /\ freeConnCh # <<>>
  /\ freeConnCh' = Tail(freeConnCh)
  /\ Received(g, Head(freeConnCh), "decide")
  /\ UNCHANGED <<recvq, numConnsPerHost, allCons, connIdx, rawConnIdx,
                 closed, conns, toClose>>

Park(g) ==
  /\ pc[g] = "block"
  /\ freeConnCh = <<>>
  /\ recvq' = Append(recvq, g)
  /\ Goto(g, "wait")
  /\ UNCHANGED <<freeConnCh, numConnsPerHost, allCons, connIdx, rawConnIdx,
                 closed, conns, toClose, held, resume>>

(* A broken connection's slot is given up before the connection is closed. *)
GiveUpSlot(g) ==
  /\ pc[g] = "decr"
  /\ numConnsPerHost' = [numConnsPerHost EXCEPT ![conns[held[g]].host] = @ - 1]
  /\ Goto(g, "remove")
  /\ UNCHANGED <<freeConnCh, recvq, allCons, connIdx, rawConnIdx, closed,
                 conns, toClose, held, resume>>

-----------------------------------------------------------------------------
(* removeConn, called by getIdleConn and by Close                          *)

removeConn(g) ==
  /\ pc[g] = "remove"
  /\ allCons' = allCons \ {held[g]}
  /\ Goto(g, "closeConn")
  /\ UNCHANGED <<freeConnCh, recvq, numConnsPerHost, connIdx, rawConnIdx,
                 closed, conns, toClose, held, resume>>

(* persistentConn.close on the control socket: an error closing it twice   *)
(* is ignored by every caller in the pool.                                 *)
ClosedConn(c) == [conns EXCEPT ![c].ctrl = IF @ = "open" THEN "closed" ELSE @]

close(g) ==
  /\ pc[g] = "closeConn"
  /\ conns' = ClosedConn(held[g])
  /\ held' = [held EXCEPT ![g] = 0]
  /\ Goto(g, resume[g])
  /\ UNCHANGED <<freeConnCh, recvq, numConnsPerHost, allCons, connIdx,
                 rawConnIdx, closed, toClose, resume>>

-----------------------------------------------------------------------------
(* openConn                                                                *)

DialSucceeds(g) ==
  /\ pc[g] = "dial"
  /\ conns' = [conns EXCEPT ![held[g]].ctrl = "open"]
  /\ Goto(g, "login")
  /\ UNCHANGED <<freeConnCh, recvq, numConnsPerHost, allCons, connIdx,
                 rawConnIdx, closed, toClose, held, resume>>

DialFails(g) ==
  /\ pc[g] = "dial"
  /\ Goto(g, "openErr")
  /\ UNCHANGED <<freeConnCh, recvq, numConnsPerHost, allCons, connIdx,
                 rawConnIdx, closed, conns, toClose, held, resume>>

(* Greeting, login and FEAT succeed, or fail and close. *)
LoginSucceeds(g) ==
  /\ pc[g] = "login"
  /\ Goto(g, "register")
  /\ UNCHANGED <<freeConnCh, recvq, numConnsPerHost, allCons, connIdx,
                 rawConnIdx, closed, conns, toClose, held, resume>>

(* Faulty: returns the error without closing the socket. *)
LoginFailsLeaking(g) ==
  /\ pc[g] = "login"
  /\ Goto(g, "openErr")
  /\ UNCHANGED <<freeConnCh, recvq, numConnsPerHost, allCons, connIdx,
                 rawConnIdx, closed, conns, toClose, held, resume>>

LoginFails(g) ==
  /\ pc[g] = "login"
  /\ conns' = ClosedConn(held[g])
  /\ Goto(g, "openErr")
  /\ UNCHANGED <<freeConnCh, recvq, numConnsPerHost, allCons, connIdx,
                 rawConnIdx, closed, toClose, held, resume>>

(* Faulty: does not look at closed again. *)
RegisterIgnoringClosed(g) ==
  /\ pc[g] = "register"
  /\ allCons' = IF held[g] >= 0 THEN allCons \cup {held[g]} ELSE allCons
  /\ Goto(g, IF held[g] >= 0 THEN "own" ELSE "raw")
  /\ UNCHANGED <<freeConnCh, recvq, numConnsPerHost, connIdx, rawConnIdx,
                 closed, conns, toClose, held, resume>>

(* Faulty: records raw connections as well. *)
RegisterRawToo(g) ==
  /\ pc[g] = "register" /\ ~closed
  /\ allCons' = allCons \cup {held[g]}
  /\ Goto(g, IF held[g] >= 0 THEN "own" ELSE "raw")
  /\ UNCHANGED <<freeConnCh, recvq, numConnsPerHost, connIdx, rawConnIdx,
                 closed, conns, toClose, held, resume>>

(* The final critical section: a closed client refuses the connection, and *)
(* only pool connections (index >= 0) are recorded for Close.              *)
Register(g) ==
  /\ pc[g] = "register"
  /\ IF closed
     THEN /\ conns' = ClosedConn(held[g])
          /\ Goto(g, "openErr")
          /\ UNCHANGED allCons
     ELSE /\ allCons' = IF held[g] >= 0 THEN allCons \cup {held[g]} ELSE allCons
          /\ Goto(g, IF held[g] >= 0 THEN "own" ELSE "raw")
          /\ UNCHANGED conns
  /\ UNCHANGED <<freeConnCh, recvq, numConnsPerHost, connIdx, rawConnIdx,
                 closed, toClose, held, resume>>

(* Faulty: keeps the slot of the connection that could not be opened. *)
OpenFailedKeepsSlot(g) ==
  /\ pc[g] = "openErr"
  /\ held' = [held EXCEPT ![g] = 0]
  /\ Goto(g, "idle")
  /\ UNCHANGED <<freeConnCh, recvq, numConnsPerHost, allCons, connIdx,
                 rawConnIdx, closed, conns, toClose, resume>>

(* getIdleConn releases the slot of a failed open and returns the error;   *)
(* OpenRawConn reserved none.                                              *)
OpenFailed(g) ==
  /\ pc[g] = "openErr"
  /\ numConnsPerHost' = IF held[g] > 0
                        THEN [numConnsPerHost EXCEPT ![conns[held[g]].host] = @ - 1]
                        ELSE numConnsPerHost
  /\ held' = [held EXCEPT ![g] = 0]
  /\ Goto(g, "idle")
  /\ UNCHANGED <<freeConnCh, recvq, allCons, connIdx, rawConnIdx, closed,
                 conns, toClose, resume>>

-----------------------------------------------------------------------------
(* Using and returning a connection                                        *)

(* A command, reply or copy on the connection failed. *)
BreakConn(g) ==
  /\ pc[g] \in {"own", "raw"}
  /\ ~conns[held[g]].broken
  /\ conns' = [conns EXCEPT ![held[g]].broken = TRUE]
  /\ UNCHANGED <<freeConnCh, recvq, numConnsPerHost, allCons, connIdx,
                 rawConnIdx, closed, toClose, pc, held, resume>>

(* The send on freeConnCh.  With a parked receiver the connection is       *)
(* handed over; otherwise it is buffered, and a full buffer blocks.        *)
Send(g) ==
  \/ /\ recvq # <<>>
     /\ LET w == Head(recvq)  c == held[g]
        IN /\ held' = [held EXCEPT ![g] = 0, ![w] = c]
           /\ pc' = [pc EXCEPT ![g] = "idle",
                               ![w] = IF conns[c].broken THEN "decr" ELSE "own"]
           /\ resume' = [resume EXCEPT ![w] = "decide"]
     /\ recvq' = Tail(recvq)
     /\ UNCHANGED freeConnCh
  \/ /\ recvq = <<>>
     /\ Len(freeConnCh) < Cap
     /\ freeConnCh' = Append(freeConnCh, held[g])
     /\ held' = [held EXCEPT ![g] = 0]
     /\ Goto(g, "idle")
     /\ UNCHANGED <<recvq, resume>>

(* Faulty: an operation returns its connection and goes on using it. *)
ReturnAndKeep(g) ==
  /\ pc[g] = "own"
  /\ recvq = <<>> /\ Len(freeConnCh) < Cap
  /\ freeConnCh' = Append(freeConnCh, held[g])
  /\ UNCHANGED <<recvq, numConnsPerHost, allCons, connIdx, rawConnIdx,
                 closed, conns, toClose, pc, held, resume>>

(* Faulty: a broken connection is closed instead of being sent. *)
ReturnOnlySound(g) ==
  /\ pc[g] = "own"
  /\ IF conns[held[g]].broken
     THEN /\ conns' = ClosedConn(held[g])
          /\ held' = [held EXCEPT ![g] = 0]
          /\ Goto(g, "idle")
          /\ UNCHANGED <<freeConnCh, recvq, resume>>
     ELSE Send(g) /\ UNCHANGED conns
  /\ UNCHANGED <<numConnsPerHost, allCons, connIdx, rawConnIdx, closed, toClose>>

(* Every operation defers this call, so it runs on success and on error. *)
returnConn(g) ==
  /\ pc[g] = "own"
  /\ Send(g)
  /\ UNCHANGED <<numConnsPerHost, allCons, connIdx, rawConnIdx, closed,
                 conns, toClose>>

-----------------------------------------------------------------------------
(* Close and OpenRawConn                                                   *)

(* The first critical section of Close: a second call only returns an error *)
(* and changes nothing.                                                     *)
Close(g) ==
  /\ pc[g] = "idle"
  /\ ~closed
  /\ closed' = TRUE
  /\ toClose' = allCons
  /\ Goto(g, "closing")
  /\ UNCHANGED <<freeConnCh, recvq, numConnsPerHost, allCons, connIdx,
                 rawConnIdx, conns, held, resume>>

(* One turn of the loop over the snapshot, in the map's arbitrary order. *)
CloseNext(g) ==
  /\ pc[g] = "closing"
  /\ \E c \in toClose :
       /\ toClose' = toClose \ {c}
       /\ held' = [held EXCEPT ![g] = c]
  /\ resume' = [resume EXCEPT ![g] = "closing"]
  /\ Goto(g, "remove")
  /\ UNCHANGED <<freeConnCh, recvq, numConnsPerHost, allCons, connIdx,
                 rawConnIdx, closed, conns>>

(* Faulty: stops before the whole snapshot has been closed. *)
CloseReturnsEarly(g) ==
  /\ pc[g] = "closing"
  /\ Goto(g, "idle")
  /\ UNCHANGED <<freeConnCh, recvq, numConnsPerHost, allCons, connIdx,
                 rawConnIdx, closed, conns, toClose, held, resume>>

CloseReturns(g) ==
  /\ pc[g] = "closing"
  /\ toClose = {}
  /\ Goto(g, "idle")
  /\ UNCHANGED <<freeConnCh, recvq, numConnsPerHost, allCons, connIdx,
                 rawConnIdx, closed, conns, toClose, held, resume>>

OpenRawConn(g) ==
  /\ pc[g] = "idle"
  /\ rawConnIdx < MaxRawConns
  /\ rawConnIdx' = rawConnIdx + 1
  /\ NewConn(g, -(rawConnIdx + 1), HostAt(rawConnIdx))
  /\ UNCHANGED <<freeConnCh, recvq, numConnsPerHost, allCons, connIdx,
                 closed, toClose, resume>>

(* RawConn.Close, by the caller that opened it. *)
CloseRaw(g) ==
  /\ pc[g] = "raw"
  /\ conns' = ClosedConn(held[g])
  /\ held' = [held EXCEPT ![g] = 0]
  /\ Goto(g, "idle")
  /\ UNCHANGED <<freeConnCh, recvq, numConnsPerHost, allCons, connIdx,
                 rawConnIdx, closed, toClose, resume>>

-----------------------------------------------------------------------------
Init ==
  /\ freeConnCh = <<>>
  /\ recvq = <<>>
  /\ numConnsPerHost = [h \in Hosts |-> 0]
  /\ allCons = {}
  /\ connIdx = 0
  /\ rawConnIdx = 0
  /\ closed = FALSE
  /\ conns = [c \in {} |-> 0]
  /\ toClose = {}
  /\ pc = [g \in Goroutines |-> "idle"]
  /\ held = [g \in Goroutines |-> 0]
  /\ resume = [g \in Goroutines |-> "poll"]

(* The steps a call takes by itself on its way to a connection, or in      *)
(* dropping or closing one.                                                *)
Continue(g) ==
  \/ PollFree(g) \/ PollEmpty(g) \/ ReserveSlot(g) \/ PoolFull(g)
  \/ ReceiveBuffered(g) \/ Park(g)
  \/ GiveUpSlot(g) \/ removeConn(g) \/ close(g)
  \/ DialSucceeds(g) \/ DialFails(g) \/ LoginSucceeds(g) \/ LoginFails(g)
  \/ Register(g) \/ OpenFailed(g)
  \/ CloseNext(g) \/ CloseReturns(g)

Next ==
  \E g \in Goroutines :
    \/ Continue(g)
    \/ BeginOp(g) \/ BreakConn(g) \/ returnConn(g)
    \/ Close(g) \/ OpenRawConn(g) \/ CloseRaw(g)

Spec == Init /\ [][Next]_vars

(* Go schedules every runnable goroutine, and dials, commands and replies  *)
(* have deadlines (Config.Timeout).  Nothing obliges a caller to start, to *)
(* close, or to break a connection, and not even to return one: every      *)
(* operation defers returnConn, but the TLS handshake of a passive data    *)
(* connection has no deadline (persistent_connection.go:503), and an       *)
(* operation that hangs in it keeps its connection.                        *)
FairSpec == Spec /\ \A g \in Goroutines : WF_vars(Continue(g))

-----------------------------------------------------------------------------
(* Properties                                                              *)

(* Every variable stays in the range its Go type and use give it. *)
TypeOK ==
  /\ freeConnCh \in Seq(1..connIdx)
  /\ recvq \in Seq(Goroutines)
  /\ numConnsPerHost \in [Hosts -> Int]
  /\ connIdx \in Nat /\ rawConnIdx \in Nat
  /\ allCons \subseteq 1..connIdx /\ toClose \subseteq 1..connIdx
  /\ closed \in BOOLEAN
  /\ conns \in [DOMAIN conns -> Conn] /\ DOMAIN conns \subseteq ConnIds
  /\ pc \in [Goroutines -> Labels]
  /\ held \in [Goroutines -> {0} \cup ConnIds]
  /\ resume \in [Goroutines -> {"poll", "decide", "closing"}]

Buffered == Range(freeConnCh)

(* Goroutines with a pool connection that occupies a slot of its host. *)
Holders == {g \in Goroutines :
              /\ held[g] > 0
              /\ pc[g] \in {"dial", "login", "register", "openErr", "own", "decr"}}

(* Goroutines dropping a broken connection whose slot is already given up. *)
Droppers == {g \in Goroutines :
               pc[g] \in {"remove", "closeConn"} /\ resume[g] # "closing"}

Users == Holders \cup Droppers

Counted == Buffered \cup {held[g] : g \in Holders}

CountedOn(h) == {c \in Counted : conns[c].host = h}

(* The abstract pool: who has which counted connection. *)
Slots == INSTANCE SlotPool WITH
           Users <- Goroutines,
           Hosts <- Hosts,
           Limit <- ConnectionsPerHost,
           slots <- [c \in Counted |-> [host |-> conns[c].host,
                                       users |-> {g \in Holders : held[g] = c}]]

(* The pool implements SlotPool: through every interleaving of opening,    *)
(* failing, breaking, returning and Close, a connection passes from one    *)
(* user to the next, is given up only by the one who has it, and a new one *)
(* is opened only below its host's limit.                                  *)
PoolImplementsSlots == Slots!Spec

(* Exclusive use: a pool connection is in the channel once, or in the      *)
(* hands of one goroutine, never both.  Nothing in persistentConn is       *)
(* locked, so two users of one control socket would interleave commands.   *)
ExclusiveOwner ==
  /\ IsInjective(freeConnCh)
  /\ \A g \in Users : held[g] \notin Buffered
  /\ \A g, k \in Users : held[g] = held[k] => g = k

(* numConnsPerHost counts exactly the connections that are idle, in use,   *)
(* being opened, or received broken and not yet given up, host by host:    *)
(* no interleaving of open, failure, break and Close leaks a slot or frees *)
(* one twice.                                                              *)
SlotsExact == \A h \in Hosts : numConnsPerHost[h] = Cardinality(CountedOn(h))

(* The limit of Config.ConnectionsPerHost holds for every host, and no     *)
(* counter is driven below zero.                                           *)
LimitRespected == \A h \in Hosts : numConnsPerHost[h] \in 0..ConnectionsPerHost

(* The deferred send of returnConn finds room whenever it runs, so         *)
(* returning a connection never blocks the operation that returns it.      *)
SendNeverBlocks ==
  \A g \in Goroutines : pc[g] = "own" => Len(freeConnCh) < Cap

(* getIdleConn never reaches panic("this shouldn't be possible"): a total  *)
(* below the limit leaves some host below its own.                         *)
NoPanic == \A g \in Goroutines : pc[g] # "panic"

(* Is g the caller of Close, removing a connection of its snapshot? *)
Closer(g) == pc[g] \in {"remove", "closeConn"} /\ resume[g] = "closing"

(* No control socket is lost: an open one is idle in the channel, in use,  *)
(* being set up, or in the hands of the goroutine about to close it.       *)
NoLostSocket ==
  \A c \in DOMAIN conns :
    conns[c].ctrl = "open" =>
      c \in Buffered \/ \E g \in Goroutines : held[g] = c /\ ~Closer(g)

OpenSockets(h) == {c \in DOMAIN conns : c > 0 /\ conns[c].host = h /\ conns[c].ctrl = "open"}

(* client.go:102 calls ConnectionsPerHost the "Maximum number of FTP       *)
(* connections to open per-host".  The slot of a broken connection is      *)
(* given up before its socket is closed, so a host may see more sockets    *)
(* than that, but only one more for each goroutine about to close one.     *)
SocketsBounded ==
  \A h \in Hosts :
    Cardinality(OpenSockets(h)) <=
      ConnectionsPerHost + Cardinality({g \in Droppers : conns[held[g]].host = h})

CloseReturned ==
  closed /\ \A g \in Goroutines : pc[g] # "closing" /\ ~Closer(g)

(* Once Close has returned, every pool connection an operation holds or    *)
(* could pick up has its control socket closed, whatever openConn or       *)
(* getIdleConn were doing when Close took its snapshot.                    *)
CloseReachesAll ==
  CloseReturned =>
    /\ \A c \in Buffered : conns[c].ctrl # "open"
    /\ \A g \in Goroutines :
         pc[g] \in {"own", "decr"} => conns[held[g]].ctrl # "open"

(* As many operations never end as the pool has slots. *)
AllSlotsHang ==
  \E ops \in SUBSET Goroutines :
    Cardinality(ops) = Cap /\ \A k \in ops : <>[](pc[k] = "own")

(* A goroutine parked on a full pool is served, unless every slot is taken *)
(* by an operation that never ends: either it receives a connection or     *)
(* some slot becomes free.                                                 *)
FullPoolServesWaiters ==
  \/ AllSlotsHang
  \/ \A g \in Goroutines :
       pc[g] = "wait" ~> (pc[g] # "wait" \/ numOpenConns < Cap)

CtrlIs(c, state) == c \in DOMAIN conns /\ conns[c].ctrl = state

(* After Close every control socket of the pool that is still open, or     *)
(* that a late openConn opens, is eventually closed.                       *)
ClosedClientClosesSockets ==
  \A c \in 1..MaxConns :
    (closed /\ CtrlIs(c, "open")) ~> CtrlIs(c, "closed")

(* client.go:334 "Loop until we can open a new one, or one becomes         *)
(* available": a goroutine that waits while a slot is free goes on.        *)
LoopsUntilSlotFree ==
  \A g \in Goroutines :
    (pc[g] = "wait" /\ numOpenConns < Cap) ~> pc[g] # "wait"
=============================================================================
