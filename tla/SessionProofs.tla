---------------------------- MODULE SessionProofs ----------------------------
(* Proofs about one control connection, for any set of offsets and any     *)
(* number of replies left over by a failed getter.                         *)
EXTENDS Session, TLAPS

-----------------------------------------------------------------------------
(* The inductive invariant                                                 *)

PastType == {"rest", "prepare", "epsv", "pasv", "port", "dial", "xfer",
             "getter", "copy", "final"}

(* Which operation comes to which part of the code, and in which mode. *)
Routes ==
  /\ pc = "type" => op.kind \in {"file", "size"}
  /\ pc \in PastType => op.kind \in {"file", "list"}
  /\ pc = "port" => config.active /\ listener = "open"
  /\ pc \in {"epsv", "pasv", "dial"} => ~config.active
  /\ waiting => pc \in Commands
  /\ broken => pc \in {"return", "idle", "gone"} /\ ~waiting

(* Who closes the data socket and the listener. *)
Releases ==
  /\ pc \notin {"xfer", "getter", "copy", "final", "return"} => abort = "none"
  /\ pc \in {"copy", "final"} => dataConn
  /\ abort = "none" => dc = "none"
  /\ dataConn => abort = "handed"
  /\ dc = "open" /\ (config.active \/ abort = "handed") => dataConn
  /\ listener = "open" => /\ config.active
                          /\ "listenerLost" \in causes \/ pc = "port" \/ abort = "armed"

(* The command that was written is on its way, or its answer is, or Close  *)
(* has closed the control socket and lost it.  A transfer that the server  *)
(* has accepted may have answered twice.                                   *)
Pending ==
  \/ /\ Len(cmds) = 1 /\ cmds[1] = [verb |-> pc, op |-> op]
     /\ Len(replies) = 0 /\ ~xfer
  \/ Len(cmds) = 0 /\ Len(replies) = 0 /\ ctrl = "closed"
  \/ /\ Len(cmds) = 0 /\ Len(replies) = 1 /\ replies[1] \in Answers(pc)
     /\ xfer => replies[1] = 150
  \/ /\ Len(cmds) = 0 /\ Len(replies) = 2 /\ replies[1] = 150
     /\ pc = "xfer" /\ ~xfer

(* The client is in step with the server: what is on the wire answers the  *)
(* command it waits for, and from the acknowledgement of a transfer on     *)
(* only the completion reply is owed.                                      *)
InStep ==
  IF pc \in {"getter", "copy", "final"}
  THEN Len(cmds) = 0 /\ Len(replies) <= 1 /\ (xfer => Len(replies) = 0)
  ELSE IF waiting THEN Pending
                  ELSE Len(cmds) = 0 /\ Len(replies) = 0 /\ ~xfer

InTransfer == {"getter", "copy", "final"}

Wire == Len(cmds) <= 1 /\ (~broken => InStep)

(* The server is in image type before a file transfer is asked for. *)
TypeSet ==
  /\ started.type = "I"
  /\ currentType = "I" => broken
  /\ op.kind = "file" /\ pc \in PastType => srvType = "I"
  /\ pc = "type" /\ waiting /\ Len(replies) = 1 /\ replies[1] = 200 => srvType = "I"
  /\ Len(cmds) = 1 /\ cmds[1].verb = "xfer" /\ cmds[1].op.kind # "list" => srvType = "I"

(* Where the server must have the marker of the operation. *)
MarkerDue == \/ pc \in {"prepare", "epsv", "pasv", "port", "dial"}
             \/ pc = "xfer" /\ ~waiting

(* The server has the restart marker before a resumed transfer is asked for. *)
MarkerSet ==
  /\ started.wanted > 0 => started.at = started.wanted
  /\ pc = "rest" /\ waiting /\ Len(replies) = 1 /\ replies[1] = 350
       => srvRest = op.offset
  /\ MarkerDue => (op.kind = "file" /\ op.offset > 0 => srvRest = op.offset)
  /\ Len(cmds) = 1 /\ cmds[1].verb = "xfer" /\ cmds[1].op.kind # "list"
       => (cmds[1].op.offset > 0 => srvRest = cmds[1].op.offset)

(* Only an operation that resumes has a marker on the server, and its      *)
(* transfer command uses it up.                                            *)
MarkerUsed ==
  /\ started.at = started.wanted
  /\ ~broken /\ srvRest # 0 => op.offset > 0 /\ pc # "idle"
  /\ Len(cmds) = 1 /\ cmds[1].verb = "xfer" /\ cmds[1].op.kind # "list"
       => srvRest = cmds[1].op.offset

IInv ==
  /\ TypeOK /\ Routes /\ Releases
  /\ "getterFailed" \notin causes =>
       /\ Wire
       /\ "typeRefused" \notin causes => TypeSet
       /\ MarkerSet
       /\ "markerLeft" \notin causes => MarkerUsed

-----------------------------------------------------------------------------
(* Types, routes and the release of data connections                       *)

(* The server's answers are numbers. *)
LEMMA AnswersNat == \A verb \in Commands : Answers(verb) \subseteq Nat
BY DEF Answers, Commands

(* A reply is read: the rest of the queue is left. *)
LEMMA ReplyRead ==
  ASSUME TypeOK, NEW label, readResponse(label)
  PROVE  /\ pc = label /\ waiting' = FALSE /\ (waiting \/ label = "final")
         /\ replies' \in Seq(Nat) /\ Len(replies') = Len(replies) - 1 /\ Len(replies) > 0
         /\ code = replies[1] /\ code \in Nat
         /\ \A i \in 1..Len(replies') : replies'[i] = replies[i + 1]
BY DEF readResponse, TypeOK, code

State == TypeOK /\ Routes /\ Releases

(* TypeOK in parts: what the operation keeps, its sockets ... *)
OpTypes ==
  /\ broken \in BOOLEAN /\ epsvNotSupported \in BOOLEAN /\ waiting \in BOOLEAN
  /\ currentType \in {"A", "I"} /\ op \in Ops /\ pc \in Labels
  /\ causes \subseteq Mishaps

SocketTypes ==
  /\ config \in [active : BOOLEAN, tls : BOOLEAN]
  /\ ctrl \in {"open", "closed"} /\ closer \in {"none", "data", "done"}
  /\ dataConn \in BOOLEAN
  /\ listener \in {"none", "open"} /\ dc \in {"none", "open", "closed"}
  /\ abort \in {"none", "armed", "handed"}
  /\ abort = "armed" => (IF config.active THEN listener ELSE dc) = "open"

(* ... and what the wire and the server keep. *)
PeerTypes ==
  /\ cmds \in Seq([verb : Commands, op : Ops]) /\ replies \in Seq(Nat)
  /\ xfer \in BOOLEAN /\ srvType \in {"A", "I"} /\ srvRest \in Offsets
  /\ started \in [type : {"A", "I"}, at : Offsets, wanted : Offsets]

Own == OpTypes /\ SocketTypes /\ Routes /\ Releases

LEMMA StateParts == (State <=> Own /\ PeerTypes) /\ (State' <=> Own' /\ PeerTypes')
BY Zenon DEF State, Own, TypeOK, OpTypes, SocketTypes, PeerTypes

LEMMA InitState == Init => State
<1> SUFFICES ASSUME Init PROVE Own /\ PeerTypes
  BY StateParts
<1>1. op \in Ops
  BY SessionAssumption DEF Init, Ops, Kinds
<1>2. OpTypes /\ SocketTypes
  BY <1>1 DEF Init, OpTypes, SocketTypes, Labels, Commands, Mishaps
<1>3. Routes /\ Releases
  BY DEF Init, Routes, Releases, PastType, Commands
<1>4. cmds \in Seq([verb : Commands, op : Ops]) /\ replies \in Seq(Nat)
  BY DEF Init
<1>5. PeerTypes
  BY <1>4, SessionAssumption DEF Init, PeerTypes
<1> QED BY <1>2, <1>3, <1>5 DEF Own

(* The first of a queue of commands is a command. *)
LEMMA HeadTail ==
  ASSUME NEW S, NEW q \in Seq(S), q # <<>>
  PROVE  /\ Head(q) \in S /\ Tail(q) \in Seq(S) /\ Head(q) = q[1]
         /\ Len(q) \in Nat /\ Len(q) > 0 /\ Len(Tail(q)) = Len(q) - 1
OBVIOUS

(* The tuples of variables, taken apart. *)
LEMMA Unpack ==
  /\ UNCHANGED wire => cmds' = cmds /\ replies' = replies
  /\ UNCHANGED sockets => /\ dataConn' = dataConn /\ listener' = listener
                          /\ dc' = dc /\ abort' = abort
  /\ UNCHANGED closing => ctrl' = ctrl /\ closer' = closer
  /\ UNCHANGED server => /\ xfer' = xfer /\ srvType' = srvType
                         /\ srvRest' = srvRest /\ started' = started
  /\ UNCHANGED client => /\ broken' = broken /\ currentType' = currentType
                         /\ epsvNotSupported' = epsvNotSupported /\ op' = op
                         /\ pc' = pc /\ waiting' = waiting
BY DEF wire, sockets, closing, server, client

(* The client leaves the wire alone, or reads a reply. *)
LEMMA PeerKept ==
  ASSUME PeerTypes, UNCHANGED server,
         \/ UNCHANGED wire
         \/ cmds' = cmds /\ replies # <<>> /\ replies' = Tail(replies)
  PROVE  PeerTypes'
<1>1. replies \in Seq(Nat) /\ cmds \in Seq([verb : Commands, op : Ops])
  BY DEF PeerTypes
<1>2. replies' \in Seq(Nat) /\ cmds' = cmds
  BY <1>1, Unpack, HeadTail
<1> QED BY <1>1, <1>2, Unpack DEF PeerTypes

LEMMA SocketsKept ==
  ASSUME SocketTypes, UNCHANGED <<config, sockets, closing>>
  PROVE  SocketTypes'
BY Unpack DEF SocketTypes

(* A step from one label to another that leaves the sockets alone, where   *)
(* abort has no part, or keeps it.                                         *)
LEMMA OpMoves ==
  ASSUME Own, NEW here, pc = here, NEW there, pc' = there, there \in Labels,
         UNCHANGED <<config, sockets, closing>>,
         broken' \in BOOLEAN, epsvNotSupported' \in BOOLEAN, waiting' \in BOOLEAN,
         currentType' \in {"A", "I"}, op' \in Ops, causes' \subseteq Mishaps,
         causes \subseteq causes',
         here \in {"xfer", "getter", "copy", "final"}
           => there \in {"xfer", "getter", "copy", "final", "return"},
         here = "port" => there = "port" \/ "listenerLost" \in causes',
         there \in {"copy", "final"} => here \in {"copy", "final"},
         here = "return" => there = "return",
         Routes'
  PROVE  Own'
<1>1. SocketTypes'
  BY SocketsKept DEF Own
<1>2. OpTypes'
  BY DEF OpTypes
<1>3. Releases'
  BY Unpack DEF Own, Releases
<1> QED BY <1>1, <1>2, <1>3 DEF Own

(* The steps of the operation before it has asked for a data connection. *)
LEMMA StateControl ==
  ASSUME State,
         \/ \E o \in Ops : BeginOp(o)
         \/ sendCommand \/ IOFails \/ TypeAlreadySet \/ setType
         \/ RestReply \/ SizeReply \/ Rename \/ ControlReply
  PROVE  State'
<1> SUFFICES Own' /\ PeerTypes'
  BY StateParts
<1>0. Own /\ PeerTypes /\ OpTypes /\ Routes
  BY StateParts DEF Own
<1>1. ASSUME NEW o \in Ops, BeginOp(o) PROVE Own' /\ PeerTypes'
  <2>1. PeerTypes'
    BY <1>0, <1>1, PeerKept DEF BeginOp
  <2>2. o.kind \in Kinds
    BY DEF Ops
  <2>3. pc = "idle" /\ ~broken /\ op' = o
    BY <1>1 DEF BeginOp
  <2>4. /\ pc' \in {"type", "prepare", "rnfr", "control"}
        /\ pc' = "type" => o.kind \in {"file", "size"}
        /\ pc' = "prepare" => o.kind = "list"
    BY <1>1, <2>2 DEF BeginOp, Kinds
  <2>5. UNCHANGED <<config, broken, currentType, epsvNotSupported, waiting,
                    sockets, closing, causes>>
    BY <1>1 DEF BeginOp
  <2>6. Routes'
    BY <1>0, <2>3, <2>4, <2>5 DEF Routes, PastType, Commands
  <2>7. pc' \in Labels
    BY <2>4 DEF Labels, Commands
  <2>8. Own'
    BY <1>0, <2>3, <2>4, <2>5, <2>6, <2>7, OpMoves DEF OpTypes
  <2> QED BY <2>1, <2>8
<1>2. CASE sendCommand
  <2>1. /\ waiting' = TRUE /\ pc \in Commands /\ ~waiting /\ pc' = pc /\ op' = op
        /\ UNCHANGED <<config, broken, currentType, epsvNotSupported, sockets, closing,
                       server, replies, causes>>
    BY <1>2 DEF sendCommand
  <2>2. cmds' \in Seq([verb : Commands, op : Ops])
    BY <1>0, <1>2 DEF sendCommand, PeerTypes, OpTypes
  <2>3. PeerTypes'
    BY <1>0, <2>1, <2>2, Unpack DEF PeerTypes
  <2>4. Routes'
    BY <1>0, <2>1, Unpack DEF Routes, Commands
  <2>5. Own'
    BY <1>0, <2>1, <2>4, OpMoves DEF OpTypes
  <2> QED BY <2>3, <2>5
<1>3. CASE IOFails
  <2>1. PeerTypes'
    BY <1>0, <1>3, PeerKept DEF IOFails
  <2>2. causes' \in {causes, causes \cup {"listenerLost"}}
        /\ (pc = "port" => "listenerLost" \in causes')
    BY <1>3 DEF IOFails
  <2>3. /\ pc \in Commands \cup {"final"} /\ broken' = TRUE /\ waiting' = FALSE
        /\ pc' = "return" /\ currentType' \in {"I", currentType}
        /\ UNCHANGED <<config, epsvNotSupported, op, sockets, closing>>
    BY <1>3 DEF IOFails
  <2>4. Routes'
    BY <2>3 DEF Routes, PastType
  <2>5. causes' \subseteq Mishaps /\ causes \subseteq causes'
    BY <1>0, <2>2 DEF OpTypes, Mishaps
  <2>6. pc' \in Labels /\ pc # "return"
    BY <2>3 DEF Labels, Commands
  <2>7. currentType' \in {"A", "I"} /\ op' \in Ops /\ epsvNotSupported' \in BOOLEAN
    BY <1>0, <2>3 DEF OpTypes
  <2>8. /\ pc' = "return" /\ broken' \in BOOLEAN /\ waiting' \in BOOLEAN
        /\ pc = "port" => "listenerLost" \in causes'
        /\ UNCHANGED <<config, sockets, closing>>
    BY <2>2, <2>3
  <2>9. Own'
    BY <1>0, <2>4, <2>5, <2>6, <2>7, <2>8, OpMoves
  <2> QED BY <2>1, <2>9
<1>4. CASE TypeAlreadySet
  <2>1. PeerTypes'
    BY <1>0, <1>4, PeerKept DEF TypeAlreadySet
  <2>2. /\ pc = "type" /\ pc' = AfterType
        /\ UNCHANGED <<config, broken, currentType, epsvNotSupported, op, waiting,
                       sockets, closing, causes>>
    BY <1>4 DEF TypeAlreadySet
  <2>3. Routes' /\ pc' \in Labels /\ pc' \notin {"copy", "final"}
    BY <1>0, <1>4, <2>2 DEF TypeAlreadySet, AfterType, Routes, PastType, Labels, Commands
  <2>4. Own'
    BY <1>0, <2>2, <2>3, OpMoves DEF OpTypes
  <2> QED BY <2>1, <2>4
<1>5. CASE setType
  <2>1. PeerTypes'
    BY <1>0, <1>5, PeerKept DEF setType, readResponse
  <2>2. /\ pc = "type" /\ waiting' = FALSE /\ currentType' \in {"I", currentType}
        /\ pc' \in {AfterType, "return"}
        /\ causes' \in {causes, causes \cup {"typeRefused"}}
        /\ UNCHANGED <<config, broken, epsvNotSupported, op, sockets, closing>>
    BY <1>5 DEF setType, readResponse
  <2>3. Routes' /\ pc' \in Labels /\ pc' \notin {"copy", "final"}
    BY <1>0, <2>2 DEF AfterType, Routes, PastType, Labels, Commands
  <2>4. causes' \subseteq Mishaps /\ causes \subseteq causes'
    BY <1>0, <2>2 DEF OpTypes, Mishaps
  <2>5. /\ currentType' \in {"A", "I"} /\ op' \in Ops
        /\ epsvNotSupported' \in BOOLEAN /\ broken' \in BOOLEAN
    BY <1>0, <2>2 DEF OpTypes
  <2>6. pc = "type" /\ waiting' \in BOOLEAN /\ UNCHANGED <<config, sockets, closing>>
    BY <2>2
  <2>7. Own'
    BY <1>0, <2>3, <2>4, <2>5, <2>6, OpMoves
  <2> QED BY <2>1, <2>7
<1>6. CASE RestReply \/ SizeReply \/ Rename \/ ControlReply
  <2>1. PICK label, expected, next : /\ CommandThen(label, expected, next)
          /\ \/ label = "rest" /\ next = "prepare"
             \/ label \in {"size", "rnto", "control"} /\ next = "return"
             \/ label = "rnfr" /\ next = "rnto"
    BY <1>6 DEF RestReply, SizeReply, Rename, ControlReply
  <2>2. PeerTypes'
    BY <1>0, <2>1, PeerKept DEF CommandThen, readResponse
  <2>3. /\ pc = label /\ waiting' = FALSE /\ pc' \in {next, "return"}
        /\ UNCHANGED <<config, broken, currentType, epsvNotSupported, op, sockets,
                       closing, causes>>
    BY <2>1 DEF CommandThen, readResponse
  <2>4. Routes' /\ pc' \in Labels
    BY <1>0, <2>1, <2>3 DEF Routes, PastType, Labels, Commands
  <2>5. Own'
    BY <1>0, <2>1, <2>3, <2>4, OpMoves DEF OpTypes
  <2> QED BY <2>2, <2>5
<1> QED BY <1>1, <1>2, <1>3, <1>4, <1>5, <1>6

(* The steps that open a data connection. *)
LEMMA StatePrepare ==
  ASSUME State,
         Listen \/ PortReply \/ requestPassive \/ EpsvReply \/ PasvReply \/ DialData
  PROVE  State'
<1> SUFFICES Own' /\ PeerTypes'
  BY StateParts
<1>0. Own /\ PeerTypes /\ OpTypes /\ SocketTypes /\ Routes /\ Releases
  BY StateParts DEF Own
<1>1. PeerTypes'
  <2>1. UNCHANGED server
    BY DEF Listen, PortReply, requestPassive, EpsvReply, PasvReply, DialData
  <2>2. \/ UNCHANGED wire
        \/ cmds' = cmds /\ replies # <<>> /\ replies' = Tail(replies)
    BY Zenon DEF Listen, PortReply, requestPassive, EpsvReply, PasvReply, DialData, readResponse
  <2> QED BY <1>0, <2>1, <2>2, PeerKept
<1>2. CASE Listen
  <2>1. /\ pc = "prepare" /\ config.active
        /\ \/ pc' = "port" /\ listener' = "open" /\ causes' = causes
           \/ pc' = "return" /\ listener' = listener /\ causes' = causes
           \/ pc' = "return" /\ causes' = causes \cup {"listenerLost"}
        /\ listener' \in {"open", listener}
        /\ UNCHANGED <<config, broken, currentType, epsvNotSupported, op, waiting,
                       dataConn, dc, abort, closing>>
    BY <1>2 DEF Listen
  <2>2. OpTypes'
    BY <1>0, <2>1 DEF OpTypes, Labels, Commands, Mishaps
  <2>3. SocketTypes'
    BY <1>0, <2>1, Unpack DEF SocketTypes, Releases
  <2>4. Routes' /\ Releases'
    BY <1>0, <2>1 DEF SocketTypes, Routes, Releases, PastType, Commands
  <2> QED BY <1>1, <2>2, <2>3, <2>4 DEF Own
<1>3. CASE PortReply
  <2>1. /\ pc = "port" /\ waiting' = FALSE
        /\ \/ pc' = "xfer" /\ abort' = "armed" /\ causes' = causes
           \/ pc' = "return" /\ abort' = abort /\ causes' = causes \cup {"listenerLost"}
        /\ UNCHANGED <<config, broken, currentType, epsvNotSupported, op, dataConn,
                       listener, dc, closing>>
    BY <1>3 DEF PortReply, readResponse
  <2>2. OpTypes'
    BY <1>0, <2>1 DEF OpTypes, Labels, Commands, Mishaps
  <2>3. SocketTypes'
    BY <1>0, <2>1, Unpack DEF SocketTypes, Routes
  <2>4. Routes' /\ Releases'
    BY <1>0, <2>1 DEF SocketTypes, Routes, Releases, PastType, Commands
  <2> QED BY <1>1, <2>2, <2>3, <2>4 DEF Own
<1>4. CASE requestPassive \/ EpsvReply \/ PasvReply
  <2>1. /\ pc \in {"prepare", "epsv", "pasv"} /\ waiting' \in {waiting, FALSE}
        /\ pc' \in {"epsv", "pasv", "dial", "return"}
        /\ pc = "prepare" => ~config.active
        /\ pc = "prepare" => pc' \in {"epsv", "pasv"} /\ waiting' = waiting
        /\ pc # "prepare" => waiting' = FALSE
        /\ epsvNotSupported' \in {epsvNotSupported, TRUE}
    BY <1>0, <1>4 DEF requestPassive, EpsvReply, PasvReply, readResponse
  <2>2. UNCHANGED <<config, broken, currentType, op, sockets, closing, causes>>
    BY <1>4 DEF requestPassive, EpsvReply, PasvReply
  <2>3. Routes' /\ pc' \in Labels
    BY <1>0, <2>1, <2>2 DEF Routes, PastType, Labels, Commands
  <2>4. epsvNotSupported' \in BOOLEAN /\ waiting' \in BOOLEAN
    BY <1>0, <2>1 DEF OpTypes
  <2>5. Own'
    BY <1>0, <2>1, <2>2, <2>3, <2>4, OpMoves DEF OpTypes
  <2> QED BY <1>1, <2>5
<1>5. CASE DialData
  <2>1. OpTypes'
    BY <1>0, <1>5 DEF DialData, OpTypes, Labels, Commands
  <2>2. SocketTypes'
    BY <1>0, <1>5, Unpack DEF DialData, SocketTypes, Routes
  <2>3. Routes' /\ Releases'
    BY <1>0, <1>5 DEF DialData, SocketTypes, Routes, Releases, PastType, Commands
  <2> QED BY <1>1, <2>1, <2>2, <2>3 DEF Own
<1> QED BY <1>2, <1>3, <1>4, <1>5

(* The steps that use it and close it. *)
LEMMA StateTransfer ==
  ASSUME State,
         \/ XferReply \/ AcceptData \/ HandshakeData
         \/ CopyEnds \/ CopyFails \/ FinalReply \/ Return \/ Discard
  PROVE  State'
<1> SUFFICES Own' /\ PeerTypes'
  BY StateParts
<1>0. Own /\ PeerTypes /\ OpTypes /\ SocketTypes /\ Routes /\ Releases
  BY StateParts DEF Own
<1>1. CASE XferReply \/ FinalReply
  <2>1. PICK label, expected, next : /\ CommandThen(label, expected, next)
          /\ \/ label = "xfer" /\ next = "getter"
             \/ label = "final" /\ next = "return"
    BY <1>1 DEF XferReply, FinalReply
  <2>2. PeerTypes'
    BY <1>0, <2>1, PeerKept DEF CommandThen, readResponse
  <2>3. /\ pc = label /\ waiting' = FALSE /\ pc' \in {next, "return"}
        /\ UNCHANGED <<config, broken, currentType, epsvNotSupported, op, sockets,
                       closing, causes>>
    BY <2>1 DEF CommandThen, readResponse
  <2>4. Routes' /\ pc' \in Labels
    BY <1>0, <2>1, <2>3 DEF Routes, Labels, PastType
  <2>5. Own'
    BY <1>0, <2>1, <2>3, <2>4, OpMoves DEF OpTypes
  <2> QED BY <2>2, <2>5
<1>2. CASE AcceptData \/ HandshakeData
  <2>1. /\ pc = "getter" /\ abort' = "handed" /\ pc' \in {"copy", "return"}
        /\ dc' \in {"open", "closed", dc} /\ listener' \in {"none", listener}
        /\ dataConn' \in {TRUE, dataConn}
        /\ config.active => listener' = "none"
        /\ \/ pc' = "copy" /\ dataConn' = TRUE
           \/ pc' = "return" /\ config.active /\ dc' = dc
           \/ pc' = "return" /\ dc' = "closed"
        /\ UNCHANGED <<config, broken, currentType, epsvNotSupported, op, waiting,
                       closing, server, wire>>
    BY <1>2, Zenon DEF AcceptData, HandshakeData, Getter, HandOver, GetterFails
  <2>2. causes' \in {causes, causes \cup {"getterFailed"}}
    BY <1>2, Zenon DEF AcceptData, HandshakeData, Getter, HandOver, GetterFails
  <2>3. PeerTypes'
    BY <1>0, <2>1, PeerKept
  <2>4. OpTypes'
    BY <1>0, <2>1, <2>2 DEF OpTypes, Labels, Mishaps
  <2>5. SocketTypes'
    BY <1>0, <2>1, Unpack DEF SocketTypes
  <2>6. Routes'
    BY <1>0, <2>1 DEF Routes, PastType, Commands
  <2>7. Releases'
    <3>1. config' = config /\ listener' # "open"
      BY <1>0, <2>1 DEF SocketTypes, Releases
    <3>2. pc' \notin {"xfer", "getter", "final"} /\ (pc' = "copy" => dataConn')
      BY <2>1
    <3>3. config.active /\ dc = "open" => dataConn
      BY <1>0 DEF Releases
    <3>4. dataConn' = TRUE \/ dataConn' = dataConn
      BY <2>1
    <3>5. dc' = "open" => dataConn' = TRUE \/ (config.active /\ dc = "open")
      BY <2>1
    <3>6. dc' = "open" => dataConn'
      BY <3>3, <3>4, <3>5, Zenon
    <3> QED BY <2>1, <3>1, <3>2, <3>6 DEF Releases
  <2> QED BY <2>3, <2>4, <2>5, <2>6, <2>7 DEF Own
<1>3. CASE CopyEnds
  <2>1. PeerTypes'
    BY <1>0, <1>3, PeerKept DEF CopyEnds
  <2>3. OpTypes'
    BY <1>0, <1>3 DEF CopyEnds, OpTypes, Labels
  <2>4. SocketTypes'
    BY <1>0, <1>3, Unpack DEF CopyEnds, SocketTypes, Releases
  <2>5. Routes'
    BY <1>0, <1>3 DEF CopyEnds, Routes, PastType, Commands
  <2>6. Releases'
    BY <1>0, <1>3 DEF CopyEnds, Releases
  <2> QED BY <2>1, <2>3, <2>4, <2>5, <2>6 DEF Own
<1>4. CASE CopyFails
  <2>1. PeerTypes'
    BY <1>0, <1>4, PeerKept DEF CopyFails
  <2>2. /\ pc = "copy" /\ pc' = "return" /\ broken' = TRUE
        /\ UNCHANGED <<config, currentType, epsvNotSupported, op, waiting, sockets,
                       closing, causes>>
    BY <1>4 DEF CopyFails
  <2>3. Routes' /\ pc' \in Labels
    BY <1>0, <2>2 DEF Routes, PastType, Labels, Commands
  <2>4. Own'
    BY <1>0, <2>2, <2>3, OpMoves DEF OpTypes
  <2> QED BY <2>1, <2>4
<1>5. CASE Return
  <2>1. PeerTypes'
    BY <1>0, <1>5, PeerKept DEF Return
  <2>2. OpTypes'
    BY <1>0, <1>5 DEF Return, OpTypes, Labels, Mishaps
  <2>3. SocketTypes'
    BY <1>0, <1>5, Unpack DEF Return, SocketTypes
  <2>4. Routes'
    BY <1>0, <1>5 DEF Return, Routes, PastType, Commands
  <2>5. Releases'
    BY <1>0, <1>5 DEF Return, SocketTypes, Releases
  <2> QED BY <2>1, <2>2, <2>3, <2>4, <2>5 DEF Own
<1>6. CASE Discard
  <2>1. PeerTypes'
    BY <1>0, <1>6, PeerKept DEF Discard
  <2>2. OpTypes'
    BY <1>0, <1>6 DEF Discard, OpTypes, Labels
  <2>3. SocketTypes'
    BY <1>0, <1>6, Unpack DEF Discard, SocketTypes
  <2>4. Routes'
    BY <1>0, <1>6 DEF Discard, Routes, PastType, Commands
  <2>5. Releases'
    BY <1>0, <1>6, Unpack DEF Discard, SocketTypes, Releases
  <2> QED BY <2>1, <2>2, <2>3, <2>4, <2>5 DEF Own
<1> QED BY <1>1, <1>2, <1>3, <1>4, <1>5, <1>6

(* What an answer of the server to the command c changes. *)
Answered(c, answer) ==
  LET file == c.verb = "xfer" /\ c.op.kind # "list" IN
  /\ ctrl = "open" /\ ~xfer /\ c = cmds[1] /\ Len(cmds) > 0
  /\ answer \in Answers(c.verb)
  /\ Len(cmds') = Len(cmds) - 1 /\ cmds' \in Seq([verb : Commands, op : Ops])
  /\ replies' = Append(replies, answer) /\ xfer' = (answer = 150)
  /\ srvType' = IF c.verb = "type" /\ answer = 200 THEN "I" ELSE srvType
  /\ srvRest' = IF c.verb = "rest" /\ answer = 350 THEN c.op.offset
                ELSE IF file THEN 0 ELSE srvRest
  /\ started' = IF file /\ answer = 150
                THEN [type |-> srvType, at |-> srvRest, wanted |-> c.op.offset]
                ELSE started
  /\ UNCHANGED <<config, client, sockets, closing, causes>>

LEMMA AnswerStep ==
  ASSUME PeerTypes, ServerAnswers
  PROVE  \E c \in [verb : Commands, op : Ops], answer \in Nat : Answered(c, answer)
<1> DEFINE S == [verb : Commands, op : Ops]
<1>1. cmds \in Seq(S) /\ cmds # <<>>
  BY Zenon DEF ServerAnswers, PeerTypes
<1>2. /\ Head(cmds) \in S /\ Tail(cmds) \in Seq(S) /\ Head(cmds) = cmds[1]
      /\ Len(cmds) > 0 /\ Len(Tail(cmds)) = Len(cmds) - 1
  <2> HIDE DEF S
  <2> QED BY <1>1, HeadTail
<1>3. Head(cmds).verb \in Commands
  BY <1>2
<1>4. \A answer \in Answers(Head(cmds).verb) : answer \in Nat
  BY <1>3, AnswersNat
<1> HIDE DEF S
<1>5. PICK answer \in Answers(Head(cmds).verb) : Answered(Head(cmds), answer)
  BY <1>2, Zenon DEF ServerAnswers, Answered, S
<1> QED BY <1>2, <1>4, <1>5, Zenon DEF S

(* Close and the server. *)
LEMMA StateOthers ==
  ASSUME State, CloseData \/ CloseControl \/ ServerAnswers \/ ServerCompletes
  PROVE  State'
<1> SUFFICES Own' /\ PeerTypes'
  BY StateParts
<1>0. Own /\ PeerTypes
  BY StateParts
<1>1. CASE CloseData
  <2>1. PeerTypes'
    BY <1>0, <1>1, PeerKept DEF CloseData
  <2>2. Own'
    BY <1>0, <1>1, Unpack DEF CloseData, Own, OpTypes, SocketTypes, Routes, Releases
  <2> QED BY <2>1, <2>2
<1>2. CASE CloseControl
  <2>1. replies' \in Seq(Nat)
    BY <1>0, <1>2 DEF CloseControl, PeerTypes
  <2>2. PeerTypes'
    BY <1>0, <1>2, <2>1 DEF CloseControl, PeerTypes, server
  <2>3. Own'
    BY <1>0, <1>2, Unpack DEF CloseControl, Own, OpTypes, SocketTypes, Routes, Releases
  <2> QED BY <2>2, <2>3
<1>3. CASE ServerAnswers
  <2>1. PICK c \in [verb : Commands, op : Ops], answer \in Nat : Answered(c, answer)
    BY <1>0, <1>3, AnswerStep
  <2>2. c.op.offset \in Offsets
    BY DEF Ops
  <2>3. replies' \in Seq(Nat)
    BY <1>0, <2>1 DEF PeerTypes, Answered
  <2>4. started' \in [type : {"A", "I"}, at : Offsets, wanted : Offsets]
    BY <1>0, <2>1, <2>2 DEF PeerTypes, Answered
  <2>5. PeerTypes'
    BY <1>0, <2>1, <2>2, <2>3, <2>4, SessionAssumption DEF PeerTypes, Answered
  <2>6. Own'
    BY <1>0, <2>1, Unpack DEF Answered, Own, OpTypes, SocketTypes, Routes, Releases
  <2> QED BY <2>5, <2>6
<1>4. CASE ServerCompletes
  <2>1. replies' \in Seq(Nat)
    BY <1>0, <1>4 DEF ServerCompletes, PeerTypes
  <2>2. PeerTypes'
    BY <1>0, <1>4, <2>1 DEF ServerCompletes, PeerTypes
  <2>3. Own'
    BY <1>0, <1>4, Unpack DEF ServerCompletes, Own, OpTypes, SocketTypes, Routes, Releases
  <2> QED BY <2>2, <2>3
<1> QED BY <1>1, <1>2, <1>3, <1>4

LEMMA StepState == State /\ [Next]_vars => State'
<1> SUFFICES ASSUME State, [Next]_vars PROVE State'
  OBVIOUS
<1>1. CASE UNCHANGED vars
  BY <1>1 DEF vars, client, sockets, closing, server, wire, State, TypeOK, Routes, Releases
<1> QED BY <1>1, StateControl, StatePrepare, StateTransfer, StateOthers DEF Next, ClientStep

-----------------------------------------------------------------------------
(* In step with the server                                                 *)

(* The steps of the client that neither write nor read, and what they do:  *)
(* nothing the server could tell ...                                       *)
Stays == pc' = pc /\ op' = op /\ waiting' = waiting /\ broken' = broken /\ ctrl' = ctrl

(* ... give up a broken connection ... *)
GivesUp == broken' = TRUE /\ waiting' = FALSE /\ pc' \in {"return", "idle", "gone"}

(* ... go on between two commands ... *)
Moves ==
  /\ waiting = FALSE /\ waiting' = FALSE /\ broken = FALSE /\ broken' = FALSE
  /\ \/ pc = "idle" /\ pc' \in {"type", "rnfr", "control"}
     \/ pc = "idle" /\ pc' = "prepare" /\ op'.kind = "list"
     \/ /\ pc = "type" /\ currentType = "I" /\ op' = op
        /\ pc' \in {"size", "rest", "prepare"} /\ (pc' = "prepare" => ~(op.offset > 0))
     \/ /\ pc \in {"prepare", "dial"} /\ op' = op
        /\ pc' \in {"port", "epsv", "pasv", "xfer", "return"}
     \/ pc = "return" /\ pc' = "idle"

(* ... or go on with the data of a transfer. *)
Copies ==
  /\ waiting = FALSE /\ waiting' = FALSE /\ broken' = FALSE /\ op' = op
  /\ pc \in InTransfer /\ pc' \in InTransfer

Quiet ==
  /\ cmds' = cmds /\ replies' = replies /\ xfer' = xfer
  /\ srvType' = srvType /\ srvRest' = srvRest /\ started' = started
  /\ broken => broken'
  /\ currentType' = "I" => currentType = "I" \/ broken'
  /\ causes \subseteq causes'
  /\ pc' = "idle" => pc = "idle" \/ srvRest = 0 \/ "markerLeft" \in causes'
  /\ "getterFailed" \in causes' \/ Stays \/ GivesUp \/ Moves \/ Copies

LEMMA QuietSteps ==
  ASSUME State,
         \/ \E o \in Ops : BeginOp(o)
         \/ IOFails \/ TypeAlreadySet \/ Listen \/ requestPassive \/ DialData
         \/ AcceptData \/ HandshakeData \/ CopyEnds \/ CopyFails \/ Return \/ Discard
         \/ CloseData
  PROVE  Quiet
<1>0. Routes /\ OpTypes
  BY StateParts DEF Own
<1>1. ASSUME NEW o \in Ops, BeginOp(o) PROVE Quiet
  <2>1. o.kind \in Kinds
    BY DEF Ops
  <2>2. /\ pc' \in {"type", "prepare", "rnfr", "control"}
        /\ pc' = "prepare" => o.kind = "list"
        /\ pc = "idle" /\ broken = FALSE /\ op' = o /\ waiting' = waiting /\ broken' = broken
    BY <1>0, <1>1, <2>1 DEF BeginOp, Kinds, OpTypes
  <2>3. Moves
    BY <1>0, <2>2 DEF Moves, Routes, Commands, OpTypes
  <2> QED BY <1>1, <2>3, Unpack DEF BeginOp, Quiet
<1>2. CASE IOFails
  <2>1. GivesUp
    BY <1>2 DEF IOFails, GivesUp
  <2>2. causes \subseteq causes' /\ broken'
    BY <1>2 DEF IOFails
  <2> QED BY <1>2, <2>1, <2>2, Unpack DEF IOFails, Quiet
<1>3. CASE TypeAlreadySet
  <2>1. Moves
    BY <1>0, <1>3 DEF TypeAlreadySet, AfterType, Moves, Routes, OpTypes
  <2> QED BY <1>3, <2>1, Unpack DEF TypeAlreadySet, AfterType, Quiet
<1>4. CASE Listen
  <2>1. Moves
    BY <1>0, <1>4 DEF Listen, Moves, Routes, OpTypes, Commands
  <2>2. causes \subseteq causes' /\ pc' \in {"port", "return"}
    BY <1>4 DEF Listen
  <2> QED BY <1>4, <2>1, <2>2, Unpack DEF Listen, Quiet
<1>5. CASE requestPassive
  <2>1. Moves
    BY <1>0, <1>5 DEF requestPassive, Moves, Routes, OpTypes, Commands
  <2> QED BY <1>5, <2>1, Unpack DEF requestPassive, Quiet
<1>6. CASE DialData
  <2>1. Moves
    BY <1>0, <1>6 DEF DialData, Moves, Routes, OpTypes, Commands
  <2> QED BY <1>6, <2>1, Unpack DEF DialData, Quiet
<1>7. CASE AcceptData \/ HandshakeData
  <2>1. /\ pc = "getter"
        /\ \/ pc' = "copy" /\ causes' = causes
           \/ pc' = "return" /\ causes' = causes \cup {"getterFailed"}
        /\ UNCHANGED <<broken, currentType, op, waiting, server, wire>>
    BY <1>7, Zenon DEF AcceptData, HandshakeData, Getter, HandOver, GetterFails
  <2>2. "getterFailed" \in causes' \/ Copies
    BY <1>0, <2>1 DEF Copies, InTransfer, Routes, OpTypes, Commands
  <2>3. causes \subseteq causes'
    BY <2>1
  <2> QED BY <2>1, <2>2, <2>3, Unpack DEF Quiet
<1>8. CASE CopyEnds
  <2>1. Copies
    BY <1>0, <1>8 DEF CopyEnds, Copies, InTransfer, Routes, OpTypes, Commands
  <2> QED BY <1>8, <2>1, Unpack DEF CopyEnds, Quiet
<1>9. CASE CopyFails
  <2>1. GivesUp
    BY <1>0, <1>9 DEF CopyFails, GivesUp, Routes, OpTypes, Commands
  <2> QED BY <1>9, <2>1, Unpack DEF CopyFails, Quiet
<1>10. CASE Return
  <2>1. GivesUp \/ Moves
    BY <1>0, <1>10 DEF Return, GivesUp, Moves, Routes, OpTypes, Commands
  <2>2. srvRest \in Nat
    BY SessionAssumption DEF State, TypeOK
  <2>3. causes \subseteq causes' /\ (srvRest = 0 \/ "markerLeft" \in causes')
    BY <1>10, <2>2 DEF Return
  <2> QED BY <1>10, <2>1, <2>3, Unpack DEF Return, Quiet
<1>11. CASE Discard
  <2>1. GivesUp
    BY <1>0, <1>11 DEF Discard, GivesUp, Routes, OpTypes
  <2> QED BY <1>11, <2>1, Unpack DEF Discard, Quiet
<1>12. CASE CloseData
  <2>1. Stays
    BY <1>12, Unpack DEF CloseData, Stays
  <2> QED BY <1>12, <2>1, Unpack DEF CloseData, Quiet
<1> QED BY <1>1, <1>2, <1>3, <1>4, <1>5, <1>6, <1>7, <1>8, <1>9, <1>10, <1>11, <1>12

LEMMA QuietWire ==
  ASSUME State, Wire, Quiet, "getterFailed" \notin causes'
  PROVE  Wire'
<1>1. Len(cmds') <= 1
  BY DEF Wire, Quiet
<1>2. CASE Stays
  BY <1>1, <1>2 DEF Wire, Quiet, Stays, InStep, Pending
<1>3. CASE GivesUp
  BY <1>1, <1>3 DEF Wire, GivesUp
<1>4. CASE Moves
  <2>1. ~broken /\ ~waiting /\ ~waiting' /\ ~broken' /\ pc \notin InTransfer /\ pc' \notin InTransfer
    BY <1>4 DEF Moves, InTransfer
  <2> QED BY <1>1, <2>1 DEF Wire, Quiet, InStep, InTransfer
<1>5. CASE Copies
  <2>1. ~broken /\ pc \in InTransfer /\ pc' \in InTransfer
    BY <1>5 DEF Copies, Quiet
  <2> QED BY <1>1, <2>1 DEF Wire, Quiet, InStep, InTransfer
<1> QED BY <1>2, <1>3, <1>4, <1>5 DEF Quiet

(* A command is written only when nothing is owed. *)
LEMMA SendWire ==
  ASSUME State, Wire, sendCommand
  PROVE  /\ Len(cmds) = 0 /\ Len(replies) = 0 /\ ~xfer
         /\ Len(cmds') = 1 /\ cmds'[1] = [verb |-> pc, op |-> op]
         /\ Wire'
<1>0. Routes /\ cmds \in Seq([verb : Commands, op : Ops])
  BY StateParts DEF Own, PeerTypes
<1>1. /\ pc \in Commands /\ ~waiting /\ waiting' = TRUE
      /\ pc' = pc /\ op' = op /\ broken' = broken /\ ctrl' = ctrl /\ replies' = replies
      /\ xfer' = xfer
  BY Unpack DEF sendCommand
<1>2. pc \notin {"getter", "copy", "final", "return", "idle", "gone"}
  BY <1>1 DEF Commands
<1>3. Len(cmds) = 0 /\ Len(replies) = 0 /\ ~xfer
  BY <1>0, <1>1, <1>2 DEF Wire, Routes, InStep
<1>4. cmds' = Append(cmds, [verb |-> pc, op |-> op]) /\ [verb |-> pc, op |-> op] \in [verb : Commands, op : Ops]
  BY <1>1, StateParts DEF sendCommand, Own, OpTypes
<1>5. Len(cmds') = 1 /\ cmds'[1] = [verb |-> pc, op |-> op]
  BY <1>0, <1>3, <1>4
<1>6. Pending'
  BY <1>1, <1>3, <1>5 DEF Pending
<1>7. Wire'
  BY <1>1, <1>2, <1>5, <1>6 DEF Wire, InStep
<1> QED BY <1>3, <1>5, <1>7

(* Only a transfer command can be answered with 150. *)
LEMMA Answers150 == \A verb \in Commands : 150 \in Answers(verb) => verb = "xfer"
BY DEF Answers, Commands

(* The reply that is read answers the command it was read for, and only    *)
(* the acknowledgement of a transfer leaves one owed.                      *)
LEMMA ReadWire ==
  ASSUME State, Wire, NEW label, readResponse(label), label \in Commands \cup {"final"}
  PROVE  /\ Len(cmds) = 0 /\ Len(replies') \in Nat
         /\ label # "final" => code \in Answers(label)
         /\ label # "xfer" => Len(replies) = 1
         /\ IF label = "xfer" /\ code = 150
            THEN Len(replies') <= 1 /\ (xfer => Len(replies') = 0)
            ELSE Len(replies') = 0 /\ ~xfer
<1>0. TypeOK /\ Routes /\ replies \in Seq(Nat)
  BY DEF State, TypeOK
<1>1. /\ pc = label /\ (waiting \/ label = "final")
      /\ Len(replies') = Len(replies) - 1 /\ Len(replies) \in Nat /\ Len(replies) > 0
      /\ code = replies[1]
  <2>1. Len(replies) \in Nat
    BY <1>0
  <2> QED BY <1>0, <2>1, ReplyRead, Zenon
<1>2. InStep
  BY <1>0, <1>1 DEF Wire, Routes, Commands
<1>3. CASE label = "final"
  BY <1>1, <1>2, <1>3 DEF InStep
<1>4. CASE label \in Commands
  <2>1. Pending
    BY <1>1, <1>2, <1>4 DEF InStep, Commands
  <2>2. Len(cmds) = 0 /\ (code \in Answers(label) \/ (label = "xfer" /\ code = 150))
    <3>1. CASE Len(replies) = 1
      <4>1. Len(cmds) = 0 /\ replies[1] \in Answers(pc)
        BY <2>1, <3>1 DEF Pending
      <4> QED BY <1>1, <4>1
    <3>2. CASE Len(replies) = 2
      BY <1>1, <2>1, <3>2 DEF Pending
    <3> QED BY <1>1, <2>1, <3>1, <3>2 DEF Pending
  <2>3. 150 \in Answers("xfer")
    BY DEF Answers
  <2>4. code \in Answers(label) /\ label # "final"
    BY <1>4, <2>2, <2>3 DEF Commands
  <2>5. code = 150 => label = "xfer"
    BY <1>4, <2>4, Answers150
  <2> QED BY <1>1, <2>1, <2>2, <2>4, <2>5 DEF Pending
<1> QED BY <1>3, <1>4

(* Reading a reply for any command but the transfer's. *)
LEMMA ReadOther ==
  ASSUME State, Wire, NEW label \in (Commands \cup {"final"}) \ {"xfer"}, readResponse(label),
         cmds' = cmds, xfer' = xfer, pc' \notin InTransfer
  PROVE  Wire'
<1>1. Len(cmds) = 0 /\ Len(replies') = 0 /\ ~xfer /\ waiting' = FALSE
  BY ReadWire DEF readResponse
<1> QED BY <1>1 DEF Wire, InStep, InTransfer

(* The steps that read a reply: where they go on to, and what they leave   *)
(* as it is.                                                               *)
Reads(label) ==
  /\ readResponse(label)
  /\ cmds' = cmds /\ xfer' = xfer /\ op' = op /\ broken' = broken
  /\ srvType' = srvType /\ srvRest' = srvRest /\ started' = started
  /\ causes \subseteq causes'
  /\ currentType' = "I" => currentType = "I" \/ "typeRefused" \in causes'
  /\ CASE label = "type" -> \/ pc' = AfterType /\ Expected(200, code)
                            \/ pc' = "return"
       [] label = "rest" -> pc' = IF Expected(350, code) THEN "prepare" ELSE "return"
       [] label = "xfer" -> pc' = IF Expected(1, code) THEN "getter" ELSE "return"
       [] label = "rnfr" -> pc' \in {"rnto", "return"}
       [] label = "port" -> pc' \in {"xfer", "return"}
       [] label = "epsv" -> pc' \in {"dial", "pasv"}
       [] label = "pasv" -> pc' \in {"dial", "return"}
       [] label \in {"size", "rnto", "control", "final"} -> pc' = "return"

LEMMA ReadSteps ==
  ASSUME State,
         \/ setType \/ RestReply \/ SizeReply \/ Rename \/ ControlReply
         \/ PortReply \/ EpsvReply \/ PasvReply \/ XferReply \/ FinalReply
  PROVE  \E label \in Commands \cup {"final"} : Reads(label)
<1> USE DEF Commands
<1>1. CASE setType
  <2>1. readResponse("type") /\ causes \subseteq causes'
    BY <1>1 DEF setType
  <2> QED BY <1>1, <2>1, Unpack DEF setType, Reads
<1>2. CASE RestReply
  BY <1>2, Unpack DEF RestReply, CommandThen, Reads
<1>3. CASE SizeReply
  BY <1>3, Unpack DEF SizeReply, CommandThen, Reads
<1>4. CASE Rename
  <2>1. CASE CommandThen("rnfr", 350, "rnto")
    BY <2>1, Unpack DEF CommandThen, Reads
  <2>2. CASE CommandThen("rnto", 250, "return")
    BY <2>2, Unpack DEF CommandThen, Reads
  <2> QED BY <1>4, <2>1, <2>2 DEF Rename
<1>5. CASE ControlReply
  BY <1>5, Unpack DEF ControlReply, CommandThen, Reads
<1>6. CASE PortReply
  <2>1. readResponse("port") /\ causes \subseteq causes' /\ pc' \in {"xfer", "return"}
    BY <1>6 DEF PortReply
  <2> QED BY <1>6, <2>1, Unpack DEF PortReply, Reads
<1>7. CASE EpsvReply
  BY <1>7, Unpack DEF EpsvReply, Reads
<1>8. CASE PasvReply
  BY <1>8, Unpack DEF PasvReply, Reads
<1>9. CASE XferReply
  BY <1>9, Unpack DEF XferReply, CommandThen, Reads
<1>10. CASE FinalReply
  BY <1>10, Unpack DEF FinalReply, CommandThen, Reads
<1> QED BY <1>1, <1>2, <1>3, <1>4, <1>5, <1>6, <1>7, <1>8, <1>9, <1>10

LEMMA ReadsWire ==
  ASSUME State, Wire, NEW label \in Commands \cup {"final"}, Reads(label)
  PROVE  Wire'
<1>1. readResponse(label) /\ cmds' = cmds /\ xfer' = xfer /\ waiting' = FALSE
  BY DEF Reads, readResponse
<1>2. CASE label = "xfer"
  <2>1. code \in {150, 550} /\ pc' = IF Expected(1, code) THEN "getter" ELSE "return"
    BY <1>1, <1>2, ReadWire DEF Reads, Answers
  <2>2. pc' = IF code = 150 THEN "getter" ELSE "return"
    BY <2>1 DEF Expected
  <2>3. /\ Len(cmds) = 0
        /\ IF code = 150 THEN Len(replies') <= 1 /\ (xfer => Len(replies') = 0)
                         ELSE Len(replies') = 0 /\ ~xfer
    BY <1>1, <1>2, ReadWire
  <2> QED BY <1>1, <2>2, <2>3 DEF Wire, InStep
<1>3. CASE label # "xfer"
  <2>1. pc' \notin InTransfer
    BY <1>3 DEF Reads, AfterType, InTransfer, Commands
  <2> QED BY <1>1, <1>3, <2>1, ReadOther
<1> QED BY <1>2, <1>3

(* Close loses replies that have not reached the client's buffer.  A reply *)
(* that is lost leaves the client waiting until its deadline.              *)
LEMMA CloseWire ==
  ASSUME State, Wire, CloseControl
  PROVE  /\ Wire'
         /\ ~broken /\ pc # "xfer" /\ Len(replies') = 1
              => Len(replies) = 1 /\ replies'[1] = replies[1]
<1>0. replies \in Seq(Nat)
  BY DEF State, TypeOK
<1>1. PICK n \in 0..Len(replies) : replies' = SubSeq(replies, 1, n)
  BY DEF CloseControl
<1>2. Len(replies') = n /\ \A i \in 1..n : replies'[i] = replies[i]
  BY <1>0, <1>1
<1>3. /\ ctrl' = "closed" /\ cmds' = cmds /\ xfer' = xfer /\ pc' = pc /\ op' = op
      /\ waiting' = waiting /\ broken' = broken
  BY Unpack DEF CloseControl
<1>4. Len(replies) \in Nat /\ n \in Nat /\ n <= Len(replies)
  BY <1>0, <1>1
<1>5. ASSUME ~broken PROVE InStep' /\ (pc # "xfer" => Len(replies) <= 1)
  <2>1. InStep
    BY <1>5 DEF Wire
  <2>2. CASE pc \in InTransfer
    BY <1>2, <1>3, <1>4, <2>1, <2>2 DEF InStep, InTransfer
  <2>3. CASE pc \notin InTransfer /\ ~waiting
    BY <1>2, <1>3, <1>4, <2>1, <2>3 DEF InStep, InTransfer
  <2>4. CASE pc \notin InTransfer /\ waiting
    <3>1. Pending
      BY <2>1, <2>4 DEF InStep, InTransfer
    <3>2. Pending' /\ (pc # "xfer" => Len(replies) <= 1)
      <4>1. CASE n = 0
        BY <1>2, <1>3, <3>1, <4>1 DEF Pending
      <4>2. CASE n = 1 /\ Len(replies) = 1
        BY <1>2, <1>3, <3>1, <4>2 DEF Pending
      <4>3. CASE n > 0 /\ Len(replies) = 2
        <5>1. 150 \in Answers("xfer")
          BY DEF Answers
        <5>2. /\ Len(cmds') = 0 /\ replies'[1] = 150 /\ pc' = "xfer" /\ ~xfer'
              /\ n \in {1, 2}
          BY <1>2, <1>3, <1>4, <3>1, <4>3 DEF Pending
        <5> QED BY <1>2, <1>3, <5>1, <5>2 DEF Pending
      <4>4. Len(replies) = 0 \/ Len(replies) = 1 \/ Len(replies) = 2
        BY <3>1 DEF Pending
      <4>5. \/ n = 0 \/ (n = 1 /\ Len(replies) = 1) \/ (n > 0 /\ Len(replies) = 2)
        BY <1>4, <4>4
      <4> QED BY <4>1, <4>2, <4>3, <4>5
    <3> QED BY <1>3, <2>4, <3>2 DEF InStep, InTransfer
  <2> QED BY <2>2, <2>3, <2>4
<1>6. Wire'
  BY <1>3, <1>5 DEF Wire
<1>7. ASSUME ~broken, pc # "xfer", Len(replies') = 1
      PROVE  Len(replies) = 1 /\ replies'[1] = replies[1]
  BY <1>2, <1>4, <1>5, <1>7
<1> QED BY <1>6, <1>7

(* The server answers the command that the client waits for. *)
LEMMA AnsweredWire ==
  ASSUME State, Wire, NEW c \in [verb : Commands, op : Ops], NEW answer \in Nat,
         Answered(c, answer)
  PROVE  /\ Wire' /\ Len(cmds) = 1 /\ Len(cmds') = 0 /\ c = cmds[1]
         /\ ~broken => /\ waiting /\ c = [verb |-> pc, op |-> op]
                       /\ Len(replies') = 1 /\ replies'[1] = answer
<1>0. replies \in Seq(Nat) /\ cmds \in Seq([verb : Commands, op : Ops]) /\ Len(cmds) \in Nat
  BY DEF State, TypeOK
<1>1. /\ ctrl = "open" /\ ~xfer /\ c = cmds[1] /\ Len(cmds) > 0
      /\ answer \in Answers(c.verb) /\ Len(cmds') = Len(cmds) - 1
      /\ replies' = Append(replies, answer) /\ xfer' = (answer = 150)
  BY DEF Answered
<1>2. pc' = pc /\ op' = op /\ waiting' = waiting /\ broken' = broken /\ ctrl' = ctrl
  BY Unpack DEF Answered
<1>3. Len(cmds) = 1 /\ Len(cmds') = 0
  BY <1>0, <1>1 DEF Wire
<1>4. ASSUME ~broken
      PROVE  /\ waiting /\ c = [verb |-> pc, op |-> op] /\ pc \notin InTransfer
             /\ Len(replies') = 1 /\ replies'[1] = answer
  <2>1. InStep
    BY <1>4 DEF Wire
  <2>2. pc \notin InTransfer /\ waiting /\ Pending
    BY <1>3, <2>1 DEF InStep, InTransfer
  <2>3. Len(replies) = 0 /\ cmds[1] = [verb |-> pc, op |-> op]
    BY <1>3, <2>2 DEF Pending
  <2>4. Len(replies') = 1 /\ replies'[1] = answer
    BY <1>0, <1>1, <2>3
  <2> QED BY <1>1, <2>2, <2>3, <2>4
<1>5. ASSUME ~broken PROVE InStep'
  <2>1. c.verb = pc
    BY <1>4, <1>5
  <2>2. replies'[1] \in Answers(pc)
    BY <1>1, <1>4, <1>5, <2>1
  <2>3. Pending'
    BY <1>1, <1>2, <1>3, <1>4, <1>5, <2>2 DEF Pending
  <2> QED BY <1>2, <1>4, <1>5, <2>3 DEF InStep, InTransfer
<1>6. Wire'
  BY <1>2, <1>3, <1>5 DEF Wire
<1> QED BY <1>1, <1>3, <1>4, <1>6

(* The completion reply of a transfer, which is the only one owed. *)
LEMMA CompletesWire ==
  ASSUME State, Wire, ServerCompletes
  PROVE  Wire' /\ (~broken => pc \in InTransfer \cup {"xfer"})
<1>0. replies \in Seq(Nat) /\ Routes
  BY DEF State, TypeOK
<1>1. PICK answer \in {226, 426} : replies' = Append(replies, answer)
  BY DEF ServerCompletes
<1>2. /\ ctrl = "open" /\ xfer /\ xfer' = FALSE /\ pc' = pc /\ op' = op
      /\ waiting' = waiting /\ broken' = broken /\ ctrl' = ctrl /\ cmds' = cmds
  BY Unpack DEF ServerCompletes
<1>3. Len(replies') = Len(replies) + 1 /\ (Len(replies) > 0 => replies'[1] = replies[1])
      /\ Len(replies) \in Nat
  BY <1>0, <1>1
<1>4. ASSUME ~broken PROVE InStep' /\ pc \in InTransfer \cup {"xfer"}
  <2>1. InStep
    BY <1>4 DEF Wire
  <2>2. CASE pc \in InTransfer
    BY <1>2, <1>3, <2>1, <2>2 DEF InStep, InTransfer
  <2>3. CASE pc \notin InTransfer
    <3>1. waiting /\ Pending
      BY <1>2, <2>1, <2>3 DEF InStep, InTransfer
    <3>2. Len(cmds) = 0 /\ Len(replies) = 1 /\ replies[1] = 150 /\ 150 \in Answers(pc)
      BY <1>2, <3>1 DEF Pending
    <3>3. pc = "xfer"
      BY <1>0, <3>1, <3>2, Answers150 DEF Routes
    <3>4. Pending'
      BY <1>2, <1>3, <3>2, <3>3 DEF Pending
    <3> QED BY <1>2, <2>3, <3>1, <3>3, <3>4 DEF InStep, InTransfer
  <2> QED BY <2>2, <2>3
<1> QED BY <1>2, <1>4 DEF Wire

-----------------------------------------------------------------------------
(* The representation type                                                 *)

LEMMA TypeSetKept ==
  ASSUME TypeSet, started' = started, srvType' = srvType, cmds' = cmds,
         currentType' = "I" => broken',
         op'.kind = "file" /\ pc' \in PastType => srvType = "I",
         pc' = "type" /\ waiting' /\ Len(replies') = 1 /\ replies'[1] = 200 => srvType = "I"
  PROVE  TypeSet'
BY DEF TypeSet

LEMMA QuietType ==
  ASSUME TypeSet, Quiet, "getterFailed" \notin causes'
  PROVE  TypeSet'
<1>1. /\ started' = started /\ srvType' = srvType /\ cmds' = cmds /\ replies' = replies
      /\ currentType' = "I" => broken'
  BY DEF Quiet, TypeSet
<1>2. CASE Stays
  BY <1>1, <1>2, TypeSetKept DEF Stays, TypeSet
<1>3. CASE GivesUp
  BY <1>1, <1>3, TypeSetKept DEF GivesUp, PastType
<1>4. CASE Moves
  <2>1. op'.kind = "file" /\ pc' \in PastType => srvType = "I"
    BY <1>4 DEF Moves, TypeSet, PastType
  <2>2. ~waiting'
    BY <1>4 DEF Moves
  <2> QED BY <1>1, <2>1, <2>2, TypeSetKept
<1>5. CASE Copies
  BY <1>1, <1>5, TypeSetKept DEF Copies, TypeSet, PastType, InTransfer
<1> QED BY <1>2, <1>3, <1>4, <1>5 DEF Quiet

(* setType goes on only after the server's 200. *)
LEMMA ReadsType ==
  ASSUME State, Wire, TypeSet, NEW label \in Commands \cup {"final"}, Reads(label),
         "typeRefused" \notin causes'
  PROVE  TypeSet'
<1>1. /\ started' = started /\ srvType' = srvType /\ cmds' = cmds /\ op' = op
      /\ currentType' = "I" => broken'
      /\ readResponse(label) /\ pc = label /\ waiting' = FALSE
  BY DEF Reads, TypeSet, readResponse
<1>2. ASSUME op'.kind = "file", pc' \in PastType PROVE srvType = "I"
  <2>1. CASE label = "type"
    <3>1. Expected(200, code) /\ waiting /\ Len(replies) = 1
      BY <1>1, <1>2, <2>1, ReadWire DEF Reads, PastType, readResponse, Commands
    <3>2. code = replies[1]
      BY <1>1, ReplyRead DEF State
    <3>3. replies[1] = 200
      BY <3>1, <3>2 DEF Expected
    <3> QED BY <1>1, <2>1, <3>1, <3>3 DEF TypeSet
  <2>2. CASE label # "type"
    <3>1. label \in PastType
      BY <1>1, <1>2, <2>2 DEF Reads, PastType, Commands
    <3> QED BY <1>1, <1>2, <3>1 DEF TypeSet
  <2> QED BY <2>1, <2>2
<1> QED BY <1>1, <1>2, TypeSetKept

LEMMA SendType ==
  ASSUME State, Wire, TypeSet, sendCommand
  PROVE  TypeSet'
<1>1. /\ Len(replies) = 0 /\ Len(cmds') = 1 /\ cmds'[1] = [verb |-> pc, op |-> op]
  BY SendWire
<1>2. /\ started' = started /\ srvType' = srvType /\ op' = op /\ pc' = pc
      /\ currentType' = currentType /\ broken' = broken /\ replies' = replies
  BY Unpack DEF sendCommand
<1>3. pc = "xfer" /\ op.kind # "list" => srvType = "I"
  BY DEF TypeSet, State, Routes, PastType
<1>4. cmds'[1].verb = pc /\ cmds'[1].op = op
  BY <1>1
<1> QED BY <1>1, <1>2, <1>3, <1>4 DEF TypeSet

LEMMA CloseType ==
  ASSUME State, Wire, TypeSet, CloseControl
  PROVE  TypeSet'
<1>1. /\ started' = started /\ srvType' = srvType /\ op' = op /\ pc' = pc /\ waiting' = waiting
      /\ currentType' = currentType /\ broken' = broken /\ cmds' = cmds
  BY Unpack DEF CloseControl
<1>2. ASSUME pc = "type", waiting, Len(replies') = 1, replies'[1] = 200 PROVE srvType = "I"
  <2>1. ~broken
    BY <1>2 DEF State, Routes
  <2>2. Len(replies) = 1 /\ replies'[1] = replies[1]
    BY <1>2, <2>1, CloseWire
  <2> QED BY <1>2, <2>2 DEF TypeSet
<1> QED BY <1>1, <1>2, TypeSetKept DEF TypeSet

LEMMA CompletesType ==
  ASSUME State, Wire, TypeSet, ServerCompletes
  PROVE  TypeSet'
<1>1. /\ started' = started /\ srvType' = srvType /\ op' = op /\ pc' = pc /\ waiting' = waiting
      /\ currentType' = currentType /\ broken' = broken /\ cmds' = cmds
  BY Unpack DEF ServerCompletes
<1>2. pc # "type"
  BY CompletesWire DEF State, Routes, InTransfer
<1> QED BY <1>1, <1>2, TypeSetKept DEF TypeSet

LEMMA AnsweredType ==
  ASSUME State, Wire, TypeSet, NEW c \in [verb : Commands, op : Ops], NEW answer \in Nat,
         Answered(c, answer)
  PROVE  TypeSet'
<1>1. /\ op' = op /\ pc' = pc /\ waiting' = waiting
      /\ currentType' = currentType /\ broken' = broken
  BY Unpack DEF Answered
<1>2. /\ Len(cmds) = 1 /\ Len(cmds') = 0 /\ c = cmds[1]
      /\ ~broken => c = [verb |-> pc, op |-> op] /\ replies'[1] = answer
  BY AnsweredWire
<1>3. srvType' \in {"I", srvType} /\ (c.verb = "type" /\ answer = 200 => srvType' = "I")
  BY DEF Answered
<1>4. c.verb = "xfer" /\ c.op.kind # "list" => srvType = "I"
  BY <1>2 DEF TypeSet
<1>5. started'.type = "I"
  <2>1. \/ started' = started
        \/ srvType = "I" /\ started' = [type |-> srvType, at |-> srvRest, wanted |-> c.op.offset]
    BY <1>4 DEF Answered
  <2> QED BY <2>1 DEF TypeSet
<1>6. ASSUME pc = "type", waiting, replies'[1] = 200 PROVE srvType' = "I"
  <2>1. ~broken
    BY <1>6 DEF State, Routes
  <2> QED BY <1>2, <1>3, <1>6, <2>1
<1> QED BY <1>1, <1>2, <1>3, <1>5, <1>6 DEF TypeSet

-----------------------------------------------------------------------------
(* The restart marker                                                      *)

LEMMA MarkerSetKept ==
  ASSUME MarkerSet, started' = started, srvRest' = srvRest, cmds' = cmds,
         pc' = "rest" /\ waiting' /\ Len(replies') = 1 /\ replies'[1] = 350
           => srvRest = op'.offset,
         MarkerDue' => (op'.kind = "file" /\ op'.offset > 0 => srvRest = op'.offset)
  PROVE  MarkerSet'
BY DEF MarkerSet, MarkerDue

LEMMA QuietMarker ==
  ASSUME State, MarkerSet, Quiet, "getterFailed" \notin causes'
  PROVE  MarkerSet'
<1>1. started' = started /\ srvRest' = srvRest /\ cmds' = cmds /\ replies' = replies
  BY DEF Quiet
<1>2. CASE Stays
  BY <1>1, <1>2, MarkerSetKept DEF Stays, MarkerSet, MarkerDue
<1>3. CASE GivesUp
  BY <1>1, <1>3, MarkerSetKept DEF GivesUp, MarkerDue
<1>4. CASE Moves
  <2>1. MarkerDue' => (op'.kind = "file" /\ op'.offset > 0 => srvRest = op'.offset)
    BY <1>4 DEF Moves, MarkerSet, MarkerDue
  <2>2. ~waiting'
    BY <1>4 DEF Moves
  <2> QED BY <1>1, <2>1, <2>2, MarkerSetKept
<1>5. CASE Copies
  BY <1>1, <1>5, MarkerSetKept DEF Copies, MarkerDue, InTransfer
<1> QED BY <1>2, <1>3, <1>4, <1>5 DEF Quiet

(* The transfer is prepared only after the server's 350 to REST, or when   *)
(* it starts at the beginning.                                             *)
LEMMA ReadsMarker ==
  ASSUME State, Wire, MarkerSet, NEW label \in Commands \cup {"final"}, Reads(label)
  PROVE  MarkerSet'
<1>1. /\ started' = started /\ srvRest' = srvRest /\ cmds' = cmds /\ op' = op
      /\ readResponse(label) /\ pc = label /\ waiting' = FALSE
  BY DEF Reads, readResponse
<1>2. ASSUME MarkerDue', op.kind = "file", op.offset > 0 PROVE srvRest = op.offset
  <2>1. CASE label = "rest"
    <3>1. Expected(350, code) /\ waiting /\ Len(replies) = 1
      BY <1>1, <1>2, <2>1, ReadWire, ZenonT(60) DEF Reads, MarkerDue, readResponse, Commands
    <3>2. code = replies[1]
      BY <1>1, ReplyRead DEF State
    <3>3. replies[1] = 350
      BY <3>1, <3>2 DEF Expected
    <3> QED BY <1>1, <2>1, <3>1, <3>3 DEF MarkerSet
  <2>2. CASE label = "type"
    BY <1>1, <1>2, <2>2 DEF Reads, MarkerDue, AfterType
  <2>3. CASE label \notin {"rest", "type"}
    <3>1. label \in {"epsv", "pasv", "port"}
      BY <1>1, <1>2, <2>3 DEF Reads, MarkerDue, Commands
    <3> QED BY <1>1, <1>2, <3>1 DEF MarkerSet, MarkerDue
  <2> QED BY <2>1, <2>2, <2>3
<1> QED BY <1>1, <1>2, MarkerSetKept

LEMMA SendMarker ==
  ASSUME State, Wire, MarkerSet, sendCommand
  PROVE  MarkerSet'
<1>1. /\ Len(replies) = 0 /\ Len(cmds') = 1 /\ cmds'[1] = [verb |-> pc, op |-> op]
  BY SendWire
<1>2. /\ started' = started /\ srvRest' = srvRest /\ op' = op /\ pc' = pc
      /\ replies' = replies /\ ~waiting /\ waiting' = TRUE
  BY Unpack DEF sendCommand
<1>3. pc = "xfer" /\ op.kind # "list" => (op.offset > 0 => srvRest = op.offset)
  BY <1>2 DEF MarkerSet, MarkerDue, State, Routes, PastType
<1>4. cmds'[1].verb = pc /\ cmds'[1].op = op
  BY <1>1
<1>5. MarkerDue' => MarkerDue
  BY <1>2 DEF MarkerDue
<1> QED BY <1>1, <1>2, <1>3, <1>4, <1>5 DEF MarkerSet, MarkerDue

LEMMA CloseMarker ==
  ASSUME State, Wire, MarkerSet, CloseControl
  PROVE  MarkerSet'
<1>1. /\ started' = started /\ srvRest' = srvRest /\ op' = op /\ pc' = pc
      /\ waiting' = waiting /\ cmds' = cmds
  BY Unpack DEF CloseControl
<1>2. ASSUME pc = "rest", waiting, Len(replies') = 1, replies'[1] = 350
      PROVE  srvRest = op.offset
  <2>1. ~broken
    BY <1>2 DEF State, Routes
  <2>2. Len(replies) = 1 /\ replies'[1] = replies[1]
    BY <1>2, <2>1, CloseWire
  <2> QED BY <1>2, <2>2 DEF MarkerSet
<1> QED BY <1>1, <1>2, MarkerSetKept DEF MarkerSet, MarkerDue

LEMMA CompletesMarker ==
  ASSUME State, Wire, MarkerSet, ServerCompletes
  PROVE  MarkerSet'
<1>1. /\ started' = started /\ srvRest' = srvRest /\ op' = op /\ pc' = pc
      /\ waiting' = waiting /\ cmds' = cmds
  BY Unpack DEF ServerCompletes
<1>2. pc # "rest"
  BY CompletesWire DEF State, Routes, InTransfer
<1> QED BY <1>1, <1>2, MarkerSetKept DEF MarkerSet, MarkerDue

LEMMA AnsweredMarker ==
  ASSUME State, Wire, MarkerSet, NEW c \in [verb : Commands, op : Ops], NEW answer \in Nat,
         Answered(c, answer)
  PROVE  MarkerSet'
<1>1. op' = op /\ pc' = pc /\ waiting' = waiting /\ broken' = broken
  BY Unpack DEF Answered
<1>2. /\ Len(cmds) = 1 /\ Len(cmds') = 0 /\ c = cmds[1]
      /\ ~broken => /\ waiting /\ c.verb = pc /\ c.op = op /\ replies'[1] = answer
  BY AnsweredWire
<1>3. /\ c.verb = "rest" /\ answer = 350 => srvRest' = c.op.offset
      /\ c.verb \notin {"rest", "xfer"} => srvRest' = srvRest
  BY DEF Answered
<1>4. started'.wanted > 0 => started'.at = started'.wanted
  <2>1. CASE started' = started
    BY <2>1 DEF MarkerSet
  <2>2. CASE started' # started
    <3>1. /\ c.verb = "xfer" /\ c.op.kind # "list"
          /\ started' = [type |-> srvType, at |-> srvRest, wanted |-> c.op.offset]
      BY <2>2 DEF Answered
    <3>2. c.op.offset > 0 => srvRest = c.op.offset
      BY <1>2, <3>1 DEF MarkerSet
    <3> QED BY <3>1, <3>2
  <2> QED BY <2>1, <2>2
<1>5. ASSUME pc = "rest", waiting, replies'[1] = 350 PROVE srvRest' = op.offset
  <2>1. ~broken
    BY <1>5 DEF State, Routes
  <2> QED BY <1>2, <1>3, <1>5, <2>1
<1>6. ASSUME MarkerDue, op.kind = "file", op.offset > 0 PROVE srvRest' = op.offset
  <2>1. ~broken
    BY <1>6 DEF State, Routes, MarkerDue
  <2>2. c.verb \notin {"rest", "xfer"}
    BY <1>2, <1>6, <2>1 DEF MarkerDue
  <2> QED BY <1>3, <1>6, <2>2 DEF MarkerSet, MarkerDue
<1>7. MarkerDue' => MarkerDue
  BY <1>1 DEF MarkerDue
<1> QED BY <1>1, <1>2, <1>4, <1>5, <1>6, <1>7 DEF MarkerSet, MarkerDue

(* A marker that no operation has left is the operation's own, and only a  *)
(* transfer from its offset finds it.                                      *)
LEMMA MarkerUsedKept ==
  ASSUME MarkerUsed, started' = started, srvRest' = srvRest, cmds' = cmds,
         broken => broken', broken' \/ (op' = op /\ pc' # "idle") \/ srvRest = 0
                                   \/ (op' = op /\ pc' = pc)
  PROVE  MarkerUsed'
BY DEF MarkerUsed

LEMMA QuietUsed ==
  ASSUME State, MarkerUsed, Quiet,
         "getterFailed" \notin causes', "markerLeft" \notin causes'
  PROVE  MarkerUsed'
<1>1. /\ started' = started /\ srvRest' = srvRest /\ cmds' = cmds /\ (broken => broken')
      /\ pc' = "idle" => pc = "idle" \/ srvRest = 0
  BY DEF Quiet
<1>2. CASE Stays
  BY <1>1, <1>2, MarkerUsedKept DEF Stays
<1>3. CASE GivesUp
  BY <1>1, <1>3, MarkerUsedKept DEF GivesUp
<1>4. CASE Moves
  <2>1. pc = "idle" => srvRest = 0
    BY <1>4 DEF Moves, MarkerUsed
  <2>2. srvRest = 0 \/ (op' = op /\ pc' # "idle")
    BY <1>1, <1>4, <2>1 DEF Moves
  <2> QED BY <1>1, <2>2, MarkerUsedKept
<1>5. CASE Copies
  BY <1>1, <1>5, MarkerUsedKept DEF Copies, InTransfer
<1> QED BY <1>2, <1>3, <1>4, <1>5 DEF Quiet

LEMMA ReadsUsed ==
  ASSUME MarkerUsed, NEW label \in Commands \cup {"final"}, Reads(label)
  PROVE  MarkerUsed'
<1>1. /\ started' = started /\ srvRest' = srvRest /\ cmds' = cmds /\ op' = op
      /\ broken' = broken
  BY DEF Reads
<1>2. pc' # "idle"
  BY DEF Reads, AfterType, Commands
<1> QED BY <1>1, <1>2, MarkerUsedKept

LEMMA SendUsed ==
  ASSUME State, Wire, MarkerSet, MarkerUsed, sendCommand
  PROVE  MarkerUsed'
<1>1. Len(cmds') = 1 /\ cmds'[1] = [verb |-> pc, op |-> op]
  BY SendWire
<1>2. /\ started' = started /\ srvRest' = srvRest /\ op' = op /\ pc' = pc
      /\ broken' = broken /\ ~waiting /\ pc \in Commands
  BY Unpack DEF sendCommand
<1>3. op \in Ops /\ ~broken /\ (pc = "xfer" /\ op.kind # "list" => op.kind = "file")
  BY <1>2 DEF State, TypeOK, Routes, PastType, Commands
<1>4. op.offset \in Nat
  BY <1>3, SessionAssumption DEF Ops
<1>5. pc = "xfer" /\ op.kind # "list" => srvRest = op.offset
  BY <1>2, <1>3, <1>4 DEF MarkerSet, MarkerDue, MarkerUsed
<1>6. cmds'[1].verb = pc /\ cmds'[1].op = op
  BY <1>1
<1> QED BY <1>1, <1>2, <1>5, <1>6 DEF MarkerUsed

LEMMA AnsweredUsed ==
  ASSUME State, Wire, MarkerUsed, NEW c \in [verb : Commands, op : Ops], NEW answer \in Nat,
         Answered(c, answer)
  PROVE  MarkerUsed'
<1>1. op' = op /\ pc' = pc /\ broken' = broken
  BY Unpack DEF Answered
<1>2. /\ Len(cmds) = 1 /\ Len(cmds') = 0 /\ c = cmds[1]
      /\ ~broken => c.verb = pc /\ c.op = op
  BY AnsweredWire
<1>3. c.op.offset \in Nat
  BY SessionAssumption DEF Ops
<1>4. started'.at = started'.wanted
  <2>1. CASE started' = started
    BY <2>1 DEF MarkerUsed
  <2>2. CASE started' # started
    <3>1. /\ c.verb = "xfer" /\ c.op.kind # "list"
          /\ started' = [type |-> srvType, at |-> srvRest, wanted |-> c.op.offset]
      BY <2>2 DEF Answered
    <3>2. srvRest = c.op.offset
      BY <1>2, <3>1 DEF MarkerUsed
    <3> QED BY <3>1, <3>2
  <2> QED BY <2>1, <2>2
<1>5. srvRest' = 0 \/ srvRest' = srvRest \/ (c.verb = "rest" /\ srvRest' = c.op.offset)
  BY DEF Answered
<1>6. ~broken /\ srvRest' # 0 => op.offset > 0 /\ pc # "idle"
  BY <1>2, <1>3, <1>5 DEF MarkerUsed
<1> QED BY <1>1, <1>2, <1>4, <1>6 DEF MarkerUsed

-----------------------------------------------------------------------------
(* The theorems                                                            *)

(* The next step, sorted by what it does to the wire. *)
LEMMA NextCases ==
  ASSUME State, Next
  PROVE  \/ Quiet \/ sendCommand \/ CloseControl \/ ServerCompletes
         \/ \E label \in Commands \cup {"final"} : Reads(label)
         \/ \E c \in [verb : Commands, op : Ops], answer \in Nat : Answered(c, answer)
<1>1. PeerTypes
  BY StateParts
<1>2. CASE ServerAnswers
  BY <1>1, <1>2, AnswerStep
<1>3. CASE \/ setType \/ RestReply \/ SizeReply \/ Rename \/ ControlReply
           \/ PortReply \/ EpsvReply \/ PasvReply \/ XferReply \/ FinalReply
  BY <1>3, ReadSteps
<1>4. CASE \/ \E o \in Ops : BeginOp(o)
           \/ IOFails \/ TypeAlreadySet \/ Listen \/ requestPassive \/ DialData
           \/ AcceptData \/ HandshakeData \/ CopyEnds \/ CopyFails \/ Return \/ Discard
           \/ CloseData
  BY <1>4, QuietSteps
<1> QED BY <1>2, <1>3, <1>4, Zenon DEF Next, ClientStep

(* Mishaps are not forgotten. *)
LEMMA CausesGrow ==
  ASSUME State, Next
  PROVE  causes \subseteq causes'
<1>1. ASSUME NEW label, Reads(label) PROVE causes \subseteq causes'
  BY <1>1 DEF Reads
<1>2. ASSUME NEW c, NEW answer, Answered(c, answer) PROVE causes \subseteq causes'
  BY <1>2 DEF Answered
<1>3. CASE sendCommand \/ CloseControl \/ ServerCompletes
  BY <1>3 DEF sendCommand, CloseControl, ServerCompletes
<1>4. CASE Quiet
  BY <1>4 DEF Quiet
<1> QED BY <1>1, <1>2, <1>3, <1>4, NextCases

LEMMA StepIInv == IInv /\ [Next]_vars => IInv'
<1> SUFFICES ASSUME IInv, [Next]_vars PROVE IInv'
  OBVIOUS
<1>1. State /\ State'
  BY StepState DEF IInv, State
<1>2. CASE UNCHANGED vars
  <2>1. UNCHANGED <<client, closing, server, wire, causes>>
    BY <1>2 DEF vars
  <2> QED BY <1>1, <2>1, Unpack DEF IInv, State, Wire, InStep, Pending, TypeSet, MarkerSet,
                                   MarkerDue, MarkerUsed
<1>3. CASE Next
  <2> SUFFICES ASSUME "getterFailed" \notin causes'
               PROVE  /\ Wire'
                      /\ "typeRefused" \notin causes' => TypeSet'
                      /\ MarkerSet'
                      /\ "markerLeft" \notin causes' => MarkerUsed'
    BY <1>1 DEF IInv, State
  <2>1. causes \subseteq causes'
    BY <1>1, <1>3, CausesGrow
  <2>2. /\ Wire /\ MarkerSet
        /\ "typeRefused" \notin causes' => TypeSet
        /\ "markerLeft" \notin causes' => MarkerUsed
    BY <2>1 DEF IInv
  <2>3. CASE Quiet
    BY <1>1, <2>2, <2>3, QuietWire, QuietType, QuietMarker, QuietUsed
  <2>4. CASE sendCommand
    BY <1>1, <2>2, <2>4, SendWire, SendType, SendMarker, SendUsed
  <2>5. ASSUME NEW label \in Commands \cup {"final"}, Reads(label)
        PROVE  /\ Wire' /\ MarkerSet' /\ ("typeRefused" \notin causes' => TypeSet')
               /\ "markerLeft" \notin causes' => MarkerUsed'
    BY <1>1, <2>2, <2>5, ReadsWire, ReadsType, ReadsMarker, ReadsUsed
  <2>6. CASE CloseControl
    <3>1. "markerLeft" \notin causes' => MarkerUsed'
      BY <2>2, <2>6, MarkerUsedKept, Unpack DEF CloseControl
    <3> QED BY <1>1, <2>2, <2>6, <3>1, CloseWire, CloseType, CloseMarker
  <2>7. CASE ServerCompletes
    <3>1. "markerLeft" \notin causes' => MarkerUsed'
      BY <2>2, <2>7, MarkerUsedKept, Unpack DEF ServerCompletes
    <3> QED BY <1>1, <2>2, <2>7, <3>1, CompletesWire, CompletesType, CompletesMarker
  <2>8. ASSUME NEW c \in [verb : Commands, op : Ops], NEW answer \in Nat, Answered(c, answer)
        PROVE  /\ Wire' /\ MarkerSet' /\ ("typeRefused" \notin causes' => TypeSet')
               /\ "markerLeft" \notin causes' => MarkerUsed'
    BY <1>1, <2>2, <2>8, AnsweredWire, AnsweredType, AnsweredMarker,
         AnsweredUsed
  <2> QED BY <1>1, <1>3, <2>3, <2>4, <2>5, <2>6, <2>7, <2>8, NextCases
<1> QED BY <1>2, <1>3

LEMMA InitIInv == Init => IInv
<1> SUFFICES ASSUME Init PROVE IInv
  OBVIOUS
<1>1. State
  BY InitState
<1>2. Len(cmds) = 0 /\ Len(replies) = 0 /\ ~xfer /\ pc = "idle" /\ ~waiting
  BY DEF Init
<1>3. Wire
  BY <1>2 DEF Wire, InStep
<1>4. TypeSet
  BY <1>2 DEF Init, TypeSet, PastType
<1>5. MarkerSet
  BY <1>2 DEF Init, MarkerSet, MarkerDue
<1>6. MarkerUsed
  BY <1>2 DEF Init, MarkerUsed
<1> QED BY <1>1, <1>3, <1>4, <1>5, <1>6 DEF IInv, State

(* The inductive invariant holds in every reachable state. *)
THEOREM SessionInvariant == Spec => []IInv
BY InitIInv, StepIInv, PTL DEF Spec

(* Every variable of the connection keeps its type, and an armed abort     *)
(* always has something to close.                                          *)
THEOREM SessionTypes == Spec => []TypeOK
<1>1. IInv => TypeOK
  BY DEF IInv
<1> QED BY <1>1, SessionInvariant, PTL

(* An operation that is over leaves no data socket open, on any path, and  *)
(* a listener only if listenActive failed after it had opened it.          *)
THEOREM SessionDataReleased == Spec => []DataReleased
<1>1. IInv => DataReleased
  BY DEF IInv, DataReleased, TypeOK, Releases
<1> QED BY <1>1, SessionInvariant, PTL

(* A connection that goes back to the pool as sound owes no reply, unless  *)
(* a getter has failed on it: whatever else happens, the next operation    *)
(* reads the answers to its own commands.                                  *)
THEOREM SessionCleanReturn == Spec => []CleanReturnUnlessGetterFailed
<1>1. IInv => CleanReturnUnlessGetterFailed
  <2> SUFFICES ASSUME IInv, "getterFailed" \notin causes, pc = "idle", ~broken
               PROVE  NothingOwed
    BY DEF CleanReturnUnlessGetterFailed, CleanReturn
  <2>1. Len(cmds) = 0 /\ Len(replies) = 0 /\ ~xfer
    BY DEF IInv, Wire, InStep, Routes, Commands
  <2>2. cmds \in Seq([verb : Commands, op : Ops]) /\ replies \in Seq(Nat)
    BY DEF IInv, TypeOK
  <2> QED BY <2>1, <2>2 DEF NothingOwed
<1> QED BY <1>1, SessionInvariant, PTL

(* Every file is transferred in image type as long as the server has not   *)
(* refused TYPE on this connection and no getter has failed.               *)
THEOREM SessionImage == Spec => []ImageUnlessTypeRefused
<1>1. IInv => ImageUnlessTypeRefused
  BY DEF IInv, ImageUnlessTypeRefused, ImageTransfers, TypeSet
<1> QED BY <1>1, SessionInvariant, PTL

(* A transfer starts at the offset the client wanted, unless a getter has  *)
(* failed on this connection: a resumed one always, one from the beginning *)
(* unless an operation has left a marker behind.                           *)
THEOREM SessionResumes == Spec => []ResumesAtOffset
<1>1. IInv => ResumesAtOffset
  <2> SUFFICES ASSUME IInv, "getterFailed" \notin causes
               PROVE  \/ started.at = started.wanted
                      \/ started.wanted = 0 /\ "markerLeft" \in causes
    BY DEF ResumesAtOffset
  <2>1. started \in [type : {"A", "I"}, at : Offsets, wanted : Offsets]
    BY DEF IInv, TypeOK
  <2>2. started.wanted \in Nat
    BY <2>1, SessionAssumption
  <2> QED BY <2>2 DEF IInv, MarkerSet, MarkerUsed
<1> QED BY <1>1, SessionInvariant, PTL

(* Nothing is written to a control connection that is marked as broken. *)
THEOREM SessionNothingSent == Spec => NothingSentOnceBroken
<1>1. IInv /\ [Next]_vars => [broken => Len(cmds') <= Len(cmds)]_vars
  <2> SUFFICES ASSUME IInv, Next, broken PROVE Len(cmds') <= Len(cmds)
    OBVIOUS
  <2>1. State /\ Len(cmds) \in Nat /\ Routes
    BY DEF IInv, State, TypeOK
  <2>2. ~sendCommand
    BY <2>1 DEF sendCommand, Routes, Commands
  <2>3. CASE Quiet
    BY <2>1, <2>3 DEF Quiet
  <2>4. CASE CloseControl \/ ServerCompletes
    BY <2>1, <2>4 DEF CloseControl, ServerCompletes
  <2>5. ASSUME NEW label, Reads(label) PROVE Len(cmds') <= Len(cmds)
    BY <2>1, <2>5 DEF Reads
  <2>6. ASSUME NEW c, NEW answer, Answered(c, answer) PROVE Len(cmds') <= Len(cmds)
    BY <2>1, <2>6 DEF Answered
  <2> QED BY <2>1, <2>2, <2>3, <2>4, <2>5, <2>6, NextCases
<1> QED BY <1>1, SessionInvariant, PTL DEF Spec, NothingSentOnceBroken
=============================================================================
