------------------------------- MODULE Session -------------------------------
(***************************************************************************)
(* One control connection (persistentConn) and the operations that use it  *)
(* one after another, from the moment getIdleConn hands it out to the      *)
(* deferred returnConn: commands and their replies, TYPE, REST, passive    *)
(* and active data connections, the copy and the completion reply.         *)
(*                                                                         *)
(* The server is external: it answers the commands in order, and a         *)
(* transfer it has accepted answers twice.  Client.Close runs on another   *)
(* goroutine, and nothing in persistentConn is locked against it.          *)
(***************************************************************************)
EXTENDS Integers, Sequences

CONSTANTS
  Offsets,   \* offsets of RetrieveFrom and of resumed transfers
  MaxStale   \* bound: commands and replies in flight when an operation starts

ASSUME SessionAssumption ==
  /\ Offsets \subseteq Nat /\ 0 \in Offsets
  /\ MaxStale \in Nat

VARIABLES
  config,            \* Config.ActiveTransfers, and whether TLSConfig is set
  ctrl,              \* the control socket: "open" or "closed"
  broken,            \* persistentConn.broken
  currentType,       \* persistentConn.currentType
  epsvNotSupported,  \* persistentConn.epsvNotSupported
  dataConn,          \* persistentConn.dataConn is this operation's connection
  closer,            \* Client.Close: "none", "data" (between its two closes), "done"
  op,                \* the operation that has the connection
  pc,                \* where it is; a member of Commands is a call of sendCommand
  waiting,           \* the command has been written, its reply not yet read
  listener,          \* the active-mode listener
  dc,                \* the data socket of this operation
  abort,             \* prepareDataConn's abort: not there, armed, or a no-op
  cmds,              \* commands on their way to the server
  replies,           \* reply codes on their way to the client
  xfer,              \* the server runs a transfer it has acknowledged
  srvType,           \* the server's representation type
  srvRest,           \* the server's restart marker
  started,           \* the last transfer the server started
  causes             \* mishaps so far that the code does not recover from

client == <<broken, currentType, epsvNotSupported, op, pc, waiting>>
sockets == <<dataConn, listener, dc, abort>>
closing == <<ctrl, closer>>
server == <<xfer, srvType, srvRest, started>>
wire == <<cmds, replies>>
vars == <<config, client, sockets, closing, server, wire, causes>>

Kinds == {"file", "list", "size", "rename", "control"}

Ops == [kind : Kinds, offset : Offsets]

Commands == {"type", "rest", "epsv", "pasv", "port", "xfer",
             "size", "rnfr", "rnto", "control"}

Labels == Commands \cup {"idle", "prepare", "dial", "getter", "copy", "final",
                         "return", "gone"}

Mishaps == {"getterFailed", "typeRefused", "listenerLost", "markerLeft"}

(* sendCommandExpected's test: the two reply groups, or one exact code. *)
Expected(expected, code) ==
  IF expected \in {1, 2} THEN code \div 100 = expected ELSE code = expected

-----------------------------------------------------------------------------
(* The operations                                                          *)

(* Faulty: transfers a file without setting its type. *)
BeginWithoutType(o) ==
  /\ pc = "idle" /\ ~broken
  /\ Len(cmds) + Len(replies) <= MaxStale
  /\ o.kind = "file"
  /\ op' = o
  /\ pc' = IF o.offset > 0 THEN "rest" ELSE "prepare"
  /\ UNCHANGED <<config, broken, currentType, epsvNotSupported, waiting,
                 sockets, closing, server, wire, causes>>

(* getIdleConn hands the connection, which is not broken, to an operation. *)
(* Delete, Mkdir, Rmdir, Getwd and the MLST commands are all "control".    *)
BeginOp(o) ==
  /\ pc = "idle" /\ ~broken
  /\ Len(cmds) + Len(replies) <= MaxStale
  /\ o.kind # "file" => o.offset = 0
  /\ op' = o
  /\ pc' = CASE o.kind \in {"file", "size"} -> "type"
             [] o.kind = "list" -> "prepare"
             [] o.kind = "rename" -> "rnfr"
             [] o.kind = "control" -> "control"
  /\ UNCHANGED <<config, broken, currentType, epsvNotSupported, waiting,
                 sockets, closing, server, wire, causes>>

(* sendCommand writes the command the operation has come to. *)
sendCommand ==
  /\ pc \in Commands /\ ~waiting
  /\ pc = "type" => currentType # "I"
  /\ ctrl = "open"
  /\ cmds' = Append(cmds, [verb |-> pc, op |-> op])
  /\ waiting' = TRUE
  /\ UNCHANGED <<config, broken, currentType, epsvNotSupported, op, pc, sockets,
                 closing, server, replies, causes>>

(* Faulty: a read that times out leaves the connection usable. *)
IOFailsUnnoticed ==
  /\ pc \in Commands \cup {"final"}
  /\ pc = "type" => currentType # "I"
  /\ waiting' = FALSE
  /\ pc' = "return"
  /\ UNCHANGED <<config, broken, currentType, epsvNotSupported, op, sockets,
                 closing, server, wire, causes>>

(* Faulty: falls back to PASV when EPSV could not even be sent. *)
IOFailsThenPasv ==
  /\ pc \in Commands \cup {"final"}
  /\ pc = "type" => currentType # "I"
  /\ broken' = TRUE
  /\ waiting' = FALSE
  /\ pc' = IF pc = "epsv" THEN "pasv" ELSE "return"
  /\ UNCHANGED <<config, currentType, epsvNotSupported, op, sockets, closing,
                 server, wire, causes>>


(* The write fails, or no reply is read before the deadline.  setType takes *)
(* this error, too, as a reason to record the new type.                     *)
IOFails ==
  /\ pc \in Commands \cup {"final"}
  /\ pc = "type" => currentType # "I"
  /\ broken' = TRUE
  /\ currentType' = IF pc = "type" THEN "I" ELSE currentType
  /\ waiting' = FALSE
  /\ pc' = "return"
  /\ causes' = IF pc = "port" THEN causes \cup {"listenerLost"} ELSE causes
  /\ UNCHANGED <<config, epsvNotSupported, op, sockets, closing, server, wire>>

(* readResponse for the command written at label: whatever comes first. *)
readResponse(label) ==
  /\ pc = label
  /\ waiting \/ label = "final"
  /\ replies # <<>>
  /\ replies' = Tail(replies)
  /\ waiting' = FALSE

code == Head(replies)

-----------------------------------------------------------------------------
(* setType, REST and the operations without data                           *)

(* Faulty: resumes without REST. *)
AfterTypeNoRest == IF op.kind = "size" THEN "size" ELSE "prepare"

AfterType == IF op.kind = "size" THEN "size"
             ELSE IF op.offset > 0 THEN "rest" ELSE "prepare"

TypeAlreadySet ==
  /\ pc = "type" /\ ~waiting /\ currentType = "I"
  /\ pc' = AfterType
  /\ UNCHANGED <<config, broken, currentType, epsvNotSupported, op, waiting,
                 sockets, closing, server, wire, causes>>

(* Only a failure is recorded in currentType. *)
setType ==
  /\ readResponse("type")
  /\ IF Expected(200, code)
     THEN pc' = AfterType /\ UNCHANGED <<currentType, causes>>
     ELSE /\ currentType' = "I"
          /\ pc' = "return"
          /\ causes' = causes \cup {"typeRefused"}
  /\ UNCHANGED <<config, broken, epsvNotSupported, op, sockets, closing, server,
                 cmds>>

(* A command whose only success is the given reply, before label next. *)
CommandThen(label, expected, next) ==
  /\ readResponse(label)
  /\ pc' = IF Expected(expected, code) THEN next ELSE "return"
  /\ UNCHANGED <<config, broken, currentType, epsvNotSupported, op, sockets,
                 closing, server, cmds, causes>>

RestReply == CommandThen("rest", 350, "prepare")

SizeReply == CommandThen("size", 213, "return")

Rename == CommandThen("rnfr", 350, "rnto") \/ CommandThen("rnto", 250, "return")

(* DELE, RMD and the like: whichever code the operation expects (257 for   *)
(* MKD and PWD), it ends with this reply.                                  *)
ControlReply == CommandThen("control", 250, "return")

-----------------------------------------------------------------------------
(* prepareDataConn                                                         *)

(* listenActive opens its listener before it sends PORT or EPRT.  It may   *)
(* fail before that, or after it, when it takes the listener's address     *)
(* apart; then, too, the listener is referenced nowhere.                   *)
Listen ==
  /\ pc = "prepare" /\ config.active
  /\ \/ listener' = "open" /\ pc' = "port" /\ UNCHANGED causes
     \/ UNCHANGED <<listener, causes>> /\ pc' = "return"
     \/ /\ listener' = "open" /\ pc' = "return"
        /\ causes' = causes \cup {"listenerLost"}
  /\ UNCHANGED <<config, broken, currentType, epsvNotSupported, op, waiting,
                 dataConn, dc, abort, closing, server, wire>>

(* A refusal returns the error only, and loses the listener as well. *)
PortReply ==
  /\ readResponse("port")
  /\ IF Expected(200, code)
     THEN pc' = "xfer" /\ abort' = "armed" /\ UNCHANGED causes
     ELSE pc' = "return" /\ causes' = causes \cup {"listenerLost"} /\ UNCHANGED abort
  /\ UNCHANGED <<config, broken, currentType, epsvNotSupported, op, dataConn,
                 listener, dc, closing, server, cmds>>

requestPassive ==
  /\ pc = "prepare" /\ ~config.active
  /\ pc' = IF epsvNotSupported THEN "pasv" ELSE "epsv"
  /\ UNCHANGED <<config, broken, currentType, epsvNotSupported, op, waiting,
                 sockets, closing, server, wire, causes>>

(* Only a refusal is remembered; an answer without a port is not. *)
EpsvReply ==
  /\ readResponse("epsv")
  /\ IF Expected(229, code)
     THEN pc' \in {"dial", "pasv"} /\ UNCHANGED epsvNotSupported
     ELSE pc' = "pasv" /\ epsvNotSupported' = TRUE
  /\ UNCHANGED <<config, broken, currentType, op, sockets, closing, server,
                 cmds, causes>>

(* A 227 that does not parse is an error, as a refusal is. *)
PasvReply ==
  /\ readResponse("pasv")
  /\ pc' \in IF Expected(227, code) THEN {"dial", "return"} ELSE {"return"}
  /\ UNCHANGED <<config, broken, currentType, epsvNotSupported, op, sockets,
                 closing, server, cmds, causes>>

(* The data socket is dialled before the transfer command is sent.  From   *)
(* here the caller has deferred abort.                                     *)
DialData ==
  /\ pc = "dial"
  /\ \/ dc' = "open" /\ abort' = "armed" /\ pc' = "xfer"
     \/ UNCHANGED <<dc, abort>> /\ pc' = "return"
  /\ UNCHANGED <<config, broken, currentType, epsvNotSupported, op, waiting,
                 dataConn, listener, closing, server, wire, causes>>

-----------------------------------------------------------------------------
(* The transfer command, the getter, the copy and the completion reply     *)

XferReply == CommandThen("xfer", 1, "getter")

(* Faulty: leaves abort armed. *)
GetterKeepsAbort(isActive) ==
  /\ pc = "getter" /\ config.active = isActive
  /\ UNCHANGED <<abort, config, broken, currentType, epsvNotSupported, op, waiting,
                 closing, server, wire>>

(* The getter has run: abort is a no-op from now on. *)
Getter(isActive) ==
  /\ pc = "getter" /\ config.active = isActive
  /\ abort' = "handed"
  /\ UNCHANGED <<config, broken, currentType, epsvNotSupported, op, waiting,
                 closing, server, wire>>

(* The getter fails: nobody reads the completion reply of the transfer,    *)
(* and the connection is not marked as broken.                             *)
GetterFails ==
  pc' = "return" /\ causes' = causes \cup {"getterFailed"} /\ UNCHANGED dataConn

HandOver == pc' = "copy" /\ dataConn' = TRUE /\ UNCHANGED causes

(* Active mode: Accept has a deadline, and the listener is closed either way. *)
AcceptData ==
  /\ Getter(TRUE)
  /\ listener' = "none"
  /\ \/ HandOver /\ dc' = "open"
     \/ GetterFails /\ UNCHANGED dc

(* Faulty: a handshake that fails leaves the data socket open. *)
HandshakeWithoutClose ==
  /\ Getter(FALSE)
  /\ UNCHANGED <<listener, dc>>
  /\ HandOver \/ (GetterFails /\ config.tls)

(* Passive mode: with TLS the handshake is done here, without a deadline.  *)
(* One that fails closes dc itself, as nobody has deferred that yet.       *)
HandshakeData ==
  /\ Getter(FALSE)
  /\ UNCHANGED listener
  /\ \/ HandOver /\ UNCHANGED dc
     \/ GetterFails /\ config.tls /\ dc' = "closed"

(* io.Copy, or dataStringList's scanner, reaches the end; dc is closed.    *)
(* The scanner comes here after an error, too, and a Store that has        *)
(* nothing left to write does not notice that Close has closed dc.         *)
CopyEnds ==
  /\ pc = "copy"
  /\ dc' = "closed"
  /\ pc' = "final"
  /\ UNCHANGED <<config, broken, currentType, epsvNotSupported, op, waiting,
                 dataConn, listener, abort, closing, server, wire, causes>>

CopyFails ==
  /\ pc = "copy" /\ op.kind # "list"
  /\ broken' = TRUE
  /\ pc' = "return"
  /\ UNCHANGED <<config, currentType, epsvNotSupported, op, waiting, sockets,
                 closing, server, wire, causes>>

FinalReply == CommandThen("final", 2, "return")

(* The deferred calls, last first: dc.Close if the getter has handed dc    *)
(* over, abort once prepareDataConn succeeded (a no-op from the getter on), *)
(* returnConn.  An operation that ends between REST and its transfer       *)
(* command leaves the server with the marker.                              *)
Return ==
  /\ pc = "return"
  /\ dc' = IF dataConn \/ abort = "armed" \/ dc = "closed" THEN "none" ELSE dc
  /\ listener' = IF abort = "armed" THEN "none" ELSE listener
  /\ abort' = "none"
  /\ dataConn' = FALSE
  /\ pc' = "idle"
  /\ causes' = IF srvRest > 0 THEN causes \cup {"markerLeft"} ELSE causes
  /\ UNCHANGED <<config, broken, currentType, epsvNotSupported, op, waiting,
                 closing, server, wire>>

-----------------------------------------------------------------------------
(* Closing the connection                                                  *)

(* getIdleConn finds the connection broken and closes it. *)
Discard ==
  /\ pc = "idle" /\ broken
  /\ pc' = "gone"
  /\ ctrl' = "closed"
  /\ UNCHANGED <<config, broken, currentType, epsvNotSupported, op, waiting,
                 sockets, closer, server, wire, causes>>

(* Client.Close calls persistentConn.close while an operation may be       *)
(* anywhere: first the data connection, if the field is set ...            *)
CloseData ==
  /\ closer = "none"
  /\ closer' = "data"
  /\ dc' = IF dataConn /\ dc = "open" THEN "closed" ELSE dc
  /\ UNCHANGED <<config, client, ctrl, dataConn, listener, abort, server, wire,
                 causes>>

(* ... then the control connection.  Replies that are already in the       *)
(* client's bufio.Reader can still be read, the others are lost.           *)
CloseControl ==
  /\ closer = "data"
  /\ closer' = "done"
  /\ ctrl' = "closed"
  /\ \E n \in 0..Len(replies) : replies' = SubSeq(replies, 1, n)
  /\ UNCHANGED <<config, client, sockets, server, cmds, causes>>

-----------------------------------------------------------------------------
(* The server (external)                                                   *)

Answers(verb) ==
  CASE verb = "type" -> {200, 500}  [] verb = "rest" -> {350, 502}
    [] verb = "epsv" -> {229, 500}  [] verb = "pasv" -> {227, 425}
    [] verb = "port" -> {200, 500}  [] verb = "xfer" -> {150, 550}
    [] verb = "size" -> {213, 550}  [] verb = "rnfr" -> {350, 550}
    [] verb \in {"rnto", "control"} -> {250, 550}

(* It answers the next command; a restart marker lasts until the next RETR *)
(* or STOR.                                                                *)
ServerAnswers ==
  /\ ctrl = "open" /\ cmds # <<>> /\ ~xfer
  /\ LET c == Head(cmds)  file == c.verb = "xfer" /\ c.op.kind # "list"
     IN \E answer \in Answers(c.verb) :
          /\ replies' = Append(replies, answer)
          /\ xfer' = (answer = 150)
          /\ srvType' = IF c.verb = "type" /\ answer = 200 THEN "I" ELSE srvType
          /\ srvRest' = IF c.verb = "rest" /\ answer = 350 THEN c.op.offset
                        ELSE IF file THEN 0 ELSE srvRest
          /\ started' = IF file /\ answer = 150
                        THEN [type |-> srvType, at |-> srvRest, wanted |-> c.op.offset]
                        ELSE started
  /\ cmds' = Tail(cmds)
  /\ UNCHANGED <<config, client, sockets, closing, causes>>

(* The transfer ends, well or not, and its completion reply is sent. *)
ServerCompletes ==
  /\ ctrl = "open" /\ xfer
  /\ xfer' = FALSE
  /\ \E answer \in {226, 426} : replies' = Append(replies, answer)
  /\ UNCHANGED <<config, client, sockets, closing, srvType, srvRest, started,
                 cmds, causes>>

-----------------------------------------------------------------------------
Init ==
  /\ config \in [active : BOOLEAN, tls : BOOLEAN]
  /\ ctrl = "open" /\ closer = "none"
  /\ broken = FALSE
  /\ currentType = "A"
  /\ epsvNotSupported \in BOOLEAN
  /\ op = [kind |-> "control", offset |-> 0]
  /\ pc = "idle"
  /\ waiting = FALSE
  /\ dataConn = FALSE /\ listener = "none" /\ dc = "none" /\ abort = "none"
  /\ cmds = <<>> /\ replies = <<>>
  /\ xfer = FALSE
  /\ srvType = "A" /\ srvRest = 0
  /\ started = [type |-> "I", at |-> 0, wanted |-> 0]
  /\ causes = {}

(* Steps that the client takes by itself or is driven to by a deadline. *)
ClientStep ==
  \/ sendCommand \/ IOFails
  \/ TypeAlreadySet \/ setType \/ RestReply \/ SizeReply \/ Rename \/ ControlReply
  \/ Listen \/ PortReply \/ requestPassive \/ EpsvReply \/ PasvReply \/ DialData
  \/ XferReply \/ AcceptData \/ (~config.tls /\ HandshakeData)
  \/ CopyEnds \/ CopyFails \/ FinalReply \/ Return \/ Discard

Next ==
  \/ ClientStep
  \/ \E o \in Ops : BeginOp(o)
  \/ config.tls /\ HandshakeData
  \/ CloseData \/ CloseControl
  \/ ServerAnswers \/ ServerCompletes

Spec == Init /\ [][Next]_vars

(* Every blocking step of an operation has a deadline except the TLS       *)
(* handshake of a passive data connection, which needs the server; Close   *)
(* once begun goes on; the server owes nothing.                            *)
FairSpec == Spec /\ WF_vars(ClientStep) /\ WF_vars(CloseControl)

-----------------------------------------------------------------------------
(* Properties                                                              *)

(* Every variable stays in the range its use gives it, and an armed abort  *)
(* has something of its own to close.                                      *)
TypeOK ==
  /\ config \in [active : BOOLEAN, tls : BOOLEAN]
  /\ ctrl \in {"open", "closed"} /\ closer \in {"none", "data", "done"}
  /\ broken \in BOOLEAN /\ epsvNotSupported \in BOOLEAN /\ waiting \in BOOLEAN
  /\ currentType \in {"A", "I"} /\ srvType \in {"A", "I"}
  /\ op \in Ops /\ pc \in Labels
  /\ dataConn \in BOOLEAN /\ xfer \in BOOLEAN
  /\ listener \in {"none", "open"} /\ dc \in {"none", "open", "closed"}
  /\ abort \in {"none", "armed", "handed"}
  /\ abort = "armed" => (IF config.active THEN listener ELSE dc) = "open"
  /\ cmds \in Seq([verb : Commands, op : Ops]) /\ replies \in Seq(Nat)
  /\ srvRest \in Offsets
  /\ started \in [type : {"A", "I"}, at : Offsets, wanted : Offsets]
  /\ causes \subseteq Mishaps

NothingOwed == cmds = <<>> /\ replies = <<>> /\ ~xfer

(* A connection that goes back to the pool as sound owes no reply, so that *)
(* the next operation reads the answers to its own commands.  RawConn      *)
(* (persistent_connection.go:30) says of the reply to a data command that  *)
(* "you must read" it.                                                     *)
CleanReturn == pc = "idle" /\ ~broken => NothingOwed

(* The one way to lose step with the server is a getter that fails after   *)
(* the server has acknowledged the transfer; timeouts, refusals, failed    *)
(* copies and Close never are.                                             *)
CleanReturnUnlessGetterFailed == "getterFailed" \in causes \/ CleanReturn

(* An operation that is over has closed its data socket on every path, and *)
(* its listener on every path but those on which listenActive fails after  *)
(* it has opened it.                                                       *)
DataReleased ==
  pc \in {"idle", "gone"} =>
    dc = "none" /\ (listener = "none" \/ "listenerLost" \in causes)

(* Files are transferred in image type: transferFromOffset asks for it, and *)
(* currentType "tracks the current type" (persistent_connection.go:71).     *)
ImageTransfers == started.type = "I"

(* As long as the server has never refused TYPE on this connection, and    *)
(* no getter has failed, every file is transferred in image type, whatever *)
(* else went wrong in between.                                             *)
ImageUnlessTypeRefused ==
  "typeRefused" \in causes \/ "getterFailed" \in causes \/ ImageTransfers

(* A transfer starts on the server where the client asked it to: a resumed *)
(* one at its offset, even if an earlier failure left another marker, and  *)
(* one from the beginning at 0, unless an earlier operation on the         *)
(* connection ended between REST and its transfer command.  A failed       *)
(* getter, which leaves the client reading older replies, is excepted.     *)
ResumesAtOffset ==
  \/ "getterFailed" \in causes
  \/ started.at = started.wanted
  \/ started.wanted = 0 /\ "markerLeft" \in causes

(* Nothing is written to a connection that has failed: the operation that  *)
(* notices gives up, and getIdleConn hands it to no other.                 *)
NothingSentOnceBroken == [][broken => Len(cmds') <= Len(cmds)]_vars

InHandshake == pc = "getter" /\ config.tls /\ ~config.active


(* client.go:267 "It will interrupt all transfers in progress": after      *)
(* Close, the operation that has the connection comes to its end.          *)
CloseInterrupts ==
  closer = "done" ~> pc \in {"idle", "gone"}
=============================================================================
