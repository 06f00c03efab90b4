------------------------------ MODULE Transfer ------------------------------
(***************************************************************************)
(* Client.RetrieveFrom and Client.Store (transfer.go): one call that       *)
(* transfers a file, resumes it after failures and verifies its size.      *)
(*                                                                         *)
(* An attempt of transferFromOffset is one step: what it does to its       *)
(* connection is module Session, which connection it gets is ConnPool.     *)
(* Here it moves some bytes and succeeds or fails, on any of the client's  *)
(* hosts.  The servers are external: a failure may lose bytes that were    *)
(* written to the data connection, and a server may confirm a transfer     *)
(* that is short.                                                          *)
(***************************************************************************)
EXTENDS Integers, Sequences

CONSTANTS
  Contents,    \* contents of the file to retrieve, or of src
  OldFiles,    \* contents of the remote file before Store
  Offsets,     \* offsets a caller passes to RetrieveFrom
  Positions,   \* read positions src may be at when it is passed to Store
  MaxHosts     \* bound: the number of hosts

ASSUME TransferAssumption ==
  /\ Contents \cup OldFiles \subseteq Seq(Int)
  /\ Offsets \subseteq Nat /\ Positions \subseteq Nat
  /\ MaxHosts \in Nat

VARIABLES
  call,        \* "retrieve" or "store"
  caps,        \* SIZE and REST STREAM features, number of hosts, src is a Seeker
  data,        \* store: the contents of src
  start,       \* store: src's position when Store was called
  srcPos,      \* store: src's position
  file,        \* host -> the file there
  dest,        \* retrieve: what was written to dest
  offset,      \* retrieve: the caller's offset
  size,        \* the last answer of Client.size, -2 before the first
  asked,       \* the host whose file that is the size of, or 0
  wrote,       \* store: the host that took the last STOR, or 0
  canResume,
  bytesSoFar,
  turn,        \* flips with every attempt, so that a fruitless one is a step
  stalled,     \* store: the last attempt wrote bytes of which none arrived
  pc,
  result       \* "none", "ok" or "err"

constants == <<call, caps, data, start, offset>>
vars == <<constants, srcPos, file, wrote, dest, size, asked, canResume, bytesSoFar,
          turn, stalled, pc, result>>

Mirrors == DOMAIN file

Prefix(s, n) == SubSeq(s, 1, IF n < Len(s) THEN n ELSE Len(s))

(* The bytes of s from position pos on, at most n of them. *)
Bytes(s, pos, n) == SubSeq(s, pos + 1, pos + n)

Left(s, pos) == IF pos < Len(s) THEN Len(s) - pos ELSE 0

Finish(outcome) == pc' = "done" /\ result' = outcome

Goto(label) == pc' = label /\ UNCHANGED result

(* Client.size without a connection error, on whichever host the pool      *)
(* picks: -1 if there is no SIZE, if the server refuses it or if its       *)
(* answer does not parse.                                                  *)
AskSize ==
  \/ size' = -1 /\ asked' = 0
  \/ caps.size /\ \E h \in Mirrors : size' = Len(file[h]) /\ asked' = h

(* Client.canResume: an error is no. *)
ResumeAnswers == {caps.rest, FALSE}

(* An error of Client.size, of its connection or of its TYPE command, ends *)
(* either call.                                                            *)
SizeFails ==
  /\ pc \in {"retrSize", "storSize", "storCheck"}
  /\ Finish("err")
  /\ UNCHANGED <<constants, srcPos, file, wrote, dest, size, asked, canResume, bytesSoFar,
                 turn, stalled>>

(* Nothing ends the wait for a connection of a pool that lost a wake-up    *)
(* (client.go:374), nor the TLS handshake of a passive data connection     *)
(* (persistent_connection.go:503): the call may stop at any of its steps.  *)
Hang ==
  /\ pc \notin {"done", "hung"}
  /\ Goto("hung")
  /\ UNCHANGED <<constants, srcPos, file, wrote, dest, size, asked, canResume, bytesSoFar,
                 turn, stalled>>

-----------------------------------------------------------------------------
(* RetrieveFrom                                                            *)

RetrieveSize ==
  /\ pc = "retrSize"
  /\ AskSize
  /\ IF size' # -1 /\ offset > size' THEN Finish("err") ELSE Goto("retrResume")
  /\ UNCHANGED <<constants, srcPos, file, wrote, dest, canResume, bytesSoFar, turn, stalled>>

(* Nothing to copy is a success that sends no command. *)
RetrieveResume ==
  /\ pc = "retrResume"
  /\ canResume' \in ResumeAnswers
  /\ bytesSoFar' = offset
  /\ IF offset > 0 /\ ~canResume' THEN Finish("err")
     ELSE IF offset = size THEN Finish("ok")
     ELSE Goto("retr")
  /\ UNCHANGED <<constants, srcPos, file, wrote, dest, size, asked, turn, stalled>>

(* Faulty: every attempt starts at the caller's offset. *)
RetrieveAgain ==
  /\ pc = "retr"
  /\ \E h \in Mirrors, ok \in BOOLEAN : \E n \in 0..Left(file[h], bytesSoFar) :
       /\ dest' = dest \o Bytes(file[h], offset, n)
       /\ bytesSoFar' = bytesSoFar + n
       /\ IF ok THEN Finish(IF size # -1 /\ bytesSoFar' # size THEN "err" ELSE "ok")
          ELSE IF n = 0 \/ ~canResume THEN Finish("err")
          ELSE Goto("retr")
  /\ turn' = ~turn
  /\ UNCHANGED <<constants, srcPos, file, wrote, size, asked, canResume, stalled>>

(* Faulty: retries although nothing arrived. *)
RetrieveForever ==
  /\ pc = "retr"
  /\ \E h \in Mirrors, ok \in BOOLEAN : \E n \in 0..Left(file[h], bytesSoFar) :
       /\ dest' = dest \o Bytes(file[h], bytesSoFar, n)
       /\ bytesSoFar' = bytesSoFar + n
       /\ IF ok THEN Finish(IF size # -1 /\ bytesSoFar' # size THEN "err" ELSE "ok")
          ELSE IF ~canResume THEN Finish("err")
          ELSE Goto("retr")
  /\ turn' = ~turn
  /\ UNCHANGED <<constants, srcPos, file, wrote, size, asked, canResume, stalled>>

(* One attempt: n bytes reach dest.  A success that leaves the size short  *)
(* is an error; a failure is retried as long as bytes arrive.              *)
RetrieveAttempt ==
  /\ pc = "retr"
  /\ \E h \in Mirrors, ok \in BOOLEAN : \E n \in 0..Left(file[h], bytesSoFar) :
       /\ dest' = dest \o Bytes(file[h], bytesSoFar, n)
       /\ bytesSoFar' = bytesSoFar + n
       /\ IF ok THEN Finish(IF size # -1 /\ bytesSoFar' # size THEN "err" ELSE "ok")
          ELSE IF n = 0 \/ ~canResume THEN Finish("err")
          ELSE Goto("retr")
  /\ turn' = ~turn
  /\ UNCHANGED <<constants, srcPos, file, wrote, size, asked, canResume, stalled>>

-----------------------------------------------------------------------------
(* Store                                                                   *)

(* Faulty: resumes on several hosts, too. *)
StoreResumeAnywhere ==
  /\ pc = "storResume"
  /\ \E rest \in ResumeAnswers : canResume' = (rest /\ caps.seeker)
  /\ Goto("stor")
  /\ UNCHANGED <<constants, srcPos, file, wrote, dest, size, asked, bytesSoFar, turn, stalled>>

StoreResume ==
  /\ pc = "storResume"
  /\ \E rest \in ResumeAnswers : canResume' = (caps.hosts = 1 /\ rest /\ caps.seeker)
  /\ Goto("stor")
  /\ UNCHANGED <<constants, srcPos, file, wrote, dest, size, asked, bytesSoFar, turn, stalled>>

(* Faulty: takes "size unknown" for a size. *)
StoreSeekUnknown ==
  /\ pc = "storSize"
  /\ AskSize
  /\ srcPos' = size'
  /\ bytesSoFar' = size'
  /\ Goto("stor")
  /\ UNCHANGED <<constants, file, wrote, dest, canResume, turn, stalled>>

(* Before a retry: how much has arrived, and src is moved there.  The      *)
(* position is counted from the beginning of src.                          *)
StoreSeek ==
  /\ pc = "storSize"
  /\ AskSize
  /\ \/ /\ size' # -1
        /\ srcPos' = size'
        /\ bytesSoFar' = size'
        /\ Goto("stor")
     \/ Finish("err") /\ UNCHANGED <<srcPos, bytesSoFar>>
  /\ UNCHANGED <<constants, file, wrote, dest, canResume, turn, stalled>>

(* Faulty: tries again although nothing could be written. *)
StoreForever ==
  /\ pc = "stor"
  /\ \E h \in Mirrors, ok \in BOOLEAN : \E n \in 0..Left(data, srcPos) :
       /\ ok => n = Left(data, srcPos)
       /\ \E m \in 0..n :
            /\ file' = [file EXCEPT
                          ![h] = Prefix(@, bytesSoFar) \o Bytes(data, srcPos, m)]
            /\ stalled' = (n > 0 /\ m = 0)
       /\ wrote' = h
       /\ srcPos' = srcPos + n
       /\ bytesSoFar' = bytesSoFar + n
       /\ IF ok THEN Goto("storCheck")
          ELSE IF ~canResume THEN Finish("err")
          ELSE Goto("storSize")
  /\ turn' = ~turn
  /\ UNCHANGED <<constants, dest, size, asked, canResume>>

(* One attempt: n bytes of src are written to the data connection and m of *)
(* them arrive.  A refused command leaves the file alone; one that the     *)
(* server takes empties it even if the handshake that follows never ends.  *)
StoreAttempt ==
  /\ pc = "stor"
  /\ \E h \in Mirrors, ok \in BOOLEAN : \E n \in 0..Left(data, srcPos) :
       /\ ok => n = Left(data, srcPos)
       /\ \/ \E m \in 0..n :
               /\ file' = [file EXCEPT
                             ![h] = Prefix(@, bytesSoFar) \o Bytes(data, srcPos, m)]
               /\ stalled' = (n > 0 /\ m = 0)
               /\ wrote' = h
          \/ n = 0 /\ ~ok /\ UNCHANGED <<file, wrote, stalled>>
       /\ srcPos' = srcPos + n
       /\ bytesSoFar' = bytesSoFar + n
       /\ IF ok THEN Goto("storCheck")
          ELSE IF n = 0 THEN Finish("err") \/ Goto("hung")
          ELSE IF ~canResume THEN Finish("err")
          ELSE Goto("storSize")
  /\ turn' = ~turn
  /\ UNCHANGED <<constants, dest, size, asked, canResume>>

(* Faulty: trusts the completion reply. *)
StoreUnchecked ==
  /\ pc = "storCheck"
  /\ AskSize
  /\ Finish("ok")
  /\ UNCHANGED <<constants, srcPos, file, wrote, dest, canResume, bytesSoFar, turn, stalled>>

StoreCheck ==
  /\ pc = "storCheck"
  /\ AskSize
  /\ Finish(IF size' # -1 /\ size' # bytesSoFar THEN "err" ELSE "ok")
  /\ UNCHANGED <<constants, srcPos, file, wrote, dest, canResume, bytesSoFar, turn, stalled>>

-----------------------------------------------------------------------------
Init ==
  /\ caps \in [size : BOOLEAN, rest : BOOLEAN, hosts : 1..MaxHosts, seeker : BOOLEAN]
  /\ dest = <<>>
  /\ size = -2 /\ asked = 0 /\ wrote = 0
  /\ canResume = FALSE
  /\ bytesSoFar = 0
  /\ turn = FALSE /\ stalled = FALSE
  /\ result = "none"
  /\ \/ /\ call = "retrieve" /\ pc = "retrSize"
        /\ \E f \in Contents : file = [h \in 1..caps.hosts |-> f]
        /\ data = <<>>
        /\ offset \in Offsets
        /\ start = 0
     \/ /\ call = "store" /\ pc = "storResume"
        /\ file \in [1..caps.hosts -> OldFiles] /\ data \in Contents
        /\ offset = 0
        /\ start \in Positions
  /\ srcPos = start

RetrieveFrom == RetrieveSize \/ RetrieveResume \/ RetrieveAttempt

Store == StoreResume \/ StoreSeek \/ StoreAttempt \/ StoreCheck

Next == RetrieveFrom \/ Store \/ SizeFails \/ Hang

Spec == Init /\ [][Next]_vars

(* An attempt or a SIZE either ends, by the deadlines of module Session, or *)
(* waits where there is none, which is a step here: Hang.                   *)
FairSpec == Spec /\ WF_vars(Next)

-----------------------------------------------------------------------------
(* Properties                                                              *)

(* Every variable stays in the range its use gives it. *)
TypeOK ==
  /\ file \in [1..caps.hosts -> Seq(Int)] /\ dest \in Seq(Int)
  /\ bytesSoFar \in Nat /\ srcPos \in Nat
  /\ size \in Int /\ size >= -2
  /\ asked \in 0..caps.hosts /\ wrote \in 0..caps.hosts
  /\ canResume \in BOOLEAN /\ turn \in BOOLEAN /\ stalled \in BOOLEAN
  /\ result \in {"none", "ok", "err"} /\ (result = "none" <=> pc # "done")
  /\ pc \in {"retrSize", "retrResume", "retr",
             "storResume", "storSize", "stor", "storCheck", "done", "hung"}

(* The retrieving side of the state; a Store takes no step of it. *)
OfRetrieve(value, otherwise) == IF call = "retrieve" THEN value ELSE otherwise

Copy == INSTANCE FileCopy WITH source <- OfRetrieve(file[1], <<>>),
                               out <- dest,
                               sized <- OfRetrieve(size >= 0, FALSE),
                               outcome <- OfRetrieve(result, "none")

(* RetrieveFrom keeps what FileCopy promises through every sequence of     *)
(* failed, short and resumed attempts: no byte is lost, repeated or out of *)
(* place, and a success that could be verified is complete.                *)
RetrieveImplementsFileCopy == Copy!Spec

(* What Store is asked to upload: src from where it stood. *)
Upload == SubSeq(data, start + 1, Len(data))

(* SIZE was answered by the host to which the upload went.  With several   *)
(* hosts another one may have been asked, and says nothing of the upload.  *)
Verified == size # -1 /\ asked = wrote

(* A Store that succeeds after SIZE confirmed the length has uploaded what *)
(* it was given, whatever was lost, resent or resumed.                     *)
StoredIsUpload ==
  (call = "store" /\ result = "ok" /\ Verified) => file[wrote] = Upload

OfStore(value, otherwise) == IF call = "store" THEN value ELSE otherwise

Stores == INSTANCE FileCopy WITH source <- data,
                                 offset <- start,
                                 out <- IF wrote = 0 THEN <<>> ELSE file[wrote],
                                 sized <- OfStore(result = "ok" /\ Verified, FALSE),
                                 outcome <- OfStore(result, "none")

(* Store keeps the same promise of the remote file: from the first STOR on *)
(* it holds a beginning of the upload, which never shrinks, through every  *)
(* failed, short and resumed attempt.                                      *)
StoreImplementsFileCopy == Stores!Spec

(* A Store resumes only behind a beginning of the upload: whichever host   *)
(* the attempt goes to has exactly the bytes that REST skips.              *)
RemoteIsPrefix ==
  (call = "store" /\ pc = "stor" /\ bytesSoFar > 0) =>
    \A h \in Mirrors : file[h] = Prefix(Upload, bytesSoFar) /\ Len(file[h]) = bytesSoFar

(* Retrieve stops: it tries again only while bytes arrive, and the file is *)
(* finite.  A call that waits where the code sets no deadline does not.    *)
RetrieveEnds == call = "retrieve" ~> (result # "none" \/ pc = "hung")

(* Store stops as well, or waits like that, or is tried for ever in        *)
(* attempts that write bytes of which none arrive: it resumes while bytes  *)
(* are written, not, as the comment at transfer.go:97-98 has it, "as long  *)
(* as it continues making progress".  One attempt that moves the file      *)
(* forward does not excuse it: all of them must fail so from some time on. *)
StoreEnds ==
  (call = "store" ~> (result # "none" \/ pc = "hung")) \/ <>[]stalled
=============================================================================
