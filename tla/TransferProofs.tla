--------------------------- MODULE TransferProofs ---------------------------
(***************************************************************************)
(* Proofs about RetrieveFrom and Store, for files of any length, any       *)
(* offset and any sequence of failed, short and resumed attempts.          *)
(***************************************************************************)
EXTENDS Transfer, SequenceTheorems, TLAPS

-----------------------------------------------------------------------------
(* Pieces of a file                                                        *)

(* The first n bytes, of a file that has them. *)
LEMMA PrefixIsSubSeq ==
  ASSUME NEW s \in Seq(Int), NEW n \in Nat, n <= Len(s)
  PROVE  /\ Prefix(s, n) = SubSeq(s, 1, n) /\ Prefix(s, n) \in Seq(Int)
         /\ Len(Prefix(s, n)) = n
<1>1. Len(s) \in Nat
  OBVIOUS
<1>2. Prefix(s, n) = SubSeq(s, 1, n)
  BY <1>1 DEF Prefix
<1> QED BY <1>1, <1>2

(* Bytes that are read from where a piece ends make it longer. *)
LEMMA BytesExtend ==
  ASSUME NEW s \in Seq(Int), NEW i \in Nat, NEW j \in Nat, NEW n \in Nat,
         i <= j, j + n <= Len(s)
  PROVE  /\ SubSeq(s, i + 1, j) \o Bytes(s, j, n) = SubSeq(s, i + 1, j + n)
         /\ Len(SubSeq(s, i + 1, j + n)) = j + n - i
         /\ SubSeq(s, i + 1, j + n) \in Seq(Int)
<1>1. Len(s) \in Nat
  OBVIOUS
<1>2. i + 1 \in 1..Len(s) + 1 /\ j \in (i + 1) - 1..Len(s) /\ j + n \in j..Len(s)
  BY <1>1
<1>3. SubSeq(s, i + 1, j) \o SubSeq(s, j + 1, j + n) = SubSeq(s, i + 1, j + n)
  BY <1>2, ConcatAdjacentSubSeq
<1>4. Len(SubSeq(s, i + 1, j + n)) = j + n - i /\ SubSeq(s, i + 1, j + n) \in Seq(Int)
  BY <1>1
<1> QED BY <1>3, <1>4 DEF Bytes

(* Any piece is a sequence of bytes. *)
LEMMA BytesType ==
  ASSUME NEW s \in Seq(Int), NEW pos \in Nat, NEW n \in 0..Left(s, pos)
  PROVE  Bytes(s, pos, n) \in Seq(Int) /\ Len(Bytes(s, pos, n)) = n
<1>1. Len(s) \in Nat /\ n \in Nat /\ (n > 0 => pos + n <= Len(s))
  BY DEF Left
<1>2. CASE n = 0
  BY <1>2 DEF Bytes
<1>3. CASE n > 0
  BY <1>1, <1>3 DEF Bytes
<1> QED BY <1>1, <1>2, <1>3

LEMMA PrefixType ==
  ASSUME NEW s \in Seq(Int), NEW n \in Nat
  PROVE  Prefix(s, n) \in Seq(Int)
<1>1. Len(s) \in Nat
  OBVIOUS
<1> QED BY <1>1 DEF Prefix

(* A piece of the piece from i on. *)
LEMMA PieceOfRest ==
  ASSUME NEW s \in Seq(Int), NEW i \in Nat, NEW n \in Nat, i + n <= Len(s)
  PROVE  SubSeq(SubSeq(s, i + 1, Len(s)), 1, n) = SubSeq(s, i + 1, i + n)
<1>1. Len(s) \in Nat
  OBVIOUS
<1> DEFINE rest == SubSeq(s, i + 1, Len(s))
<1>2. rest \in Seq(Int) /\ Len(rest) = Len(s) - i
      /\ \A k \in 1..Len(s) - i : rest[k] = s[i + k]
  BY <1>1
<1>3. SubSeq(rest, 1, n) \in Seq(Int) /\ Len(SubSeq(rest, 1, n)) = n
      /\ \A k \in 1..n : SubSeq(rest, 1, n)[k] = rest[k]
  <2> HIDE DEF rest
  <2> QED BY <1>1, <1>2
<1>4. SubSeq(s, i + 1, i + n) \in Seq(Int) /\ Len(SubSeq(s, i + 1, i + n)) = n
      /\ \A k \in 1..n : SubSeq(s, i + 1, i + n)[k] = s[i + k]
  <2>1. i + n \in Nat /\ i + n <= Len(s)
    OBVIOUS
  <2>2. ASSUME NEW m \in Nat, m <= Len(s), m >= i
        PROVE  /\ SubSeq(s, i + 1, m) \in Seq(Int) /\ Len(SubSeq(s, i + 1, m)) = m - i
               /\ \A k \in 1..m - i : SubSeq(s, i + 1, m)[k] = s[i + k]
    BY <1>1, <2>2
  <2> QED BY <2>1, <2>2
<1>5. \A k \in 1..n : SubSeq(rest, 1, n)[k] = SubSeq(s, i + 1, i + n)[k]
  <2> HIDE DEF rest
  <2> QED BY <1>1, <1>2, <1>3, <1>4
<1> HIDE DEF rest
<1>6. SubSeq(rest, 1, n) = SubSeq(s, i + 1, i + n)
  BY <1>3, <1>4, <1>5, SeqEqual
<1> QED BY <1>6 DEF rest

-----------------------------------------------------------------------------
(* Types                                                                   *)

(* What the caller gave. *)
Given ==
  /\ call \in {"retrieve", "store"}
  /\ caps \in [size : BOOLEAN, rest : BOOLEAN, hosts : 1..MaxHosts, seeker : BOOLEAN]
  /\ data \in Seq(Int) /\ start \in Nat /\ offset \in Nat

Counters ==
  /\ bytesSoFar \in Nat /\ srcPos \in Nat
  /\ size \in Int /\ size >= -2
  /\ canResume \in BOOLEAN /\ turn \in BOOLEAN /\ stalled \in BOOLEAN

RetrLabels == {"retrSize", "retrResume", "retr", "done", "hung"}

StorLabels == {"storResume", "storSize", "stor", "storCheck", "done", "hung"}

(* Each call keeps to its own part of the code. *)
Progress ==
  /\ result \in {"none", "ok", "err"} /\ (result = "none" <=> pc # "done")
  /\ pc \in IF call = "retrieve" THEN RetrLabels ELSE StorLabels

Files == file \in [1..caps.hosts -> Seq(Int)] /\ dest \in Seq(Int)

Hosts == asked \in 0..caps.hosts /\ wrote \in 0..caps.hosts

Types == Given /\ Counters /\ Progress /\ Files /\ Hosts

LEMMA TypesOK == Types => TypeOK
BY DEF Types, Given, Counters, Progress, Files, Hosts, TypeOK, RetrLabels, StorLabels

(* Client.size answers with the length of some host's file, or not. *)
LEMMA SizeIs ==
  ASSUME Types, AskSize
  PROVE  /\ size' \in Int /\ size' >= -1 /\ asked' \in 0..caps.hosts
         /\ size' # -1 => asked' \in 1..caps.hosts /\ size' = Len(file[asked'])
<1>1. Mirrors = 1..caps.hosts /\ caps.hosts \in 1..MaxHosts
  BY DEF Types, Files, Given, Mirrors
<1>2. \A h \in 1..caps.hosts : Len(file[h]) \in Nat
  BY DEF Types, Files
<1>3. \/ size' = -1 /\ asked' = 0
      \/ \E h \in 1..caps.hosts : size' = Len(file[h]) /\ asked' = h
  BY <1>1 DEF AskSize
<1> QED BY <1>1, <1>2, <1>3

LEMMA InitTypes == Init => Types
<1> SUFFICES ASSUME Init PROVE Types
  OBVIOUS
<1>1. Given
  <2>1. /\ data \in Contents \cup {<<>>} /\ start \in Positions \cup {0}
        /\ offset \in Offsets \cup {0} /\ call \in {"retrieve", "store"}
    BY Zenon DEF Init
  <2>2. data \in Seq(Int) /\ start \in Nat /\ offset \in Nat
    <3>1. <<>> \in Seq(Int) /\ Contents \subseteq Seq(Int)
      BY TransferAssumption
    <3>2. data \in Seq(Int)
      BY <2>1, <3>1, Zenon
    <3> QED BY <2>1, <3>2, TransferAssumption
  <2> QED BY <2>1, <2>2 DEF Init, Given
<1>2. Counters
  <2>1. /\ srcPos = start /\ bytesSoFar = 0 /\ size = -2
        /\ canResume = FALSE /\ turn = FALSE /\ stalled = FALSE
    BY Zenon DEF Init
  <2>2. bytesSoFar \in Nat /\ srcPos \in Nat /\ size \in Int /\ size >= -2
    BY <1>1, <2>1 DEF Given
  <2>3. canResume \in BOOLEAN /\ turn \in BOOLEAN /\ stalled \in BOOLEAN
    BY <2>1
  <2> QED BY <2>2, <2>3, Zenon DEF Counters
<1>3. Progress
  BY DEF Init, Progress, RetrLabels, StorLabels
<1>4. Files
  BY TransferAssumption DEF Init, Files
<1>5. Hosts
  BY DEF Init, Hosts
<1> QED BY <1>1, <1>2, <1>3, <1>4, <1>5 DEF Types

LEMMA GivenKept ==
  ASSUME Given, UNCHANGED constants
  PROVE  Given' /\ caps' = caps /\ call' = call /\ data' = data /\ start' = start /\ offset' = offset
BY DEF Given, constants

LEMMA Ends ==
  ASSUME Given, Progress, UNCHANGED constants, NEW outcome \in {"ok", "err"}, Finish(outcome)
  PROVE  Progress'
BY GivenKept DEF Finish, Progress, RetrLabels, StorLabels

LEMMA GoesOn ==
  ASSUME Given, Progress, UNCHANGED constants, NEW label, Goto(label), pc # "done",
         label \in (IF call = "retrieve" THEN RetrLabels ELSE StorLabels) \ {"done"}
  PROVE  Progress'
BY GivenKept DEF Goto, Progress

(* An attempt, with what it picks: the host, the outcome, the bytes. *)
Retrieved(h, ok, n) ==
  /\ dest' = dest \o Bytes(file[h], bytesSoFar, n)
  /\ bytesSoFar' = bytesSoFar + n
  /\ IF ok THEN Finish(IF size # -1 /\ bytesSoFar' # size THEN "err" ELSE "ok")
     ELSE IF n = 0 \/ ~canResume THEN Finish("err")
     ELSE Goto("retr")

LEMMA RetrievePicks ==
  ASSUME Types, RetrieveAttempt
  PROVE  \E h \in 1..caps.hosts, ok \in BOOLEAN, n \in Nat :
           /\ n <= Left(file[h], bytesSoFar) /\ file[h] \in Seq(Int)
           /\ Bytes(file[h], bytesSoFar, n) \in Seq(Int)
           /\ Len(Bytes(file[h], bytesSoFar, n)) = n
           /\ Retrieved(h, ok, n)
<1>1. PICK h \in Mirrors, ok \in BOOLEAN :
        \E n \in 0..Left(file[h], bytesSoFar) : Retrieved(h, ok, n)
  BY DEF RetrieveAttempt, Retrieved
<1>2. h \in 1..caps.hosts /\ file[h] \in Seq(Int) /\ bytesSoFar \in Nat
  BY DEF Types, Files, Mirrors, Counters
<1>3. Left(file[h], bytesSoFar) \in Nat
  BY <1>2 DEF Left
<1>4. PICK n \in 0..Left(file[h], bytesSoFar) : Retrieved(h, ok, n)
  BY <1>1
<1>5. n \in Nat /\ n <= Left(file[h], bytesSoFar)
  BY <1>3
<1>6. Bytes(file[h], bytesSoFar, n) \in Seq(Int) /\ Len(Bytes(file[h], bytesSoFar, n)) = n
  BY <1>2, BytesType
<1> QED BY <1>2, <1>4, <1>5, <1>6

LEMMA RetrieveTypes ==
  ASSUME Types, RetrieveFrom
  PROVE  Types'
<1>0. Given /\ Counters /\ Progress /\ Files /\ Hosts
  BY DEF Types
<1>1. UNCHANGED constants /\ UNCHANGED file /\ call = "retrieve" /\ pc # "done"
  BY <1>0 DEF RetrieveFrom, RetrieveSize, RetrieveResume, RetrieveAttempt, Progress, Given,
              StorLabels
<1>2. Given' /\ caps' = caps
  BY <1>0, <1>1, GivenKept
<1>3. CASE RetrieveSize
  <2>1. Counters'
    BY <1>0, <1>3, SizeIs DEF RetrieveSize, Counters
  <2>2. Progress'
    BY <1>0, <1>1, <1>3, Ends, GoesOn DEF RetrieveSize, RetrLabels
  <2>3. Files'
    BY <1>0, <1>2, <1>3 DEF RetrieveSize, Files
  <2>4. Hosts'
    BY <1>0, <1>2, <1>3, SizeIs DEF RetrieveSize, Hosts
  <2> QED BY <1>2, <2>1, <2>2, <2>3, <2>4 DEF Types
<1>4. CASE RetrieveResume
  <2>1. Counters'
    BY <1>0, <1>4 DEF RetrieveResume, ResumeAnswers, Counters, Given
  <2>2. Progress'
    BY <1>0, <1>1, <1>4, Ends, GoesOn DEF RetrieveResume, RetrLabels
  <2>3. Files'
    BY <1>0, <1>2, <1>4 DEF RetrieveResume, Files
  <2>4. Hosts'
    BY <1>0, <1>2, <1>4 DEF RetrieveResume, Hosts
  <2> QED BY <1>2, <2>1, <2>2, <2>3, <2>4 DEF Types
<1>5. CASE RetrieveAttempt
  <2>1. PICK h \in 1..caps.hosts, ok \in BOOLEAN, n \in Nat :
          Bytes(file[h], bytesSoFar, n) \in Seq(Int) /\ Retrieved(h, ok, n)
    BY <1>5, RetrievePicks
  <2>2. Counters'
    BY <1>0, <1>5, <2>1 DEF RetrieveAttempt, Retrieved, Counters
  <2>3. Progress'
    BY <1>0, <1>1, <2>1, Ends, GoesOn DEF Retrieved, RetrLabels
  <2>4. dest' \in Seq(Int)
    BY <1>0, <2>1 DEF Retrieved, Files
  <2>5. Files'
    BY <1>0, <1>1, <1>2, <2>4 DEF Files
  <2>6. Hosts'
    BY <1>0, <1>2, <1>5 DEF RetrieveAttempt, Hosts
  <2> QED BY <1>2, <2>2, <2>3, <2>5, <2>6 DEF Types
<1> QED BY <1>3, <1>4, <1>5 DEF RetrieveFrom

Stored(h, ok, n) ==
  /\ ok => n = Left(data, srcPos)
  /\ \/ \E m \in 0..n :
          /\ file' = [file EXCEPT ![h] = Prefix(@, bytesSoFar) \o Bytes(data, srcPos, m)]
          /\ stalled' = (n > 0 /\ m = 0)
          /\ wrote' = h
     \/ n = 0 /\ ~ok /\ UNCHANGED <<file, wrote, stalled>>
  /\ srcPos' = srcPos + n
  /\ bytesSoFar' = bytesSoFar + n
  /\ IF ok THEN Goto("storCheck")
     ELSE IF n = 0 THEN Finish("err") \/ Goto("hung")
     ELSE IF ~canResume THEN Finish("err")
     ELSE Goto("storSize")

LEMMA StorePicks ==
  ASSUME Types, StoreAttempt
  PROVE  \E h \in 1..caps.hosts, ok \in BOOLEAN, n \in Nat :
           n <= Left(data, srcPos) /\ Stored(h, ok, n)
<1>1. PICK h \in Mirrors, ok \in BOOLEAN :
        \E n \in 0..Left(data, srcPos) : Stored(h, ok, n)
  BY DEF StoreAttempt, Stored
<1>2. h \in 1..caps.hosts /\ data \in Seq(Int) /\ srcPos \in Nat
  BY DEF Types, Files, Mirrors, Counters, Given
<1>3. Left(data, srcPos) \in Nat
  BY <1>2 DEF Left
<1> QED BY <1>1, <1>2, <1>3

(* The file that an attempt writes. *)
LEMMA StoredFile ==
  ASSUME Types, NEW h \in 1..caps.hosts, NEW m \in Nat, m <= Left(data, srcPos),
         file' = [file EXCEPT ![h] = Prefix(@, bytesSoFar) \o Bytes(data, srcPos, m)]
  PROVE  /\ file' \in [1..caps.hosts -> Seq(Int)]
         /\ file'[h] = Prefix(file[h], bytesSoFar) \o Bytes(data, srcPos, m)
<1>1. /\ file \in [1..caps.hosts -> Seq(Int)] /\ data \in Seq(Int)
      /\ srcPos \in Nat /\ bytesSoFar \in Nat
  BY DEF Types, Files, Counters, Given
<1>2. m \in 0..Left(data, srcPos)
  BY <1>1 DEF Left
<1>3. Prefix(file[h], bytesSoFar) \in Seq(Int) /\ Bytes(data, srcPos, m) \in Seq(Int)
  BY <1>1, <1>2, PrefixType, BytesType
<1>4. Prefix(file[h], bytesSoFar) \o Bytes(data, srcPos, m) \in Seq(Int)
  BY <1>3
<1> QED BY <1>1, <1>4

LEMMA StoreTypes ==
  ASSUME Types, Store
  PROVE  Types'
<1>0. Given /\ Counters /\ Progress /\ Files /\ Hosts
  BY DEF Types
<1>1. UNCHANGED constants /\ dest' = dest /\ call # "retrieve" /\ pc # "done"
  BY <1>0 DEF Store, StoreResume, StoreSeek, StoreAttempt, StoreCheck, Progress, Given,
              RetrLabels
<1>2. Given' /\ caps' = caps
  BY <1>0, <1>1, GivenKept
<1>3. CASE StoreResume
  <2>1. Counters'
    BY <1>0, <1>3 DEF StoreResume, ResumeAnswers, Counters, Given
  <2>2. Progress'
    BY <1>0, <1>1, <1>3, GoesOn DEF StoreResume, StorLabels
  <2>3. Files'
    BY <1>0, <1>2, <1>3 DEF StoreResume, Files
  <2>4. Hosts'
    BY <1>0, <1>2, <1>3 DEF StoreResume, Hosts
  <2> QED BY <1>2, <2>1, <2>2, <2>3, <2>4 DEF Types
<1>4. CASE StoreSeek
  <2>1. size' \in Int /\ size' >= -1
    BY <1>4, SizeIs DEF StoreSeek
  <2>2. Counters'
    BY <1>0, <1>4, <2>1 DEF StoreSeek, Counters
  <2>3. Progress'
    BY <1>0, <1>1, <1>4, Ends, GoesOn DEF StoreSeek, StorLabels
  <2>4. Files'
    BY <1>0, <1>2, <1>4 DEF StoreSeek, Files
  <2>5. Hosts'
    BY <1>0, <1>2, <1>4, SizeIs DEF StoreSeek, Hosts
  <2> QED BY <1>2, <2>2, <2>3, <2>4, <2>5 DEF Types
<1>5. CASE StoreAttempt
  <2>1. PICK h \in 1..caps.hosts, ok \in BOOLEAN, n \in Nat :
          n <= Left(data, srcPos) /\ Stored(h, ok, n)
    BY <1>5, StorePicks
  <2>2. stalled' \in BOOLEAN
    BY <1>0, <2>1 DEF Stored, Counters
  <2>3. Counters'
    BY <1>0, <1>5, <2>1, <2>2 DEF StoreAttempt, Stored, Counters
  <2>4. Progress'
    BY <1>0, <1>1, <2>1, Ends, GoesOn DEF Stored, StorLabels
  <2>5. file' \in [1..caps.hosts -> Seq(Int)]
    <3>1. CASE file' = file
      BY <1>0, <3>1 DEF Files
    <3>2. CASE file' # file
      <4>1. Left(data, srcPos) \in Nat
        BY <1>0 DEF Left, Given, Counters
      <4>2. PICK m \in 0..n :
              file' = [file EXCEPT ![h] = Prefix(@, bytesSoFar) \o Bytes(data, srcPos, m)]
        BY <2>1, <3>2 DEF Stored
      <4>3. m \in Nat /\ m <= Left(data, srcPos)
        BY <2>1, <4>1
      <4> QED BY <4>2, <4>3, StoredFile
    <3> QED BY <3>1, <3>2
  <2>6. Files'
    BY <1>0, <1>1, <1>2, <2>5 DEF Files
  <2>7. Hosts'
    <3>1. asked' = asked /\ (wrote' = wrote \/ wrote' = h)
      BY <1>5, <2>1 DEF StoreAttempt, Stored
    <3> QED BY <1>0, <1>2, <3>1 DEF Hosts, Given
  <2> QED BY <1>2, <2>3, <2>4, <2>6, <2>7 DEF Types
<1>6. CASE StoreCheck
  <2>1. size' \in Int /\ size' >= -1
    BY <1>6, SizeIs DEF StoreCheck
  <2>2. Counters'
    BY <1>0, <1>6, <2>1 DEF StoreCheck, Counters
  <2>3. Progress'
    BY <1>0, <1>1, <1>6, Ends DEF StoreCheck
  <2>4. Files'
    BY <1>0, <1>2, <1>6 DEF StoreCheck, Files
  <2>5. Hosts'
    BY <1>0, <1>2, <1>6, SizeIs DEF StoreCheck, Hosts
  <2> QED BY <1>2, <2>2, <2>3, <2>4, <2>5 DEF Types
<1> QED BY <1>3, <1>4, <1>5, <1>6 DEF Store

LEMMA StepTypes == Types /\ [Next]_vars => Types'
<1> SUFFICES ASSUME Types, [Next]_vars PROVE Types'
  OBVIOUS
<1>1. CASE SizeFails
  <2>1. UNCHANGED constants
    BY <1>1 DEF SizeFails
  <2>2. Given' /\ Progress' /\ caps' = caps
    BY <1>1, <2>1, GivenKept, Ends DEF SizeFails, Types
  <2>3. Counters' /\ Files' /\ Hosts'
    BY <1>1, <2>2 DEF SizeFails, Types, Counters, Files, Hosts
  <2> QED BY <2>2, <2>3 DEF Types
<1>2. CASE UNCHANGED vars
  BY <1>2 DEF vars, constants, Types, Given, Counters, Progress, Files, Hosts
<1>3. CASE Hang
  <2>1. UNCHANGED constants /\ pc # "done" /\ Goto("hung")
    BY <1>3 DEF Hang
  <2>2. Given' /\ Progress' /\ caps' = caps
    BY <2>1, GivenKept, GoesOn DEF Types, RetrLabels, StorLabels
  <2>3. Counters' /\ Files' /\ Hosts'
    BY <1>3, <2>2 DEF Hang, Types, Counters, Files, Hosts
  <2> QED BY <2>2, <2>3 DEF Types
<1> QED BY <1>1, <1>2, <1>3, RetrieveTypes, StoreTypes DEF Next

(* What the two calls are given never changes, each keeps to its own part  *)
(* of the code, and every counter, file and answer has its type.           *)
THEOREM TransferTypeInvariant == Spec => []Types
BY InitTypes, StepTypes, PTL DEF Spec

(* Every variable of a call of RetrieveFrom or Store stays in the range    *)
(* its use gives it; no count or position becomes negative, whatever SIZE  *)
(* answered.                                                               *)
THEOREM TransferTypes == Spec => []TypeOK
BY TransferTypeInvariant, TypesOK, PTL

-----------------------------------------------------------------------------
(* RetrieveFrom implements FileCopy                                        *)

(* dest is the piece of the file that starts at the offset. *)
Copied ==
  /\ dest = SubSeq(file[1], offset + 1, offset + Len(dest))
  /\ Len(dest) = 0 \/ offset + Len(dest) <= Len(file[1])

(* Where an attempt starts, and what is known of the file. *)
RetrInv ==
  call = "retrieve" =>
    /\ \A h \in 1..caps.hosts : file[h] = file[1]
    /\ pc \in {"retrSize", "retrResume"} => dest = <<>>
    /\ pc = "retrSize" => size = -2
    /\ pc \in {"retrResume", "retr"} =>
         size = -1 \/ (size = Len(file[1]) /\ offset <= size)
    /\ pc = "retr" => bytesSoFar = offset + Len(dest) /\ Copied

(* The file is the same everywhere, and one of the hosts is the first. *)
LEMMA TheFile ==
  ASSUME Types
  PROVE  file[1] \in Seq(Int) /\ Len(file[1]) \in Nat
<1>1. file \in [1..caps.hosts -> Seq(Int)] /\ caps.hosts \in 1..MaxHosts
  BY DEF Types, Files, Given
<1>2. 1 \in 1..caps.hosts
  BY <1>1, TransferAssumption
<1> QED BY <1>1, <1>2

LEMMA NothingCopied ==
  ASSUME Types, dest = <<>>
  PROVE  Copied
BY TheFile DEF Copied, Types, Given

(* An attempt writes the bytes that follow those already written. *)
LEMMA AttemptCopies ==
  ASSUME Types, RetrInv, RetrieveAttempt
  PROVE  /\ Len(dest') >= Len(dest) /\ bytesSoFar' = offset + Len(dest')
         /\ Copied' /\ file' = file /\ offset' = offset
         /\ pc = "retr" /\ call = "retrieve"
<1>0. pc = "retr" /\ call = "retrieve" /\ file' = file /\ offset' = offset
  BY DEF RetrieveAttempt, Types, Progress, StorLabels, Given, constants
<1>1. PICK h \in 1..caps.hosts, n \in Nat :
        /\ n <= Left(file[h], bytesSoFar)
        /\ dest' = dest \o Bytes(file[h], bytesSoFar, n)
        /\ bytesSoFar' = bytesSoFar + n
  BY RetrievePicks DEF Retrieved
<1> DEFINE s == file[1]
<1>2. /\ file[h] = s /\ bytesSoFar = offset + Len(dest) /\ Copied
  BY <1>0 DEF RetrInv
<1>3. /\ s \in Seq(Int) /\ Len(s) \in Nat /\ dest \in Seq(Int) /\ Len(dest) \in Nat
      /\ offset \in Nat /\ bytesSoFar \in Nat
  BY TheFile DEF Types, Files, Given, Counters
<1> HIDE DEF s
<1>4. CASE n = 0
  <2>1. Bytes(s, bytesSoFar, 0) = <<>>
    BY <1>3 DEF Bytes
  <2>2. dest' = dest
    BY <1>1, <1>2, <1>3, <1>4, <2>1, ConcatEmptySeq
  <2> QED BY <1>0, <1>1, <1>2, <1>3, <1>4, <2>2 DEF Copied, s
<1>5. CASE n > 0
  <2>1. bytesSoFar + n <= Len(s)
    BY <1>1, <1>2, <1>3, <1>5 DEF Left
  <2>2. dest = SubSeq(s, offset + 1, bytesSoFar) /\ offset <= bytesSoFar
    BY <1>2, <1>3 DEF Copied, s
  <2>3. /\ dest' = SubSeq(s, offset + 1, bytesSoFar + n)
        /\ Len(dest') = bytesSoFar + n - offset
    <3>1. dest' = SubSeq(s, offset + 1, bytesSoFar) \o Bytes(s, bytesSoFar, n)
      BY <1>1, <1>2, <2>2, Zenon
    <3>2. /\ SubSeq(s, offset + 1, bytesSoFar) \o Bytes(s, bytesSoFar, n)
               = SubSeq(s, offset + 1, bytesSoFar + n)
          /\ Len(SubSeq(s, offset + 1, bytesSoFar + n)) = bytesSoFar + n - offset
      <4>1. /\ s \in Seq(Int) /\ offset \in Nat /\ bytesSoFar \in Nat /\ n \in Nat
            /\ offset <= bytesSoFar /\ bytesSoFar + n <= Len(s)
        BY <1>3, <2>1, <2>2
      <4> QED BY ONLY <4>1, BytesExtend, Zenon
    <3> QED BY <3>1, <3>2, Zenon
  <2>4. bytesSoFar + n = offset + Len(dest') /\ Len(dest') >= Len(dest)
    BY <1>2, <1>3, <2>3
  <2>5. dest' = SubSeq(s, offset + 1, offset + Len(dest')) /\ offset + Len(dest') <= Len(s)
    BY <2>1, <2>3, <2>4
  <2> QED BY <1>0, <1>1, <2>4, <2>5 DEF Copied, s
<1> QED BY <1>4, <1>5

LEMMA InitRetr == Init => RetrInv
<1> SUFFICES ASSUME Init, call = "retrieve" PROVE RetrInv
  BY DEF RetrInv
<1>1. /\ pc = "retrSize" /\ dest = <<>> /\ size = -2
      /\ \E f \in Contents : file = [h \in 1..caps.hosts |-> f]
  BY DEF Init
<1>2. caps.hosts \in 1..MaxHosts
  BY DEF Init
<1>3. \A h \in 1..caps.hosts : file[h] = file[1]
  BY <1>1, <1>2
<1> QED BY <1>1, <1>3 DEF RetrInv

LEMMA StepRetr ==
  ASSUME Types, RetrInv, [Next]_vars
  PROVE  RetrInv'
<1> SUFFICES ASSUME call' = "retrieve" PROVE RetrInv'
  BY DEF RetrInv
<1>0. UNCHANGED constants
  BY DEF Next, RetrieveFrom, RetrieveSize, RetrieveResume, RetrieveAttempt,
         Store, StoreResume, StoreSeek, StoreAttempt, StoreCheck, SizeFails, Hang, vars
<1>1. call = "retrieve" /\ caps' = caps /\ offset' = offset
  BY <1>0 DEF constants
<1>2. pc \in RetrLabels /\ ~Store
  BY <1>1 DEF Types, Progress, Store, StoreResume, StoreSeek, StoreAttempt, StoreCheck,
              RetrLabels
<1>3. CASE RetrieveSize
  <2>1. file' = file /\ dest' = dest /\ dest = <<>> /\ pc' \in {"retrResume", "done"}
    BY <1>1, <1>3 DEF RetrieveSize, RetrInv, Finish, Goto
  <2>2. size' = -1 \/ size' = Len(file[1])
    BY <1>1, <1>3, SizeIs DEF RetrieveSize, RetrInv
  <2>3. pc' = "retrResume" => size' = -1 \/ offset <= size'
    BY <1>3, <2>2, TheFile DEF RetrieveSize, Finish, Goto, Types, Given
  <2> QED BY <1>1, <2>1, <2>2, <2>3 DEF RetrInv
<1>4. CASE RetrieveResume
  <2>1. /\ file' = file /\ dest' = dest /\ dest = <<>> /\ pc' \in {"retr", "done"}
        /\ size' = size /\ bytesSoFar' = offset
    BY <1>1, <1>4 DEF RetrieveResume, RetrInv, Finish, Goto
  <2>2. bytesSoFar' = offset + Len(dest')
    BY <2>1 DEF Types, Given
  <2>3. Copied'
    BY <1>1, <2>1, NothingCopied DEF Copied
  <2> QED BY <1>1, <1>4, <2>1, <2>2, <2>3 DEF RetrInv, RetrieveResume
<1>5. CASE RetrieveAttempt
  <2>1. size' = size /\ pc' \in {"retr", "done"}
    BY <1>5 DEF RetrieveAttempt, Finish, Goto
  <2> QED BY <1>1, <1>5, <2>1, AttemptCopies DEF RetrInv
<1>6. CASE SizeFails
  <2>1. pc' = "done" /\ file' = file
    BY <1>6 DEF SizeFails, Finish
  <2> QED BY <1>1, <2>1 DEF RetrInv
<1>7. CASE UNCHANGED vars
  BY <1>7 DEF vars, constants, RetrInv, Copied
<1>8. CASE Hang
  <2>1. pc' = "hung" /\ file' = file
    BY <1>8 DEF Hang, Goto
  <2> QED BY <1>1, <2>1 DEF RetrInv
<1> QED BY <1>2, <1>3, <1>4, <1>5, <1>6, <1>7, <1>8 DEF Next, RetrieveFrom

LEMMA RetrieveInvariant == Spec => [](Types /\ RetrInv)
BY InitTypes, InitRetr, StepTypes, StepRetr, PTL DEF Spec

(* The abstract state while a Store runs does not change. *)
LEMMA StoreCopiesNothing ==
  ASSUME Types, call # "retrieve", [Next]_vars
  PROVE  UNCHANGED Copy!vars
<1>0. UNCHANGED constants
  BY DEF Next, RetrieveFrom, RetrieveSize, RetrieveResume, RetrieveAttempt,
         Store, StoreResume, StoreSeek, StoreAttempt, StoreCheck, SizeFails, Hang, vars
<1>1. call' # "retrieve" /\ offset' = offset
  BY <1>0 DEF constants
<1>2. pc \in StorLabels
  BY DEF Types, Progress
<1>3. ~RetrieveFrom
  BY <1>2 DEF RetrieveFrom, RetrieveSize, RetrieveResume, RetrieveAttempt, StorLabels
<1>4. dest' = dest
  BY <1>3 DEF Next, Store, StoreResume, StoreSeek, StoreAttempt, StoreCheck, SizeFails, Hang, vars
<1> QED BY <1>1, <1>4 DEF Copy!vars, OfRetrieve

(* A step of RetrieveFrom, with what it may do to the abstract state. *)
LEMMA RetrieveAdvances ==
  ASSUME Types, Types', RetrInv, call = "retrieve", result = "none",
         UNCHANGED constants, file' = file,
         Len(dest') >= Len(dest), Copied',
         size >= 0 => size' >= 0,
         result' = "ok" => \/ size' = -1
                           \/ dest' = SubSeq(file[1], offset + 1, Len(file[1]))
  PROVE  Copy!Advance
<1> DEFINE s == file[1]
<1>1. s \in Seq(Int) /\ Len(s) \in Nat /\ offset \in Nat /\ dest' \in Seq(Int)
  BY TheFile DEF Types, Given, Files
<1>2. call' = "retrieve" /\ offset' = offset /\ file'[1] = s
  BY DEF constants
<1>3. Copy!Wanted = SubSeq(s, offset + 1, Len(s))
  BY DEF Copy!Wanted, OfRetrieve
<1>4. dest' = SubSeq(Copy!Wanted, 1, Len(dest'))
  <2>1. /\ dest' = SubSeq(s, offset + 1, offset + Len(dest'))
        /\ Len(dest') = 0 \/ offset + Len(dest') <= Len(s)
    BY <1>2 DEF Copied
  <2>2. Len(dest') \in Nat
    BY <1>1
  <2> HIDE DEF s
  <2>3. CASE Len(dest') = 0
    <3>1. dest' = <<>>
      BY <1>1, <2>3, EmptySeq
    <3>2. SubSeq(s, offset + 1, Len(s)) \in Seq(Int)
      BY <1>1
    <3>3. SubSeq(SubSeq(s, offset + 1, Len(s)), 1, 0) = <<>>
      BY <3>2
    <3> QED BY <1>3, <2>3, <3>1, <3>3
  <2>4. CASE offset + Len(dest') <= Len(s)
    <3>1. SubSeq(SubSeq(s, offset + 1, Len(s)), 1, Len(dest'))
            = SubSeq(s, offset + 1, offset + Len(dest'))
      BY <1>1, <2>2, <2>4, PieceOfRest, Zenon
    <3> QED BY <1>3, <2>1, <3>1, Zenon
  <2> QED BY <2>1, <2>3, <2>4
<1>5. UNCHANGED <<OfRetrieve(file[1], <<>>), offset>>
  BY <1>2 DEF OfRetrieve
<1>6. OfRetrieve(size >= 0, FALSE) => OfRetrieve(size >= 0, FALSE)'
  BY <1>2 DEF OfRetrieve
<1>7. /\ OfRetrieve(result, "none") = "none"
      /\ OfRetrieve(result, "none")' \in {"none", "ok", "err"}
  BY <1>2 DEF OfRetrieve, Types, Progress
<1>8. (OfRetrieve(result, "none")' = "ok" /\ OfRetrieve(size >= 0, FALSE)')
        => dest' = Copy!Wanted
  BY <1>2, <1>3 DEF OfRetrieve
<1> QED BY <1>4, <1>5, <1>6, <1>7, <1>8 DEF Copy!Advance

(* Every step is one of FileCopy, or changes nothing that FileCopy sees. *)
LEMMA StepCopies ==
  ASSUME Types, Types', RetrInv, [Next]_vars
  PROVE  [Copy!Advance]_(Copy!vars)
<1>1. CASE call # "retrieve"
  BY <1>1, StoreCopiesNothing
<1>2. CASE UNCHANGED vars
  BY <1>2 DEF vars, constants, Copy!vars, OfRetrieve
<1>3. CASE call = "retrieve" /\ Next
  <2>0. UNCHANGED constants
    BY <1>3 DEF Next, RetrieveFrom, RetrieveSize, RetrieveResume, RetrieveAttempt,
                Store, StoreResume, StoreSeek, StoreAttempt, StoreCheck, SizeFails, Hang
  <2>1. offset' = offset /\ offset \in Nat
    BY <2>0 DEF constants, Types, Given
  <2>2. pc \in RetrLabels
    BY <1>3 DEF Types, Progress
  <2>3. ~Store
    BY <2>2 DEF Store, StoreResume, StoreSeek, StoreAttempt, StoreCheck, RetrLabels
  <2>4. result = "none" \/ pc = "done"
    BY DEF Types, Progress
  <2>5. file[1] \in Seq(Int) /\ Len(file[1]) \in Nat
    BY TheFile
  <2>6. CASE RetrieveSize \/ SizeFails
    <3>1. /\ file' = file /\ dest' = dest /\ dest = <<>> /\ result = "none" /\ size = -2
          /\ result' # "ok"
      BY <1>3, <2>2, <2>4, <2>6 DEF RetrieveSize, SizeFails, RetrInv, RetrLabels, Finish, Goto
    <3>2. Copied' /\ Len(dest') >= Len(dest)
      BY <2>1, <3>1, NothingCopied DEF Copied
    <3> QED BY <1>3, <2>0, <3>1, <3>2, RetrieveAdvances
  <2>7. CASE RetrieveResume
    <3>1. /\ file' = file /\ dest' = dest /\ dest = <<>> /\ result = "none" /\ size' = size
          /\ result' = "ok" => offset = size
          /\ size = -1 \/ size = Len(file[1])
      BY <1>3, <2>4, <2>7 DEF RetrieveResume, RetrInv, Finish, Goto
    <3>2. Copied' /\ Len(dest') >= Len(dest)
      BY <2>1, <3>1, NothingCopied DEF Copied
    <3>3. offset = Len(file[1]) => SubSeq(file[1], offset + 1, Len(file[1])) = <<>>
      BY <2>1, <2>5
    <3>4. result' = "ok" => \/ size' = -1
                            \/ dest' = SubSeq(file[1], offset + 1, Len(file[1]))
      BY <3>1, <3>3
    <3> QED BY <1>3, <2>0, <3>1, <3>2, <3>4, RetrieveAdvances
  <2>8. CASE RetrieveAttempt
    <3>1. /\ Len(dest') >= Len(dest) /\ bytesSoFar' = offset + Len(dest')
          /\ Copied' /\ file' = file /\ pc = "retr"
      BY <2>8, AttemptCopies
    <3>2. result = "none" /\ size' = size /\ (size = -1 \/ size = Len(file[1]))
      BY <1>3, <2>4, <2>8, <3>1 DEF RetrieveAttempt, RetrInv
    <3>3. result' = "ok" => size = -1 \/ bytesSoFar' = size
      BY <2>8, <3>2 DEF RetrieveAttempt, Finish, Goto
    <3>4. dest' = SubSeq(file[1], offset + 1, offset + Len(dest'))
      BY <2>1, <3>1 DEF Copied
    <3>5. result' = "ok" => \/ size' = -1
                            \/ dest' = SubSeq(file[1], offset + 1, Len(file[1]))
      BY <3>1, <3>2, <3>3, <3>4
    <3> QED BY <1>3, <2>0, <3>1, <3>2, <3>5, RetrieveAdvances
  <2>9. CASE Hang
    <3>1. file' = file /\ dest' = dest /\ size' = size /\ result' = result /\ call' = call
      BY <2>0, <2>9 DEF Hang, Goto, constants
    <3> QED BY <2>1, <3>1 DEF Copy!vars, OfRetrieve
  <2> QED BY <1>3, <2>3, <2>6, <2>7, <2>8, <2>9 DEF Next, RetrieveFrom
<1> QED BY <1>1, <1>2, <1>3

LEMMA InitCopies == Init => Copy!Init
BY DEF Init, Copy!Init, OfRetrieve

(* RetrieveFrom keeps what FileCopy promises, whatever the file, the       *)
(* offset, the number of hosts and the sequence of failed, short and       *)
(* resumed attempts: what reaches dest is the file from the offset on, in  *)
(* order and without gaps, and a success that SIZE could verify is all of  *)
(* it.                                                                     *)
THEOREM RetrieveRefinesCopy == Spec => RetrieveImplementsFileCopy
BY RetrieveInvariant, InitCopies, StepCopies, PTL
   DEF Spec, RetrieveImplementsFileCopy, Copy!Spec

-----------------------------------------------------------------------------
(* Store, where no retry moves src away from the upload                    *)

(* src stands at its beginning, or Store never tries again: then Seek      *)
(* does not take a position in the upload for one in src.                  *)
Positioned == start = 0 \/ caps.hosts > 1 \/ ~caps.rest \/ ~caps.seeker

(* The file is a beginning of the upload. *)
Begun(f) == \E k \in 0..Len(Upload) : f = SubSeq(Upload, 1, k)

(* Where an attempt starts and what the servers hold: a Store that is      *)
(* tried again has one host, src stands where the file there ends, the     *)
(* host that took the last STOR has a beginning of the upload, and an      *)
(* attempt that succeeded has read src to its end.                         *)
StorInv ==
  (call = "store" /\ Positioned) =>
    /\ canResume => caps.hosts = 1 /\ start = 0
    /\ pc = "storResume" => srcPos = start /\ bytesSoFar = 0 /\ wrote = 0
    /\ pc = "stor" => srcPos = start + bytesSoFar /\ bytesSoFar <= Len(Upload)
    /\ (pc = "stor" /\ bytesSoFar > 0) =>
         \A h \in 1..caps.hosts : file[h] = SubSeq(Upload, 1, bytesSoFar)
    /\ (pc = "stor" /\ wrote # 0) => Len(file[wrote]) = bytesSoFar
    /\ wrote # 0 => Begun(file[wrote])
    /\ pc = "storSize" => canResume /\ wrote # 0
    /\ pc = "storCheck" => wrote # 0 /\ bytesSoFar = Len(Upload)
    /\ (result = "ok" /\ Verified) => wrote # 0 /\ file[wrote] = Upload

(* The upload is what is left of src. *)
LEMMA UploadIs ==
  ASSUME Types
  PROVE  /\ Upload \in Seq(Int) /\ Len(Upload) \in Nat /\ Len(Upload) = Left(data, start)
         /\ \A i \in 1..Len(Upload) : Upload[i] = data[start + i]
<1>1. data \in Seq(Int) /\ Len(data) \in Nat /\ start \in Nat
  BY DEF Types, Given
<1>2. CASE start < Len(data)
  BY <1>1, <1>2 DEF Upload, Left
<1>3. CASE start >= Len(data)
  <2>1. Upload = <<>>
    BY <1>1, <1>3 DEF Upload
  <2> QED BY <1>1, <1>3, <2>1 DEF Left
<1> QED BY <1>1, <1>2, <1>3

LEMMA UploadKept ==
  ASSUME UNCHANGED constants
  PROVE  Upload' = Upload /\ call' = call /\ caps' = caps /\ (Positioned' <=> Positioned)
         /\ start' = start /\ data' = data
BY DEF Upload, Positioned, constants

(* A beginning of the upload is as long as it says. *)
LEMMA BeginLength ==
  ASSUME Types, NEW k \in Nat, k <= Len(Upload)
  PROVE  Len(SubSeq(Upload, 1, k)) = k /\ SubSeq(Upload, 1, k) \in Seq(Int)
<1>1. Upload \in Seq(Int) /\ Len(Upload) \in Nat
  BY UploadIs
<1> QED BY <1>1

LEMMA WholeUpload ==
  ASSUME Types
  PROVE  SubSeq(Upload, 1, Len(Upload)) = Upload
<1>1. Upload \in Seq(Int) /\ Len(Upload) \in Nat
  BY UploadIs
<1>2. /\ SubSeq(Upload, 1, Len(Upload)) \in Seq(Int)
      /\ Len(SubSeq(Upload, 1, Len(Upload))) = Len(Upload)
      /\ \A k \in 1..Len(Upload) : SubSeq(Upload, 1, Len(Upload))[k] = Upload[k]
  BY <1>1
<1> QED BY <1>1, <1>2, SeqEqual

(* What an attempt reads from src is the next piece of the upload. *)
LEMMA UploadBytes ==
  ASSUME Types, NEW m \in Nat, bytesSoFar + m <= Len(Upload), srcPos = start + bytesSoFar
  PROVE  Bytes(data, srcPos, m) = Bytes(Upload, bytesSoFar, m)
<1> DEFINE b == bytesSoFar
           got == Bytes(data, srcPos, m)
           next == Bytes(Upload, b, m)
<1>1. /\ data \in Seq(Int) /\ Len(data) \in Nat /\ start \in Nat /\ b \in Nat
      /\ Upload \in Seq(Int) /\ Len(Upload) \in Nat
      /\ \A i \in 1..Len(Upload) : Upload[i] = data[start + i]
  BY UploadIs DEF Types, Given, Counters
<1>2. Len(Upload) = IF start < Len(data) THEN Len(data) - start ELSE 0
  BY UploadIs DEF Left
<1>3. CASE m = 0
  <2>1. got = <<>> /\ next = <<>>
    BY <1>1, <1>3 DEF Bytes
  <2> QED BY <2>1
<1>4. CASE m > 0
  <2>1. start + b + m <= Len(data)
    BY <1>1, <1>2, <1>4
  <2>2. got \in Seq(Int) /\ Len(got) = m /\ \A i \in 1..m : got[i] = data[start + b + i]
    <3>1. got = SubSeq(data, start + b + 1, start + b + m)
      BY DEF Bytes
    <3> HIDE DEF got, b
    <3> DEFINE p == start + b
    <3>2. p \in Nat /\ p + m <= Len(data) /\ got = SubSeq(data, p + 1, p + m)
      BY <1>1, <2>1, <3>1
    <3> HIDE DEF p
    <3>3. /\ got \in Seq(Int) /\ Len(got) = m /\ \A i \in 1..m : got[i] = data[p + i]
      BY <1>1, <3>2
    <3> QED BY <3>3 DEF p
  <2>3. next \in Seq(Int) /\ Len(next) = m /\ \A i \in 1..m : next[i] = Upload[b + i]
    <3>1. next = SubSeq(Upload, b + 1, b + m) /\ b + m <= Len(Upload)
      BY DEF Bytes
    <3> HIDE DEF next, b
    <3> QED BY <1>1, <3>1
  <2> HIDE DEF got, next, b
  <2>4. \A i \in 1..m : b + i \in 1..Len(Upload) /\ start + (b + i) = start + b + i
    BY <1>1 DEF b
  <2>5. \A i \in 1..m : got[i] = next[i]
    BY <1>1, <2>2, <2>3, <2>4
  <2>6. got = next
    BY <2>2, <2>3, <2>5, SeqEqual
  <2> QED BY <2>6 DEF got, next, b
<1> QED BY <1>3, <1>4

(* The attempt appends to a beginning of the upload the bytes that follow. *)
LEMMA AppendsNext ==
  ASSUME Types, NEW f \in Seq(Int), NEW m \in Nat, bytesSoFar + m <= Len(Upload),
         srcPos = start + bytesSoFar,
         bytesSoFar > 0 => f = SubSeq(Upload, 1, bytesSoFar)
  PROVE  Prefix(f, bytesSoFar) \o Bytes(data, srcPos, m) = SubSeq(Upload, 1, bytesSoFar + m)
<1> DEFINE b == bytesSoFar
<1>0. Bytes(data, srcPos, m) = Bytes(Upload, b, m)
  BY UploadBytes
<1>1. Upload \in Seq(Int) /\ Len(Upload) \in Nat /\ b \in Nat /\ Len(f) \in Nat
  BY UploadIs DEF Types, Counters
<1> HIDE DEF b
<1>2. b + m <= Len(Upload) /\ b <= Len(Upload)
  BY <1>1 DEF b
<1>3. Prefix(f, b) = SubSeq(Upload, 1, b)
  <2>1. CASE b = 0
    <3>1. SubSeq(f, 1, 0) = <<>> /\ SubSeq(Upload, 1, 0) = <<>>
      BY <1>1
    <3>2. Prefix(f, 0) = SubSeq(f, 1, 0)
      <4>1. f \in Seq(Int) /\ 0 \in Nat /\ 0 <= Len(f)
        BY <1>1
      <4> QED BY ONLY <4>1, PrefixIsSubSeq, Zenon
    <3> QED BY <2>1, <3>1, <3>2
  <2>2. CASE b > 0
    <3>1. f = SubSeq(Upload, 1, b)
      BY <2>2 DEF b
    <3>2. Len(f) = b
      BY <1>1, <1>2, <3>1, BeginLength
    <3>3. Prefix(f, b) = SubSeq(f, 1, b)
      <4>1. f \in Seq(Int) /\ b \in Nat /\ b <= Len(f)
        BY <1>1, <3>2
      <4> QED BY ONLY <4>1, PrefixIsSubSeq, Zenon
    <3>4. SubSeq(f, 1, b) \in Seq(Int) /\ Len(SubSeq(f, 1, b)) = Len(f)
          /\ \A k \in 1..Len(f) : SubSeq(f, 1, b)[k] = f[k]
      BY <1>1, <3>2
    <3>5. SubSeq(f, 1, b) = f
      BY <3>4, SeqEqual
    <3> QED BY <3>1, <3>3, <3>5
  <2> QED BY <1>1, <2>1, <2>2
<1>4. SubSeq(Upload, 1, b) \o Bytes(Upload, b, m) = SubSeq(Upload, 1, b + m)
  <2>1. \A i \in Nat : i = 0 =>
          SubSeq(Upload, i + 1, b) \o Bytes(Upload, b, m) = SubSeq(Upload, i + 1, b + m)
    <3>1. SUFFICES ASSUME NEW i \in Nat, i = 0
                   PROVE  SubSeq(Upload, i + 1, b) \o Bytes(Upload, b, m)
                            = SubSeq(Upload, i + 1, b + m)
      OBVIOUS
    <3>2. /\ Upload \in Seq(Int) /\ i \in Nat /\ b \in Nat /\ m \in Nat
          /\ i <= b /\ b + m <= Len(Upload)
      BY <1>1, <1>2, <3>1
    <3> QED BY ONLY <3>2, BytesExtend, ZenonT(60)
  <2>2. \A i \in Nat : i = 0 => i + 1 = 1
    OBVIOUS
  <2>3. \E i \in Nat : i = 0
    OBVIOUS
  <2> QED BY <2>1, <2>2, <2>3, Zenon
<1> QED BY <1>0, <1>3, <1>4, Zenon DEF b

LEMMA InitStor == Init => StorInv
<1> SUFFICES ASSUME Init, call = "store" PROVE StorInv
  BY DEF StorInv
<1>1. /\ pc = "storResume" /\ srcPos = start /\ bytesSoFar = 0 /\ wrote = 0
      /\ result = "none" /\ canResume = FALSE
  BY DEF Init
<1> QED BY <1>1 DEF StorInv

(* What an attempt does to the host it goes to: nothing, or it leaves a    *)
(* beginning of the upload there, no shorter than what was skipped.  A     *)
(* success has read src to its end.                                        *)
LEMMA AttemptWrites ==
  ASSUME Types, StorInv, call = "store", Positioned, pc = "stor",
         NEW n \in Nat, n <= Left(data, srcPos),
         NEW h \in 1..caps.hosts, NEW ok \in BOOLEAN, Stored(h, ok, n)
  PROVE  /\ \/ n = 0 /\ ~ok /\ file' = file /\ wrote' = wrote
            \/ /\ wrote' = h
               /\ \E k \in 0..Len(Upload) : k >= bytesSoFar /\ file'[h] = SubSeq(Upload, 1, k)
         /\ ok => bytesSoFar' = Len(Upload)
<1>0. data \in Seq(Int) /\ bytesSoFar \in Nat /\ start \in Nat /\ file[h] \in Seq(Int)
  BY DEF Types, Given, Counters, Files
<1>1. /\ Len(data) \in Nat /\ Len(Upload) \in Nat /\ bytesSoFar \in Nat /\ start \in Nat
      /\ file[h] \in Seq(Int) /\ Len(Upload) = Left(data, start)
  BY <1>0, UploadIs
<1>2. srcPos = start + bytesSoFar /\ bytesSoFar <= Len(Upload)
      /\ (bytesSoFar > 0 => file[h] = SubSeq(Upload, 1, bytesSoFar))
  BY DEF StorInv
<1>3. Left(data, srcPos) = Len(Upload) - bytesSoFar
  BY <1>1, <1>2 DEF Left
<1>4. ok => bytesSoFar' = Len(Upload)
  BY <1>1, <1>2, <1>3 DEF Stored
<1>5. CASE n = 0 /\ ~ok /\ UNCHANGED <<file, wrote, stalled>>
  BY <1>4, <1>5
<1>6. CASE ~(n = 0 /\ ~ok /\ UNCHANGED <<file, wrote, stalled>>)
  <2>1. PICK m \in 0..n :
          /\ file' = [file EXCEPT ![h] = Prefix(@, bytesSoFar) \o Bytes(data, srcPos, m)]
          /\ wrote' = h
    BY <1>6 DEF Stored
  <2>2. m \in Nat /\ m <= Left(data, srcPos) /\ bytesSoFar + m <= Len(Upload)
    BY <1>1, <1>2, <1>3
  <2>3. file'[h] = Prefix(file[h], bytesSoFar) \o Bytes(data, srcPos, m)
    BY <2>1, <2>2, StoredFile
  <2>4. Prefix(file[h], bytesSoFar) \o Bytes(data, srcPos, m) = SubSeq(Upload, 1, bytesSoFar + m)
    BY <1>1, <1>2, <2>2, AppendsNext
  <2>5. file'[h] = SubSeq(Upload, 1, bytesSoFar + m)
    BY <2>3, <2>4
  <2>6. bytesSoFar + m \in 0..Len(Upload) /\ bytesSoFar + m >= bytesSoFar
    BY <1>1, <2>2
  <2> QED BY <1>4, <2>1, <2>5, <2>6
<1> QED BY <1>5, <1>6

(* The attempt leaves a beginning of the upload wherever it wrote. *)
LEMMA AttemptBegins ==
  ASSUME Types, StorInv, call = "store", Positioned, pc = "stor", Upload' = Upload,
         NEW n \in Nat, n <= Left(data, srcPos),
         NEW h \in 1..caps.hosts, NEW ok \in BOOLEAN, Stored(h, ok, n)
  PROVE  /\ wrote' # 0 => Begun(file[wrote])'
         /\ n > 0 \/ ok => wrote' # 0
         /\ ok => bytesSoFar' = Len(Upload)
<1>1. CASE n = 0 /\ ~ok /\ file' = file /\ wrote' = wrote
  BY <1>1 DEF StorInv, Begun
<1>2. CASE wrote' = h /\ \E k \in 0..Len(Upload) : file'[h] = SubSeq(Upload, 1, k)
  <2>1. h # 0
    OBVIOUS
  <2> QED BY <1>2, <2>1, AttemptWrites DEF Begun
<1> QED BY <1>1, <1>2, AttemptWrites

LEMMA StepStor ==
  ASSUME Types, Types', StorInv, [Next]_vars
  PROVE  StorInv'
<1> SUFFICES ASSUME call' = "store", Positioned' PROVE StorInv'
  BY DEF StorInv
<1>0. UNCHANGED constants
  BY DEF Next, RetrieveFrom, RetrieveSize, RetrieveResume, RetrieveAttempt,
         Store, StoreResume, StoreSeek, StoreAttempt, StoreCheck, SizeFails, Hang, vars
<1>1. call = "store" /\ Positioned /\ caps' = caps /\ Upload' = Upload /\ start' = start
  BY <1>0, UploadKept
<1>2. pc \in StorLabels
  BY <1>1 DEF Types, Progress
<1>3. ~RetrieveFrom
  BY <1>2 DEF RetrieveFrom, RetrieveSize, RetrieveResume, RetrieveAttempt, StorLabels
<1>4. /\ Len(Upload) \in Nat /\ caps.hosts \in 1..MaxHosts /\ start \in Nat
      /\ result = "none" \/ pc = "done"
      /\ wrote \in 0..caps.hosts
  BY UploadIs DEF Types, Given, Progress, Hosts
<1>5. CASE StoreResume
  <2>1. /\ pc = "storResume" /\ pc' = "stor" /\ result' = result /\ srcPos' = srcPos
        /\ bytesSoFar' = bytesSoFar /\ wrote' = wrote
    BY <1>5 DEF StoreResume, Goto
  <2>2. srcPos = start /\ bytesSoFar = 0 /\ wrote = 0 /\ result = "none"
    BY <1>1, <1>4, <2>1 DEF StorInv
  <2>3. canResume' => caps.hosts = 1 /\ start = 0
    <3>1. canResume' => caps.hosts = 1 /\ caps.rest /\ caps.seeker
      BY <1>5 DEF StoreResume, ResumeAnswers
    <3> QED BY <1>1, <3>1 DEF Positioned
  <2> QED BY <1>1, <1>4, <2>1, <2>2, <2>3 DEF StorInv
<1>6. CASE StoreSeek
  <2>1. pc = "storSize" /\ canResume' = canResume /\ file' = file /\ wrote' = wrote
    BY <1>6 DEF StoreSeek
  <2>2. /\ canResume /\ caps.hosts = 1 /\ start = 0 /\ result = "none"
        /\ wrote = 1 /\ Begun(file[1])
    BY <1>1, <1>4, <2>1 DEF StorInv
  <2>3. PICK k \in 0..Len(Upload) : file[1] = SubSeq(Upload, 1, k)
    BY <2>2 DEF Begun
  <2>4. k \in Nat /\ k <= Len(Upload) /\ Len(file[1]) = k
    BY <1>4, <2>3, BeginLength
  <2>5. Begun(file[wrote])'
    BY <1>1, <2>1, <2>2 DEF Begun
  <2>6. CASE Finish("err")
    BY <1>1, <2>1, <2>2, <2>5, <2>6 DEF Finish, StorInv
  <2>7. CASE ~Finish("err")
    <3>1. /\ size' # -1 /\ srcPos' = size' /\ bytesSoFar' = size' /\ pc' = "stor"
          /\ result' = result
      BY <1>6, <2>7 DEF StoreSeek, Goto
    <3>2. size' = k
      <4>1. asked' \in 1..caps.hosts /\ size' = Len(file[asked'])
        BY <1>6, <3>1, SizeIs DEF StoreSeek
      <4>2. asked' = 1
        BY <2>2, <4>1
      <4> QED BY <2>4, <4>1, <4>2
    <3>3. \A h \in 1..caps.hosts : file[h] = SubSeq(Upload, 1, k)
      BY <2>2, <2>3
    <3> QED BY <1>1, <2>1, <2>2, <2>4, <2>5, <3>1, <3>2, <3>3 DEF StorInv
  <2> QED BY <2>6, <2>7
<1>7. CASE StoreAttempt
  <2>1. PICK h \in 1..caps.hosts, ok \in BOOLEAN, n \in Nat :
          n <= Left(data, srcPos) /\ Stored(h, ok, n)
    BY <1>7, StorePicks
  <2>2. pc = "stor" /\ canResume' = canResume /\ result = "none"
    BY <1>4, <1>7 DEF StoreAttempt
  <2>3. canResume => caps.hosts = 1 /\ start = 0
    BY <1>1 DEF StorInv
  <2>4. /\ wrote' # 0 => Begun(file[wrote])'
        /\ n > 0 \/ ok => wrote' # 0
        /\ ok => bytesSoFar' = Len(Upload)
    BY <1>1, <2>1, <2>2, AttemptBegins
  <2>5. CASE ok
    <3>1. pc' = "storCheck" /\ result' = "none"
      BY <2>1, <2>2, <2>5 DEF Stored, Goto
    <3> QED BY <1>1, <2>2, <2>3, <2>4, <2>5, <3>1 DEF StorInv
  <2>6. CASE ~ok /\ (n = 0 \/ ~canResume)
    <3>1. pc' \in {"done", "hung"} /\ result' # "ok"
      BY <2>1, <2>2, <2>6 DEF Stored, Finish, Goto
    <3> QED BY <1>1, <2>2, <2>3, <2>4, <3>1 DEF StorInv
  <2>7. CASE ~ok /\ n # 0 /\ canResume
    <3>1. pc' = "storSize" /\ result' = "none"
      BY <2>1, <2>2, <2>7 DEF Stored, Goto
    <3> QED BY <1>1, <2>2, <2>3, <2>4, <2>7, <3>1 DEF StorInv
  <2> QED BY <2>5, <2>6, <2>7
<1>8. CASE StoreCheck
  <2>1. /\ pc = "storCheck" /\ pc' = "done" /\ canResume' = canResume /\ file' = file
        /\ wrote' = wrote
        /\ result' = "ok" => size' = -1 \/ size' = bytesSoFar
    BY <1>8 DEF StoreCheck, Finish
  <2>2. wrote # 0 /\ bytesSoFar = Len(Upload) /\ Begun(file[wrote])
    BY <1>1, <2>1 DEF StorInv
  <2>3. (result' = "ok" /\ Verified') => file[wrote] = Upload
    <3>1. SUFFICES ASSUME size' = bytesSoFar, size' # -1, asked' = wrote PROVE file[wrote] = Upload
      BY <2>1 DEF Verified
    <3>2. PICK k \in 0..Len(Upload) : file[wrote] = SubSeq(Upload, 1, k)
      BY <2>2 DEF Begun
    <3>3. k \in Nat /\ k <= Len(Upload) /\ Len(file[wrote]) = k
      BY <1>4, <3>2, BeginLength
    <3>4. size' = Len(file[wrote])
      BY <1>8, <3>1, SizeIs DEF StoreCheck
    <3> QED BY <2>2, <3>1, <3>2, <3>3, <3>4, WholeUpload
  <2>4. Begun(file[wrote])'
    BY <1>1, <2>1, <2>2 DEF Begun
  <2> QED BY <1>1, <2>1, <2>2, <2>3, <2>4 DEF StorInv
<1>9. CASE SizeFails
  <2>1. /\ pc' = "done" /\ result' = "err" /\ canResume' = canResume /\ file' = file
        /\ wrote' = wrote
    BY <1>9 DEF SizeFails, Finish
  <2> QED BY <1>1, <2>1 DEF StorInv, Begun
<1>10. CASE UNCHANGED vars
  BY <1>1, <1>10 DEF vars, StorInv, Begun, Verified
<1>11. CASE Hang
  <2>1. /\ pc' = "hung" /\ result' = "none" /\ canResume' = canResume /\ file' = file
        /\ wrote' = wrote
    BY <1>4, <1>11 DEF Hang, Goto
  <2> QED BY <1>1, <2>1 DEF StorInv, Begun
<1> QED BY <1>3, <1>5, <1>6, <1>7, <1>8, <1>9, <1>10, <1>11 DEF Next, Store

(* The invariant behind the results on Store: one that is tried again has *)
(* one host, src stands where the file there ends, and the host that took  *)
(* the last STOR has a beginning of the upload.                            *)
THEOREM StoreInvariant == Spec => [](Types /\ StorInv)
BY InitTypes, InitStor, StepTypes, StepStor, PTL DEF Spec

(* Store has uploaded all that it was given when it succeeds after the     *)
(* host it uploaded to confirmed the length, for contents of any length,   *)
(* on any number of mirrors, and any sequence of lost, resent and resumed  *)
(* bytes, if src stands at its beginning or no retry can seek in it.  The  *)
(* condition is needed: run store_seek shows what Seek does otherwise.     *)
THEOREM StoreUploads == Spec => [](Positioned => StoredIsUpload)
<1>1. Types /\ StorInv => (Positioned => StoredIsUpload)
  BY DEF StorInv, StoredIsUpload
<1> QED BY <1>1, StoreInvariant, PTL

(* An attempt of Store that sends REST finds, on whichever host it goes    *)
(* to, exactly the bytes of src that it skips.                             *)
THEOREM StoreResumesBehindPrefix == Spec => [](Positioned => RemoteIsPrefix)
<1>1. Types /\ StorInv => (Positioned => RemoteIsPrefix)
  <2> SUFFICES ASSUME Types, StorInv, Positioned, NEW h \in Mirrors,
                      call = "store", pc = "stor", bytesSoFar > 0
               PROVE  file[h] = Prefix(Upload, bytesSoFar) /\ Len(file[h]) = bytesSoFar
    BY DEF RemoteIsPrefix
  <2>1. h \in 1..caps.hosts
    BY DEF Types, Files, Mirrors
  <2>2. file[h] = SubSeq(Upload, 1, bytesSoFar) /\ bytesSoFar <= Len(Upload)
    BY <2>1 DEF StorInv
  <2>3. bytesSoFar \in Nat /\ Upload \in Seq(Int)
    BY UploadIs DEF Types, Counters
  <2>4. Prefix(Upload, bytesSoFar) = SubSeq(Upload, 1, bytesSoFar)
    BY <2>2, <2>3, PrefixIsSubSeq
  <2>5. Len(file[h]) = bytesSoFar
    BY <2>2, <2>3, BeginLength
  <2> QED BY <2>2, <2>4, <2>5
<1> QED BY <1>1, StoreInvariant, PTL

-----------------------------------------------------------------------------
(* Store implements FileCopy, too                                          *)

(* What the upload has reached. *)
Remote == IF wrote = 0 THEN <<>> ELSE file[wrote]

(* The abstract state while a RetrieveFrom runs does not change. *)
LEMMA RetrieveStoresNothing ==
  ASSUME Types, call # "store", [Next]_vars
  PROVE  UNCHANGED Stores!vars
<1>0. UNCHANGED constants
  BY DEF Next, RetrieveFrom, RetrieveSize, RetrieveResume, RetrieveAttempt,
         Store, StoreResume, StoreSeek, StoreAttempt, StoreCheck, SizeFails, Hang, vars
<1>1. call' # "store" /\ data' = data /\ start' = start /\ call = "retrieve"
  BY <1>0 DEF constants, Types, Given
<1>2. pc \in RetrLabels
  BY <1>1 DEF Types, Progress
<1>3. ~Store
  BY <1>2 DEF Store, StoreResume, StoreSeek, StoreAttempt, StoreCheck, RetrLabels
<1>4. file' = file /\ wrote' = wrote
  BY <1>3 DEF Next, RetrieveFrom, RetrieveSize, RetrieveResume, RetrieveAttempt, SizeFails, Hang, vars
<1> QED BY <1>1, <1>4 DEF Stores!vars, OfStore

(* A step of Store is one of FileCopy if the remote file does not shrink:  *)
(* the rest is StorInv.                                                    *)
LEMMA StoreAdvances ==
  ASSUME Types, Types', StorInv', call = "store", Positioned, result = "none",
         UNCHANGED constants, Len(Remote') >= Len(Remote)
  PROVE  Stores!Advance
<1>1. /\ call' = "store" /\ Positioned' /\ data' = data /\ start' = start /\ Upload' = Upload
      /\ Upload \in Seq(Int) /\ Len(Upload) \in Nat
  BY UploadKept, UploadIs
<1>2. Stores!Wanted = Upload
  BY DEF Stores!Wanted, Upload
<1>3. Remote' = SubSeq(Upload, 1, Len(Remote'))
  <2>1. CASE wrote' = 0
    <3>1. Remote' = <<>> /\ SubSeq(Upload, 1, 0) = <<>>
      BY <1>1, <2>1 DEF Remote
    <3> QED BY <3>1
  <2>2. CASE wrote' # 0
    <3>1. PICK k \in 0..Len(Upload) : Remote' = SubSeq(Upload, 1, k)
      BY <1>1, <2>2 DEF StorInv, Begun, Remote
    <3>2. k \in Nat /\ k <= Len(Upload)
      BY <1>1
    <3>3. Len(Remote') = k
      BY <3>1, <3>2, BeginLength
    <3> QED BY <3>1, <3>3
  <2> QED BY <2>1, <2>2
<1>4. ~OfStore(result = "ok" /\ Verified, FALSE)
  BY DEF OfStore
<1>5. /\ OfStore(result, "none") = "none"
      /\ OfStore(result, "none")' \in {"none", "ok", "err"}
  BY <1>1 DEF OfStore, Types, Progress
<1>6. OfStore(result = "ok" /\ Verified, FALSE)' => Remote' = Upload
  BY <1>1 DEF OfStore, StorInv, Remote
<1>7. UNCHANGED <<data, start>>
  BY <1>1
<1> QED BY <1>2, <1>3, <1>4, <1>5, <1>6, <1>7 DEF Stores!Advance, Remote

(* The remote file never shrinks. *)
LEMMA RemoteGrows ==
  ASSUME Types, Types', StorInv, call = "store", Positioned, Next
  PROVE  Len(Remote') >= Len(Remote)
<1>1. Len(Remote) \in Nat /\ Len(<<>>) = 0
  <2>1. CASE wrote = 0
    BY <2>1 DEF Remote
  <2>2. CASE wrote # 0
    <3>1. wrote \in 1..caps.hosts
      BY <2>2 DEF Types, Hosts, Given
    <3> QED BY <2>2, <3>1 DEF Remote, Types, Files
  <2> QED BY <2>1, <2>2
<1>2. CASE StoreAttempt
  <2>1. PICK h \in 1..caps.hosts, ok \in BOOLEAN, n \in Nat :
          n <= Left(data, srcPos) /\ Stored(h, ok, n)
    BY <1>2, StorePicks
  <2>2. pc = "stor"
    BY <1>2 DEF StoreAttempt
  <2>3. CASE file' = file /\ wrote' = wrote
    BY <1>1, <2>3 DEF Remote
  <2>4. CASE wrote' = h /\ \E k \in 0..Len(Upload) : k >= bytesSoFar /\ file'[h] = SubSeq(Upload, 1, k)
    <3>1. PICK k \in 0..Len(Upload) : k >= bytesSoFar /\ file'[h] = SubSeq(Upload, 1, k)
      BY <2>4
    <3>2. k \in Nat /\ k <= Len(Upload) /\ bytesSoFar \in Nat /\ h # 0
      BY UploadIs DEF Types, Counters
    <3>3. Remote' = file'[h] /\ Len(file'[h]) = k
      BY <2>4, <3>1, <3>2, BeginLength DEF Remote
    <3>4. Len(Remote) <= bytesSoFar
      BY <1>1, <2>2, <3>2 DEF StorInv, Remote
    <3> QED BY <1>1, <3>1, <3>2, <3>3, <3>4
  <2> QED BY <2>1, <2>2, <2>3, <2>4, AttemptWrites
<1>3. CASE ~StoreAttempt
  <2>1. file' = file /\ wrote' = wrote
    BY <1>3 DEF Next, RetrieveFrom, RetrieveSize, RetrieveResume, RetrieveAttempt,
                Store, StoreResume, StoreSeek, StoreCheck, SizeFails, Hang
  <2> QED BY <1>1, <2>1 DEF Remote
<1> QED BY <1>2, <1>3

LEMMA StepStores ==
  ASSUME Types, Types', StorInv, StorInv', Positioned, [Next]_vars
  PROVE  [Stores!Advance]_(Stores!vars)
<1>1. CASE call # "store"
  BY <1>1, RetrieveStoresNothing
<1>2. CASE UNCHANGED vars
  BY <1>2 DEF vars, constants, Stores!vars, OfStore, Verified
<1>3. CASE call = "store" /\ Next
  <2>1. UNCHANGED constants
    BY <1>3 DEF Next, RetrieveFrom, RetrieveSize, RetrieveResume, RetrieveAttempt,
                Store, StoreResume, StoreSeek, StoreAttempt, StoreCheck, SizeFails, Hang
  <2>2. result = "none"
    <3>1. pc # "done"
      BY <1>3 DEF Next, RetrieveFrom, RetrieveSize, RetrieveResume, RetrieveAttempt,
                  Store, StoreResume, StoreSeek, StoreAttempt, StoreCheck, SizeFails, Hang
    <3> QED BY <3>1 DEF Types, Progress
  <2> QED BY <1>3, <2>1, <2>2, RemoteGrows, StoreAdvances
<1> QED BY <1>1, <1>2, <1>3

LEMMA InitStores == Init => Stores!Init
BY DEF Init, Stores!Init, OfStore

LEMMA PositionKept == Positioned /\ [Next]_vars => Positioned'
<1> SUFFICES ASSUME Positioned, [Next]_vars PROVE Positioned'
  OBVIOUS
<1>1. UNCHANGED constants
  BY DEF Next, RetrieveFrom, RetrieveSize, RetrieveResume, RetrieveAttempt,
         Store, StoreResume, StoreSeek, StoreAttempt, StoreCheck, SizeFails, Hang, vars
<1> QED BY <1>1, UploadKept

(* Store keeps what FileCopy promises, whatever its length, the number of  *)
(* hosts and the sequence of lost, resent and resumed bytes, if src stands *)
(* at its beginning or no retry can seek in it: from the first STOR on the *)
(* remote file is a beginning of the upload, it never shrinks, and a       *)
(* success that its host confirmed is all of it.                           *)
THEOREM StoreRefinesCopy == Spec /\ Positioned => StoreImplementsFileCopy
BY StoreInvariant, InitStores, StepStores, PositionKept, PTL
   DEF Spec, StoreImplementsFileCopy, Stores!Spec
=============================================================================
