--------------------------- MODULE ChecksumProofs ---------------------------
(* Proofs about Client.Checksum, for every FEAT reply, every algorithm that *)
(* callers ask for and every sequence of calls on a connection.             *)
EXTENDS LoginProofs

-----------------------------------------------------------------------------
(* Reading the reply                                                       *)

(* lastLine is the last line that is not empty. *)
LEMMA LastFullLine ==
  ASSUME NEW msg, DOMAIN msg \subseteq Int, NEW n \in DOMAIN msg, msg[n] # <<>>,
         \A j \in DOMAIN msg : msg[j] # <<>> => j <= n
  PROVE  lastLine(msg) = msg[n]
<1> DEFINE full == {i \in DOMAIN msg : msg[i] # <<>>}
<1>1. n \in full /\ \A j \in full : j <= n
  OBVIOUS
<1>2. \A i \in full : (\A j \in full : j <= i) => i = n
  BY <1>1
<1>3. (CHOOSE i \in full : \A j \in full : j <= i) = n
  <2> HIDE DEF full
  <2> QED BY <1>1, <1>2
<1>4. full # {}
  BY <1>1
<1> QED BY <1>3, <1>4 DEF lastLine

(* A progress line has no digest, and ends in a word. *)
LEMMA ProgressFacts ==
  ASSUME NEW a
  PROVE  /\ Progress(a) # <<>> /\ Len(Progress(a)) = 3 /\ Progress(a)[3] = Word("digest")
         /\ ~HasDigest(<<Progress(a)>>)
         /\ lastLine(<<Progress(a)>>) = Progress(a)
<1>1. Progress(a) # <<>> /\ Len(Progress(a)) = 3 /\ Progress(a)[3] = Word("digest")
  BY DEF Progress
<1>2. ~HasDigest(<<Progress(a)>>)
  BY DEF HasDigest, Progress, Word
<1>3. lastLine(<<Progress(a)>>) = Progress(a)
  <2> DEFINE msg == <<Progress(a)>>
  <2>1. msg[1] = Progress(a) /\ DOMAIN msg = {1}
    OBVIOUS
  <2> HIDE DEF msg
  <2>2. lastLine(msg) = msg[1]
    BY <1>1, <2>1, LastFullLine
  <2> QED BY <2>1, <2>2 DEF msg
<1> QED BY <1>1, <1>2, <1>3

LEMMA EmptyReply == lastLine(<<>>) = <<>> /\ ~HasDigest(<<>>)
BY DEF lastLine, HasDigest

(* A full line of three, with a line before it and an empty one behind. *)
LEMMA MiddleLine ==
  ASSUME NEW before, NEW line, line # <<>>
  PROVE  lastLine(<<before, line, <<>>>>) = line
<1> DEFINE msg == <<before, line, <<>>>>
<1>1. DOMAIN msg = 1..3 /\ msg[2] = line /\ msg[3] = <<>>
  OBVIOUS
<1> HIDE DEF msg
<1>2. /\ DOMAIN msg \subseteq Int /\ 2 \in DOMAIN msg /\ msg[2] # <<>>
      /\ \A j \in DOMAIN msg : msg[j] # <<>> => j <= 2
  BY <1>1
<1>3. lastLine(msg) = msg[2]
  BY <1>2, LastFullLine
<1> QED BY <1>1, <1>3 DEF msg

(* The third field of HASH's last line is the digest, if it is there. *)
LEMMA HashDigest ==
  ASSUME NEW a, NEW msg \in HashTexts(a), NEW result,
         result = IF Len(lastLine(msg)) < 3 THEN NoDigest ELSE lastLine(msg)[3]
  PROVE  result = Digest(a) \/ (~HasDigest(msg) /\ result \in {NoDigest, Word("digest")})
<1> DEFINE line == <<Word(a), Word("0-12"), Digest(a), Word("path")>>
<1>0. line # <<>> /\ line[3] = Digest(a) /\ Len(line) = 4
  OBVIOUS
<1>1. CASE msg = <<line>>
  <2>1. lastLine(msg) = msg[1]
    BY <1>1, LastFullLine
  <2> QED BY <1>1, <2>1
<1>2. CASE msg = <<Progress(a), line, <<>>>>
  <2>1. lastLine(msg) = line
    <3> HIDE DEF line
    <3> QED BY <1>0, <1>2, MiddleLine
  <2> QED BY <1>0, <2>1
<1>3. CASE msg = <<Progress(a)>>
  BY <1>3, ProgressFacts
<1>4. CASE msg = <<>>
  BY <1>4, EmptyReply
<1> QED BY <1>1, <1>2, <1>3, <1>4 DEF HashTexts

(* The last field of a legacy command's last line is the digest. *)
LEMMA LegacyDigest ==
  ASSUME NEW a, NEW msg \in LegacyTexts(a), NEW result,
         result = IF lastLine(msg) = <<>> THEN NoDigest
                  ELSE lastLine(msg)[Len(lastLine(msg))]
  PROVE  result = Digest(a) \/ (~HasDigest(msg) /\ result \in {NoDigest, Word("digest")})
<1> DEFINE line == <<Word("path"), Digest(a)>>
<1>0. line # <<>> /\ line[2] = Digest(a) /\ Len(line) = 2
  OBVIOUS
<1>1. CASE msg = << <<Digest(a)>> >>
  <2>1. lastLine(msg) = msg[1]
    BY <1>1, LastFullLine
  <2> QED BY <1>1, <2>1
<1>2. CASE msg = <<Progress(a), line, <<>>>>
  <2>1. lastLine(msg) = line
    <3> HIDE DEF line
    <3> QED BY <1>0, <1>2, MiddleLine
  <2> QED BY <1>0, <2>1
<1>3. CASE msg = <<Progress(a)>>
  BY <1>3, ProgressFacts
<1>4. CASE msg = <<>>
  BY <1>4, EmptyReply
<1> QED BY <1>1, <1>2, <1>3, <1>4 DEF LegacyTexts

LEMMA DigestFacts ==
  ASSUME NEW a
  PROVE  /\ Digest(a).text = a /\ Digest(a).is = "digest"
         /\ NoDigest.is = "word" /\ Word("digest").is = "word"
BY DEF Digest, NoDigest, Word

-----------------------------------------------------------------------------
(* The inductive invariant                                                 *)

(* What the caller wants: the algorithm it named, or one of the strongest. *)
Goal(asked) == IF asked = "" THEN Strongest ELSE {asked}

CallOf(at, asked, algorithm, command, refused, reply, digest) ==
  [at |-> at, asked |-> asked, algorithm |-> algorithm, command |-> command,
   refused |-> refused, reply |-> reply, digest |-> digest]

(* A call is a record with these fields ... *)
Shape == call = CallOf(call.at, call.asked, call.algorithm, call.command,
                       call.refused, call.reply, call.digest)

(* ... that goes after the caller's algorithm, and once OPTS HASH has not  *)
(* been refused the server has selected that one.                          *)
CallInv ==
  /\ Shape
  /\ call.at \in {"idle", "OPTS", "HASH", "legacy"} /\ call.refused \in BOOLEAN
  /\ pc \notin {"open", "failed"} => call = Idle
  /\ call.at \in {"OPTS", "HASH"} => hasFeature("HASH")
  /\ call.at = "legacy" => hasFeature(call.command) /\ ~call.refused
  /\ call.at # "idle" => /\ pc = "open" /\ call.digest = NoDigest /\ call.reply = <<>>
                         /\ call.algorithm \in Goal(call.asked)
  /\ call.at = "HASH" /\ ~call.refused => selected = call.algorithm
  /\ HasDigest(call.reply) => call.digest.is = "digest"
  /\ call.digest.is = "digest" =>
       call.digest.text \in IF call.refused THEN {selected} ELSE Goal(call.asked)

(* The rest of LoginTypeOK. *)
Reach ==
  /\ pc \in Commands \cup {"dial", "greeting", "open", "failed"}
  /\ ctrl \in [cache : {"none", "caller", "client"},
               key : {"none", "caller", "host", "address"}]
  /\ NoTLS \notin sessions /\ clear \subseteq Commands

CInv == LoginInv /\ Reach /\ CallInv

-----------------------------------------------------------------------------
(* The exchange of the login leaves the call alone, which has not begun.   *)
LEMMA IdleFacts ==
  /\ Idle.at = "idle" /\ Idle.digest.is = "word" /\ Idle.refused = FALSE
  /\ ~HasDigest(Idle.reply)
  /\ Idle = CallOf(Idle.at, Idle.asked, Idle.algorithm, Idle.command,
                   Idle.refused, Idle.reply, Idle.digest)
<1>1. Idle.digest = NoDigest /\ Idle.reply = <<>>
  BY DEF Idle
<1>2. Idle.digest.is = "word" /\ ~HasDigest(Idle.reply)
  BY <1>1, DigestFacts, EmptyReply
<1>3. Idle.at = "idle" /\ Idle.refused = FALSE
  BY DEF Idle
<1>4. Idle = CallOf(Idle.at, Idle.asked, Idle.algorithm, Idle.command,
                    Idle.refused, Idle.reply, Idle.digest)
  BY DEF Idle, CallOf
<1> QED BY <1>2, <1>3, <1>4

LEMMA EmptyCall ==
  ASSUME call'.reply = <<>>
  PROVE  ~HasDigest(call.reply)'
BY DEF HasDigest

LEMMA IdleCall ==
  ASSUME call = Idle
  PROVE  CallInv
BY IdleFacts DEF CallInv, Shape

LEMMA IdleCallNext ==
  ASSUME call' = Idle
  PROVE  CallInv'
BY IdleFacts DEF CallInv, Shape

LEMMA LoginBeforeCall ==
  ASSUME LoginNext
  PROVE  pc \in Commands \cup {"dial", "greeting"}
BY DEF LoginNext, Dial, Greeting, logInTLS, User, Pass, Protect, fetchFeatures, Exchange, Commands

(* Every TLS config has a type, and one that caches is not NoTLS. *)
LEMMA ConfigTypes ==
  /\ dataChannelTLSConfig \in [cache : {"none", "caller", "client"},
                               key : {"none", "caller", "host", "address"}]
  /\ ImplicitTLS \in [cache : {"none", "caller", "client"},
                      key : {"none", "caller", "host", "address"}]
  /\ \A cfg : NoTLS \notin Cached(cfg)
BY DEF dataChannelTLSConfig, ImplicitTLS, GivenTLS, NoTLS, Cached

LEMMA LoginReach ==
  ASSUME Reach, LoginNext
  PROVE  Reach'
<1> USE DEF Commands
<1>1. CASE Dial
  BY <1>1, ConfigTypes DEF Dial, Reach
<1>2. CASE Greeting
  BY <1>2 DEF Greeting, Reach
<1>3. CASE logInTLS
  BY <1>3, ConfigTypes DEF logInTLS, Exchange, Reach
<1>4. CASE User
  BY <1>4, ConfigTypes DEF User, Exchange, AfterLogin, Reach
<1>5. CASE Pass
  BY <1>5 DEF Pass, Exchange, AfterLogin, Reach
<1>6. CASE Protect("PBSZ", "PROT") \/ Protect("PROT", "FEAT")
  BY <1>6 DEF Protect, Exchange, Reach
<1>7. CASE fetchFeatures
  BY <1>7 DEF fetchFeatures, Exchange, Reach
<1> QED BY <1>1, <1>2, <1>3, <1>4, <1>5, <1>6, <1>7 DEF LoginNext

-----------------------------------------------------------------------------
(* The calls                                                               *)

(* The features do not change once the connection is open. *)
LEMMA GoalKept ==
  ASSUME UNCHANGED features
  PROVE  \A asked : Goal(asked)' = Goal(asked)
BY DEF Goal, Strongest, checksumAlgorithms, HashAlgorithms, Legacy, hasFeature

(* The end of a call, with a digest or without. *)
LEMMA FinishCall ==
  ASSUME CallInv, NEW reply, NEW digest, Finish(reply, digest), pc' \in {"open", "failed"},
         UNCHANGED <<features, selected>>,
         HasDigest(reply) => digest.is = "digest",
         digest.is = "digest" =>
           digest.text \in IF call.refused THEN {selected} ELSE Goal(call.asked)
  PROVE  CallInv'
<1>1. call' = CallOf("idle", call.asked, call.algorithm, call.command, call.refused,
                     reply, digest)
  BY DEF Finish, CallInv, Shape, CallOf
<1>2. /\ call'.at = "idle" /\ call'.asked = call.asked /\ call'.refused = call.refused
      /\ call'.digest = digest /\ call'.reply = reply /\ Shape'
  BY <1>1 DEF CallOf, Shape
<1>3. call'.refused \in BOOLEAN /\ selected' = selected
  BY <1>2 DEF CallInv
<1>4. HasDigest(call.reply)' => call'.digest.is = "digest"
  BY <1>2 DEF HasDigest
<1> QED BY <1>2, <1>3, <1>4, GoalKept DEF CallInv

(* A call has begun, or has ended at once. *)
LEMMA StartCall ==
  ASSUME NEW at \in {"idle", "OPTS", "legacy"}, NEW asked, NEW algorithm, NEW command,
         call' = CallOf(at, asked, algorithm, command, FALSE, <<>>, NoDigest),
         UNCHANGED features, pc' = "open",
         at # "idle" => algorithm \in Goal(asked),
         at = "OPTS" => hasFeature("HASH"), at = "legacy" => hasFeature(command)
  PROVE  CallInv'
<1>1. /\ call'.at = at /\ call'.asked = asked /\ call'.algorithm = algorithm
      /\ call'.refused = FALSE /\ call'.reply = <<>> /\ call'.digest = NoDigest
      /\ call'.command = command /\ Shape'
  BY DEF CallOf, Shape
<1>2. ~HasDigest(call.reply)' /\ call'.digest.is = "word"
  BY <1>1, EmptyCall, DigestFacts
<1>3. \A name : hasFeature(name)' = hasFeature(name)
  BY DEF hasFeature
<1> QED BY <1>1, <1>2, <1>3, GoalKept DEF CallInv

LEMMA ChooseStarts ==
  ASSUME NEW asked, ChooseCommand(asked)
  PROVE  CallInv'
<1>0. pc' = "open" /\ UNCHANGED features
  BY DEF ChooseCommand, login
<1>1. CASE call' = Start(asked)
  <2>1. call' = CallOf("idle", asked, "", "", FALSE, <<>>, NoDigest)
    BY <1>1 DEF Start, Idle, CallOf
  <2> QED BY <1>0, <2>1, StartCall
<1>2. CASE call' # Start(asked)
  <2>1. PICK a \in IF asked = "" THEN Strongest ELSE checksumAlgorithms \cap {asked} :
          IF hasFeature("HASH")
          THEN call' = [Start(asked) EXCEPT !.at = "OPTS", !.algorithm = a]
          ELSE \E i \in Legacy :
                 call' = [Start(asked) EXCEPT !.at = "legacy", !.algorithm = a,
                                  !.command = legacyChecksumCommands[i].command]
    BY <1>2, Zenon DEF ChooseCommand
  <2>2. a \in Goal(asked)
    BY DEF Goal
  <2>3. CASE hasFeature("HASH")
    <3>1. call' = CallOf("OPTS", asked, a, "", FALSE, <<>>, NoDigest)
      BY <2>1, <2>3 DEF Start, Idle, CallOf
    <3> QED BY <1>0, <2>2, <2>3, <3>1, StartCall
  <2>4. CASE ~hasFeature("HASH")
    <3>1. PICK i \in Legacy :
            call' = [Start(asked) EXCEPT !.at = "legacy", !.algorithm = a,
                                         !.command = legacyChecksumCommands[i].command]
      BY <2>1, <2>4
    <3> DEFINE command == legacyChecksumCommands[i].command
    <3>2. hasFeature(command)
      BY DEF Legacy
    <3> HIDE DEF command
    <3>3. call' = [Start(asked) EXCEPT !.at = "legacy", !.algorithm = a, !.command = command]
      BY <3>1 DEF command
    <3>4. call' = CallOf("legacy", asked, a, command, FALSE, <<>>, NoDigest)
      BY <3>3 DEF Start, Idle, CallOf
    <3> QED BY <1>0, <2>2, <3>2, <3>4, StartCall
  <2> QED BY <2>3, <2>4
<1> QED BY <1>1, <1>2

(* OPTS HASH: the server has selected the algorithm, or has refused. *)
LEMMA SelectKeeps ==
  ASSUME CallInv, SelectAlgorithm
  PROVE  CallInv'
<1>1. pc' = pc /\ UNCHANGED features /\ call.at = "OPTS"
  BY DEF SelectAlgorithm, login
<1>2. \/ /\ selected' = call.algorithm
         /\ call' = CallOf("HASH", call.asked, call.algorithm, call.command,
                           call.refused, call.reply, call.digest)
      \/ call' = CallOf("HASH", call.asked, call.algorithm, call.command, TRUE,
                        call.reply, call.digest)
  BY DEF SelectAlgorithm, CallInv, Shape, CallOf
<1>3. /\ call'.at = "HASH" /\ call'.asked = call.asked /\ call'.algorithm = call.algorithm
      /\ call'.digest = call.digest /\ call'.reply = call.reply
      /\ call'.refused \in BOOLEAN /\ Shape'
      /\ call'.refused \/ selected' = call'.algorithm
  <2>1. call.refused \in BOOLEAN
    BY DEF CallInv
  <2>2. ASSUME NEW refused \in BOOLEAN,
               call' = CallOf("HASH", call.asked, call.algorithm, call.command,
                              refused, call.reply, call.digest)
        PROVE  /\ call'.at = "HASH" /\ call'.asked = call.asked
               /\ call'.algorithm = call.algorithm /\ call'.refused = refused
               /\ call'.digest = call.digest /\ call'.reply = call.reply /\ Shape'
    BY <2>2 DEF CallOf, Shape
  <2>3. CASE call' = CallOf("HASH", call.asked, call.algorithm, call.command, TRUE,
                            call.reply, call.digest)
    BY <2>2, <2>3
  <2> QED BY <1>2, <2>1, <2>2, <2>3
<1>4. /\ call.digest = NoDigest /\ call.reply = <<>> /\ pc = "open"
      /\ call.algorithm \in Goal(call.asked) /\ hasFeature("HASH")
  BY <1>1 DEF CallInv
<1>5. ~HasDigest(call.reply)' /\ call'.digest.is = "word"
  BY <1>3, <1>4, EmptyCall, DigestFacts
<1>6. hasFeature("HASH")'
  BY <1>1, <1>4 DEF hasFeature
<1> QED BY <1>1, <1>3, <1>4, <1>5, <1>6, GoalKept DEF CallInv

(* The digest is of the algorithm that the server was told, or that the    *)
(* legacy command names.                                                   *)
LEMMA DigestKeeps ==
  ASSUME CallInv, hashChecksum \/ legacyChecksum
  PROVE  CallInv'
<1>1. pc' = pc /\ UNCHANGED <<features, selected>> /\ call.at \in {"HASH", "legacy"}
  BY DEF hashChecksum, legacyChecksum, login
<1>2. PICK a, msg, result :
        /\ \/ call.at = "HASH" /\ a = selected
           \/ call.at = "legacy" /\ a = call.algorithm
        /\ Finish(msg, result)
        /\ result = Digest(a) \/ (~HasDigest(msg) /\ result \in {NoDigest, Word("digest")})
  <2>1. CASE Finish(<<>>, NoDigest)
    BY <1>1, <2>1, EmptyReply
  <2>2. CASE hashChecksum /\ ~Finish(<<>>, NoDigest)
    <3>1. PICK msg \in HashTexts(selected) :
            Finish(msg, IF Len(lastLine(msg)) < 3 THEN NoDigest ELSE lastLine(msg)[3])
      BY <2>2 DEF hashChecksum
    <3> QED BY <2>2, <3>1, HashDigest DEF hashChecksum
  <2>3. CASE legacyChecksum /\ ~Finish(<<>>, NoDigest)
    <3>1. PICK msg \in LegacyTexts(call.algorithm) :
            Finish(msg, IF lastLine(msg) = <<>> THEN NoDigest
                        ELSE lastLine(msg)[Len(lastLine(msg))])
      BY <2>3 DEF legacyChecksum
    <3> QED BY <2>3, <3>1, LegacyDigest DEF legacyChecksum
  <2> QED BY <2>1, <2>2, <2>3
<1>3. /\ pc = "open" /\ call.algorithm \in Goal(call.asked) /\ call.refused \in BOOLEAN
      /\ IF call.refused THEN a = selected ELSE a = call.algorithm
  BY <1>1, <1>2 DEF CallInv
<1>4. /\ HasDigest(msg) => result.is = "digest"
      /\ result.is = "digest" => result.text = a
  BY <1>2, DigestFacts
<1>5. result.is = "digest" =>
        result.text \in IF call.refused THEN {selected} ELSE Goal(call.asked)
  BY <1>3, <1>4
<1> QED BY <1>1, <1>2, <1>3, <1>4, <1>5, FinishCall

LEMMA CallNextInv ==
  ASSUME CInv, [Next]_vars
  PROVE  CInv'
<1>0. LoginInv' /\ CallInv /\ Reach
  BY LoginNextInv DEF CInv
<1>1. CASE LoginNext /\ UNCHANGED <<selected, call>>
  <2>1. call = Idle /\ call' = Idle
    BY <1>0, <1>1, LoginBeforeCall DEF CallInv, Commands
  <2> QED BY <1>0, <1>1, <2>1, LoginReach, IdleCallNext DEF CInv
<1>2. ASSUME UNCHANGED <<ctrl, sessions, clear>>, pc' \in {pc, "failed"} PROVE Reach'
  BY <1>0, <1>2 DEF Reach
<1>3. CASE \/ \E asked \in Asked : ChooseCommand(asked)
           \/ SelectAlgorithm \/ hashChecksum \/ legacyChecksum
  <2>1. UNCHANGED <<ctrl, sessions, clear, pc>>
    BY <1>3 DEF ChooseCommand, SelectAlgorithm, hashChecksum, legacyChecksum, login
  <2>2. CallInv'
    BY <1>0, <1>3, ChooseStarts, SelectKeeps, DigestKeeps
  <2> QED BY <1>0, <1>2, <2>1, <2>2 DEF CInv
<1>4. CASE IOFails
  <2>1. CallInv'
    BY <1>0, <1>4, FinishCall, EmptyReply, DigestFacts DEF IOFails
  <2> QED BY <1>0, <1>2, <1>4, <2>1 DEF CInv, IOFails
<1>5. CASE UNCHANGED vars
  <2>1. UNCHANGED <<pc, ctrl, sessions, clear, features, selected, call>>
    BY <1>5 DEF vars, login
  <2>2. CallInv'
    <3>1. HasDigest(call.reply)' = HasDigest(call.reply)
      BY <2>1 DEF HasDigest
    <3>2. \A name : hasFeature(name)' = hasFeature(name)
      BY <2>1 DEF hasFeature
    <3> QED BY <1>0, <2>1, <3>1, <3>2, GoalKept DEF CallInv, Shape
  <2> QED BY <1>0, <1>2, <2>1, <2>2 DEF CInv
<1> QED BY <1>1, <1>3, <1>4, <1>5 DEF Next

LEMMA CallInitInv == Init => CInv
<1> SUFFICES ASSUME Init PROVE CInv
  OBVIOUS
<1>1. LoginInv
  BY LoginInitInv
<1>2. Reach
  BY DEF Init, LoginInit, Reach, NoTLS
<1>3. CallInv
  BY IdleCall DEF Init
<1> QED BY <1>1, <1>2, <1>3 DEF CInv

-----------------------------------------------------------------------------
(* The inductive invariant holds in every behaviour. *)
THEOREM ChecksumInvariant == Spec => []CInv
BY CallInitInv, CallNextInv, PTL DEF Spec

(* Every variable of login and of a call stays in its range, and Checksum  *)
(* sends only commands that the server has announced.                      *)
THEOREM ChecksumTypes == Spec => []TypeOK
<1>1. CInv => TypeOK
  BY DEF CInv, LoginInv, LoginTypes, Reach, CallInv, TypeOK, LoginTypeOK
<1> QED BY <1>1, ChecksumInvariant, PTL

(* A reply with a digest yields that digest, and a digest that Checksum    *)
(* returns is of the algorithm the caller named or of one of the           *)
(* strongest, whatever earlier calls selected on the pooled connection;    *)
(* after a refused OPTS HASH it is of the algorithm selected before.       *)
THEOREM ChecksumAsAsked == Spec => []DigestAsAsked
<1>1. CInv => DigestAsAsked
  BY DEF CInv, CallInv, DigestAsAsked, Goal, Wanted
<1> QED BY <1>1, ChecksumInvariant, PTL
=============================================================================
