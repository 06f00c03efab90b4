------------------------------ MODULE Checksum ------------------------------
(***************************************************************************)
(* Client.Checksum (checksum.go) on a connection that Login has opened:    *)
(* which command is chosen from the features, and whose digest is read     *)
(* from the reply.  Calls follow each other on the connection, and the     *)
(* server remembers the algorithm that OPTS HASH selected last.            *)
(*                                                                         *)
(* A reply is a sequence of lines and a line a sequence of fields.         *)
(***************************************************************************)
EXTENDS Login

CONSTANT Asked   \* the algorithms that callers ask for; "" is the strongest

VARIABLES
  selected,   \* the server's algorithm for HASH
  call        \* the call of Checksum under way, or the last one

vars == <<login, selected, call>>

checksumPreference == <<"SHA-512", "SHA-256", "SHA-1", "MD5", "CRC32">>

legacyChecksumCommands ==
  << [command |-> "XSHA512", algorithm |-> "SHA-512"],
     [command |-> "XSHA256", algorithm |-> "SHA-256"],
     [command |-> "XSHA1",   algorithm |-> "SHA-1"],
     [command |-> "XSHA",    algorithm |-> "SHA-1"],
     [command |-> "XMD5",    algorithm |-> "MD5"],
     [command |-> "MD5",     algorithm |-> "MD5"],
     [command |-> "XCRC",    algorithm |-> "CRC32"] >>

HashAlgorithms == IF hasFeature("HASH") THEN features["HASH"] ELSE {}

(* The legacy commands that the server announces, as indexes. *)
Legacy == {i \in DOMAIN legacyChecksumCommands :
             hasFeature(legacyChecksumCommands[i].command)}

checksumAlgorithms == HashAlgorithms \cup {legacyChecksumCommands[i].algorithm : i \in Legacy}

(* The algorithms that may come first: the most preferred one, or any one  *)
(* if none of them is in checksumPreference.                               *)
Strongest ==
  LET rank(a) == {i \in DOMAIN checksumPreference : checksumPreference[i] = a}
      known == {a \in checksumAlgorithms : rank(a) # {}}
  IN IF known = {} THEN checksumAlgorithms
     ELSE {a \in known : \A b \in known : \A i \in rank(a), j \in rank(b) : i <= j}

-----------------------------------------------------------------------------
(* Replies                                                                 *)

Word(w) == [is |-> "word", text |-> w]

Digest(a) == [is |-> "digest", text |-> a]

NoDigest == Word("")

(* External: the texts of a positive reply to HASH or to a legacy command  *)
(* for algorithm a.  Some servers put a progress line first; a reply may   *)
(* have that line only, or nothing at all.                                 *)
Progress(a) == <<Word("Computing"), Word(a), Word("digest")>>

HashTexts(a) ==
  LET line == <<Word(a), Word("0-12"), Digest(a), Word("path")>>
  IN {<<line>>, <<Progress(a), line, <<>>>>, <<Progress(a)>>, <<>>}

LegacyTexts(a) ==
  {<< <<Digest(a)>> >>, <<Progress(a), <<Word("path"), Digest(a)>>, <<>>>>,
   <<Progress(a)>>, <<>>}

lastLine(msg) ==
  LET full == {i \in DOMAIN msg : msg[i] # <<>>}
  IN IF full = {} THEN <<>>
     ELSE msg[CHOOSE i \in full : \A j \in full : j <= i]

-----------------------------------------------------------------------------
(* The call                                                                *)

Idle == [at |-> "idle", asked |-> "", algorithm |-> "", command |-> "",
         refused |-> FALSE, reply |-> <<>>, digest |-> NoDigest]

Start(asked) == [Idle EXCEPT !.asked = asked]

(* The call ends with the reply it got and the digest it takes from it. *)
Finish(reply, digest) ==
  call' = [call EXCEPT !.at = "idle", !.reply = reply, !.digest = digest]

(* Faulty: sends HASH to a server that has only older commands. *)
ChecksumByHash(asked) ==
  /\ pc = "open" /\ call.at = "idle"
  /\ \E a \in IF asked = "" THEN Strongest ELSE checksumAlgorithms \cap {asked} :
       call' = [Start(asked) EXCEPT !.at = "OPTS", !.algorithm = a]
  /\ UNCHANGED <<login, selected>>

(* Faulty: takes the server's own choice for the strongest one. *)
ChecksumByDefault(asked) ==
  /\ pc = "open" /\ call.at = "idle"
  /\ IF hasFeature("HASH") /\ (asked = "" \/ asked \in checksumAlgorithms)
     THEN call' = [Start(asked) EXCEPT !.at = IF asked = "" THEN "HASH" ELSE "OPTS",
                                       !.algorithm = asked]
     ELSE call' = Start(asked)
  /\ UNCHANGED <<login, selected>>

(* Checksum up to the choice of the command; no digest is an error. *)
ChooseCommand(asked) ==
  /\ pc = "open" /\ call.at = "idle"
  /\ \/ /\ asked \notin checksumAlgorithms
        /\ asked = "" => checksumAlgorithms = {}
        /\ call' = Start(asked)
     \/ \E a \in IF asked = "" THEN Strongest ELSE checksumAlgorithms \cap {asked} :
          IF hasFeature("HASH")
          THEN call' = [Start(asked) EXCEPT !.at = "OPTS", !.algorithm = a]
          ELSE \E i \in Legacy :
                 /\ legacyChecksumCommands[i].algorithm = a
                 /\ \A j \in Legacy : legacyChecksumCommands[j].algorithm = a => i <= j
                 /\ call' = [Start(asked) EXCEPT !.at = "legacy", !.algorithm = a,
                                  !.command = legacyChecksumCommands[i].command]
  /\ UNCHANGED <<login, selected>>

(* A command on the connection fails: the operation ends, and the broken   *)
(* connection is dropped by the pool.                                      *)
IOFails ==
  /\ pc = "open" /\ call.at # "idle"
  /\ pc' = "failed"
  /\ Finish(<<>>, NoDigest)
  /\ UNCHANGED <<config, ctrl, sessions, clear, srv, offer, features, selected>>

(* External: the algorithms of the server's HASH. *)
HashOffer == UNION {offer[i].arg : i \in {j \in DOMAIN offer : offer[j].name = "HASH"}}

(* OPTS HASH: the reply is not looked at.  The server cannot select what   *)
(* its HASH does not offer, and may refuse what it does.                   *)
SelectAlgorithm ==
  /\ call.at = "OPTS"
  /\ \/ /\ call.algorithm \in HashOffer
        /\ selected' = call.algorithm
        /\ call' = [call EXCEPT !.at = "HASH"]
     \/ call' = [call EXCEPT !.at = "HASH", !.refused = TRUE] /\ UNCHANGED selected
  /\ UNCHANGED login

(* A refusal, or the third field of the last line, if there is one. *)
hashChecksum ==
  /\ call.at = "HASH"
  /\ \/ Finish(<<>>, NoDigest)
     \/ \E msg \in HashTexts(selected) :
          LET fields == lastLine(msg)
          IN Finish(msg, IF Len(fields) < 3 THEN NoDigest ELSE fields[3])
  /\ UNCHANGED <<login, selected>>

(* A refusal, or the last field of the last line. *)
legacyChecksum ==
  /\ call.at = "legacy"
  /\ \/ Finish(<<>>, NoDigest)
     \/ \E msg \in LegacyTexts(call.algorithm) :
          LET fields == lastLine(msg)
          IN Finish(msg, IF fields = <<>> THEN NoDigest ELSE fields[Len(fields)])
  /\ UNCHANGED <<login, selected>>

-----------------------------------------------------------------------------
Init ==
  /\ LoginInit
  /\ selected \in IF HashOffer = {} THEN {"none"} ELSE HashOffer
  /\ call = Idle

Next ==
  \/ LoginNext /\ UNCHANGED <<selected, call>>
  \/ \E asked \in Asked : ChooseCommand(asked)
  \/ SelectAlgorithm \/ hashChecksum \/ legacyChecksum \/ IOFails

Spec == Init /\ [][Next]_vars

-----------------------------------------------------------------------------
(* Properties                                                              *)

(* Every variable stays in its range, and a call sends only commands that  *)
(* the server has announced.                                               *)
TypeOK ==
  /\ LoginTypeOK
  /\ call.at \in {"idle", "OPTS", "HASH", "legacy"}
  /\ call.at \in {"OPTS", "HASH"} => hasFeature("HASH")
  /\ call.at = "legacy" => hasFeature(call.command)
  /\ call.refused \in BOOLEAN

(* The algorithms the caller is content with. *)
Wanted == IF call.asked = "" THEN Strongest ELSE {call.asked}

HasDigest(reply) == \E i \in DOMAIN reply : \E j \in DOMAIN reply[i] :
                      reply[i][j].is = "digest"

(* If the reply has a digest, Checksum returns it and no other word; and    *)
(* a digest it returns is of the algorithm the caller named, or of the      *)
(* strongest the server has, whatever earlier calls on the pooled           *)
(* connection selected.  After an OPTS HASH that the server refused, whose  *)
(* reply hashChecksum ignores, it is of the algorithm that was selected     *)
(* before instead, where checksum.go:74-75 promises an error.               *)
DigestAsAsked ==
  /\ HasDigest(call.reply) => call.digest.is = "digest"
  /\ call.digest.is = "digest" =>
       call.digest.text \in IF call.refused THEN {selected} ELSE Wanted
=============================================================================
