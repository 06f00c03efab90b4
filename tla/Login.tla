------------------------------- MODULE Login -------------------------------
(***************************************************************************)
(* What openConn does between the dial and its final critical section: the *)
(* greeting, AUTH TLS, USER, PASS, PBSZ, PROT and FEAT, in the three ways  *)
(* a Client is configured (no TLS, TLSExplicit, TLSImplicit).  ConnPool    *)
(* sees only the outcome, as LoginSucceeds or LoginFails.                  *)
(*                                                                         *)
(* A command and its reply are one step, since nobody else has the         *)
(* connection yet.  The server is external and may answer any command with *)
(* any code, or not at all.  newClient's default gives every client a user *)
(* name, so that logIn always has one to send.                             *)
(***************************************************************************)
EXTENDS Integers, Sequences

CONSTANT FeatReplies   \* replies to FEAT: sequences of lines

VARIABLES
  config,    \* TLS mode; does TLSConfig have a cache, a ServerName; is there a DialFunc
  pc,        \* the next command, or "dial", "greeting", "open", "failed"
  ctrl,      \* the TLS config the control connection runs under
  sessions,  \* where a TLS session is cached: the configs that find it
  clear,     \* commands that were sent without TLS
  srv,       \* the server: TLS on its side, logged in, data protection on
  offer,     \* the server's reply to FEAT
  features   \* persistentConn.features

login == <<config, pc, ctrl, sessions, clear, srv, offer, features>>

Commands == {"AUTH", "USER", "PASS", "PBSZ", "PROT", "FEAT"}

(* The codes that the client tells apart, and one of each other group. *)
Codes == {150, 200, 220, 230, 234, 331, 332, 421, 500, 530}

(* The write fails or the deadline passes before a reply is read. *)
NoReply == 0

positiveCompletionReply(code) == code \div 100 = 2

-----------------------------------------------------------------------------
(* TLS configurations.  crypto/tls caches a session under the ServerName,  *)
(* or under the address with its port if there is none.                    *)

NoTLS == [cache |-> "none", key |-> "none"]

(* Config.TLSConfig as the caller gave it. *)
GivenTLS == [cache |-> IF config.cache THEN "caller" ELSE "none",
             key |-> IF config.name THEN "caller" ELSE "address"]

(* tls.DialWithDialer supplies a missing ServerName; tls.Client on what a  *)
(* DialFunc returned does not.                                             *)
ImplicitTLS == IF config.dialFunc \/ config.name THEN GivenTLS
               ELSE [GivenTLS EXCEPT !.key = "host"]

dataChannelTLSConfig == [cache |-> IF config.cache THEN "caller" ELSE "client",
                         key |-> IF config.name THEN "caller" ELSE "host"]

(* A handshake under cfg leaves its session in cfg's cache, if it has one. *)
Cached(cfg) == IF cfg.cache = "none" THEN {} ELSE {cfg}

-----------------------------------------------------------------------------
(* The exchange                                                            *)

(* External: what the server does as it answers a command with code. *)
Served(cmd, code) ==
  [tls |-> srv.tls \/ (cmd = "AUTH" /\ code = 234),
   loggedIn |-> srv.loggedIn \/ (cmd \in {"USER", "PASS"} /\ positiveCompletionReply(code)),
   prot |-> srv.prot \/ (cmd = "PROT" /\ positiveCompletionReply(code))]

(* sendCommand: cmd is written, in the clear without TLS, and answered. *)
Exchange(cmd, code) ==
  /\ pc = cmd
  /\ clear' = IF ctrl = NoTLS THEN clear \cup {cmd} ELSE clear
  /\ srv' = Served(cmd, code)

Dial ==
  /\ pc = "dial"
  /\ \/ pc' = "failed" /\ UNCHANGED <<ctrl, sessions, srv>>
     \/ /\ pc' = "greeting"
        /\ IF config.mode = "implicit"
           THEN /\ ctrl' = ImplicitTLS
                /\ sessions' = Cached(ImplicitTLS)
                /\ srv' = [srv EXCEPT !.tls = TRUE]
           ELSE UNCHANGED <<ctrl, sessions, srv>>
  /\ UNCHANGED <<config, clear, offer, features>>

Greeting ==
  /\ pc = "greeting"
  /\ \E code \in Codes \cup {NoReply} :
       pc' = IF code # 220 THEN "failed"
             ELSE IF config.mode = "explicit" THEN "AUTH" ELSE "USER"
  /\ UNCHANGED <<config, ctrl, sessions, clear, srv, offer, features>>

(* Faulty: goes on without TLS if the server refuses it. *)
logInTLSOrNot ==
  /\ \E code \in Codes \cup {NoReply} :
       /\ Exchange("AUTH", code)
       /\ ctrl' = IF code = 234 THEN dataChannelTLSConfig ELSE ctrl
       /\ pc' = IF code # NoReply THEN "USER" ELSE "failed"
  /\ UNCHANGED <<config, sessions, offer, features>>

(* Faulty: leaves the cache and the key as the caller gave them. *)
logInTLSAsGiven ==
  /\ \E code \in Codes \cup {NoReply} :
       /\ Exchange("AUTH", code)
       /\ ctrl' = IF code = 234 THEN GivenTLS ELSE ctrl
       /\ pc' = IF code = 234 THEN "USER" ELSE "failed"
  /\ UNCHANGED <<config, sessions, offer, features>>

(* AUTH TLS.  tls.Client does not shake hands before its first write, which *)
(* is USER.                                                                 *)
logInTLS ==
  /\ \E code \in Codes \cup {NoReply} :
       /\ Exchange("AUTH", code)
       /\ ctrl' = IF code = 234 THEN dataChannelTLSConfig ELSE ctrl
       /\ pc' = IF code = 234 THEN "USER" ELSE "failed"
  /\ UNCHANGED <<config, sessions, offer, features>>

(* PBSZ and PROT follow a login in both TLS modes. *)
AfterLogin(code) ==
  IF ~positiveCompletionReply(code) THEN "failed"
  ELSE IF config.mode = "plain" THEN "FEAT" ELSE "PBSZ"

User ==
  /\ \E code \in Codes \cup {NoReply} :
       /\ Exchange("USER", code)
       /\ sessions' = IF code # NoReply THEN sessions \cup Cached(ctrl) ELSE sessions
       /\ pc' = IF code = 331 THEN "PASS" ELSE AfterLogin(code)
  /\ UNCHANGED <<config, ctrl, offer, features>>

(* Faulty: takes a demand for an account (332) as success. *)
PassOrAccount ==
  /\ \E code \in Codes \cup {NoReply} :
       /\ Exchange("PASS", code)
       /\ pc' = IF code = 332 THEN AfterLogin(230) ELSE AfterLogin(code)
  /\ UNCHANGED <<config, ctrl, sessions, offer, features>>

Pass ==
  /\ \E code \in Codes \cup {NoReply} :
       /\ Exchange("PASS", code)
       /\ pc' = AfterLogin(code)
  /\ UNCHANGED <<config, ctrl, sessions, offer, features>>

(* sendCommandExpected for PBSZ 0 and for PROT P. *)
Protect(cmd, next) ==
  /\ \E code \in Codes \cup {NoReply} :
       /\ Exchange(cmd, code)
       /\ pc' = IF positiveCompletionReply(code) THEN next ELSE "failed"
  /\ UNCHANGED <<config, ctrl, sessions, offer, features>>

(* The lines of a FEAT reply that begin with a space; of two with the same *)
(* name the later one counts.                                              *)
Announced(lines) ==
  LET said == {i \in DOMAIN lines : lines[i].indented}
      last(n) == CHOOSE i \in said :
                   /\ lines[i].name = n
                   /\ \A j \in said : lines[j].name = n => j <= i
  IN [n \in {lines[i].name : i \in said} |-> lines[last(n)].arg]

(* A server without FEAT is one without features. *)
fetchFeatures ==
  /\ \E code \in Codes \cup {NoReply} :
       /\ Exchange("FEAT", code)
       /\ pc' = IF code = NoReply THEN "failed" ELSE "open"
       /\ features' = IF positiveCompletionReply(code) THEN Announced(offer) ELSE features
  /\ UNCHANGED <<config, ctrl, sessions, offer>>

hasFeature(name) == name \in DOMAIN features

-----------------------------------------------------------------------------
LoginInit ==
  /\ config \in [mode : {"plain", "explicit", "implicit"},
                 cache : BOOLEAN, name : BOOLEAN, dialFunc : BOOLEAN]
  /\ config.mode = "plain" => ~config.cache /\ ~config.name
  /\ pc = "dial"
  /\ ctrl = NoTLS
  /\ sessions = {}
  /\ clear = {}
  /\ srv = [tls |-> FALSE, loggedIn |-> FALSE, prot |-> FALSE]
  /\ offer \in FeatReplies
  /\ features = Announced(<<>>)

LoginNext ==
  \/ Dial \/ Greeting \/ logInTLS \/ User \/ Pass
  \/ Protect("PBSZ", "PROT") \/ Protect("PROT", "FEAT")
  \/ fetchFeatures

-----------------------------------------------------------------------------
(* Properties                                                              *)

LoginTypeOK ==
  /\ pc \in Commands \cup {"dial", "greeting", "open", "failed"}
  /\ ctrl \in [cache : {"none", "caller", "client"},
               key : {"none", "caller", "host", "address"}]
  /\ NoTLS \notin sessions /\ clear \subseteq Commands
  /\ srv \in [tls : BOOLEAN, loggedIn : BOOLEAN, prot : BOOLEAN]

(* client.go "If provided, it will be an error if the server does not       *)
(* support TLS": with a TLSConfig nothing but AUTH is ever sent in the      *)
(* clear, whatever the server answers, and never the user or password.      *)
CredentialsProtected == config.mode # "plain" => clear \subseteq {"AUTH"}

(* A connection that openConn hands out is logged in, and with a TLSConfig *)
(* both ends have TLS and the server protects the data connections: no     *)
(* refused or unanswered command of the sequence is passed over.           *)
OpenedIsNegotiated ==
  pc = "open" =>
    /\ srv.loggedIn
    /\ config.mode # "plain" => ctrl # NoTLS /\ srv.tls /\ srv.prot

(* Implicit mode shakes hands under the caller's config, not under         *)
(* dataChannelTLSConfig, and so may cache its session elsewhere or not.    *)
CachedElsewhere ==
  config.mode = "implicit" /\ (~config.cache \/ (config.dialFunc /\ ~config.name))

(* A passive data connection finds the session of its control connection   *)
(* to resume: always in explicit mode, and in implicit mode exactly if the *)
(* caller's config has a cache and, behind a DialFunc, names the server.   *)
(* newClient (client.go:241-248) installs its cache for all configurations *)
(* "even when the caller supplied their own TLSConfig without a cache"; in *)
(* implicit mode such a caller never resumes.                              *)
DataChannelResumes ==
  (pc = "open" /\ config.mode # "plain") =>
    (dataChannelTLSConfig \in sessions <=> ~CachedElsewhere)
=============================================================================
