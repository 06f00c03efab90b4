----------------------------- MODULE LoginProofs -----------------------------
(***************************************************************************)
(* Proofs about Login, within the specification of module Checksum: what   *)
(* a connection has been through when openConn hands it out, for every     *)
(* configuration, every sequence of replies and every FEAT reply.          *)
(***************************************************************************)
EXTENDS Checksum, TLAPS

Modes == {"plain", "explicit", "implicit"}

(* Where the connection runs under TLS if the client is configured for it. *)
Secured == {"USER", "PASS", "PBSZ", "PROT", "FEAT", "open"}

(* The config under which the control connection shakes hands. *)
ControlTLS == IF config.mode = "explicit" THEN dataChannelTLSConfig ELSE ImplicitTLS

LoginTypes ==
  /\ config \in [mode : Modes, cache : BOOLEAN, name : BOOLEAN, dialFunc : BOOLEAN]
  /\ srv \in [tls : BOOLEAN, loggedIn : BOOLEAN, prot : BOOLEAN]

(* TLS is up before anything but AUTH is sent. *)
TLSFirst ==
  config.mode # "plain" =>
    /\ pc \in Secured \/ (pc = "greeting" /\ config.mode = "implicit")
         => ctrl = ControlTLS /\ srv.tls
    /\ clear \subseteq {"AUTH"}

(* Each command is reached only through the success of those before it. *)
StepByStep ==
  /\ pc = "AUTH" => config.mode = "explicit"
  /\ pc \in {"PBSZ", "PROT", "FEAT", "open"} => srv.loggedIn
  /\ pc \in {"FEAT", "open"} /\ config.mode # "plain" => srv.prot
  /\ pc \in {"PASS", "PBSZ", "PROT", "FEAT", "open"} /\ config.mode # "plain"
       => Cached(ctrl) \subseteq sessions

LoginInv == LoginTypes /\ TLSFirst /\ StepByStep

-----------------------------------------------------------------------------
(* A TLS config is never taken for no TLS at all. *)
LEMMA ControlHasTLS == ControlTLS # NoTLS
BY DEF ControlTLS, NoTLS, dataChannelTLSConfig, ImplicitTLS, GivenTLS

(* The invariant holds of a connection that is about to be dialled. *)
LEMMA LoginInitInv == Init => LoginInv
BY DEF Init, LoginInit, LoginInv, LoginTypes, TLSFirst, StepByStep, Secured, Modes

(* Commands that leave config, ctrl and sessions alone and are sent under  *)
(* TLS, if there is any: what is left to show is where they lead.          *)
LEMMA SentSecurely ==
  ASSUME LoginInv, NEW cmd \in Commands \ {"AUTH"}, NEW code \in Codes \cup {NoReply},
         Exchange(cmd, code), UNCHANGED <<config, ctrl>>
  PROVE  /\ LoginTypes'
         /\ srv' = Served(cmd, code)
         /\ config.mode # "plain" => ctrl = ControlTLS /\ ctrl' = ControlTLS' /\ srv'.tls
                                     /\ clear' \subseteq {"AUTH"}
         /\ (srv.loggedIn => srv'.loggedIn) /\ (srv.prot => srv'.prot)
<1>1. cmd \in Secured /\ pc = cmd
  BY DEF Commands, Secured, Exchange
<1>2. srv' \in [tls : BOOLEAN, loggedIn : BOOLEAN, prot : BOOLEAN]
  BY DEF Exchange, Served, LoginInv, LoginTypes
<1>3. srv' = Served(cmd, code) /\ (srv.loggedIn => srv'.loggedIn)
      /\ (srv.prot => srv'.prot) /\ (srv.tls => srv'.tls)
  BY DEF Exchange, Served
<1>4. ASSUME config.mode # "plain"
      PROVE  ctrl = ControlTLS /\ ctrl' = ControlTLS' /\ srv'.tls /\ clear' \subseteq {"AUTH"}
  <2>1. ctrl = ControlTLS /\ srv.tls /\ clear \subseteq {"AUTH"}
    BY <1>1, <1>4 DEF LoginInv, TLSFirst
  <2>2. ctrl' = ControlTLS'
    BY <2>1 DEF ControlTLS, dataChannelTLSConfig, ImplicitTLS, GivenTLS
  <2>3. ctrl # NoTLS
    BY <2>1, ControlHasTLS
  <2> QED
    BY <1>3, <2>1, <2>2, <2>3 DEF Exchange
<1> QED
  BY <1>2, <1>3, <1>4 DEF LoginInv, LoginTypes

-----------------------------------------------------------------------------
(* Every step of the exchange, and of the calls that follow it, keeps the  *)
(* invariant.                                                              *)
LEMMA LoginNextInv == LoginInv /\ [Next]_vars => LoginInv'
<1> SUFFICES ASSUME LoginInv, [Next]_vars PROVE LoginInv'
  OBVIOUS
<1> USE DEF Secured, Codes, NoReply, positiveCompletionReply
<1>1. CASE Dial
  <2>1. LoginTypes'
    BY <1>1 DEF Dial, LoginInv, LoginTypes
  <2>2. ControlTLS' = ControlTLS /\ clear' = clear /\ config' = config
    BY <1>1 DEF Dial, ControlTLS, dataChannelTLSConfig, ImplicitTLS, GivenTLS
  <2>3. pc' \in {"failed", "greeting"}
    BY <1>1 DEF Dial
  <2>4. pc' = "greeting" /\ config.mode = "implicit" => ctrl' = ControlTLS /\ srv'.tls
    BY <1>1 DEF Dial, ControlTLS, LoginInv, LoginTypes
  <2> QED
    BY <2>1, <2>2, <2>3, <2>4 DEF LoginInv, TLSFirst, StepByStep
<1>2. CASE Greeting
  <2>1. /\ pc' \in {"failed", "AUTH", "USER"} /\ (pc' = "USER" => config.mode # "explicit")
        /\ pc' = "AUTH" => config.mode = "explicit"
        /\ pc = "greeting"
    BY <1>2 DEF Greeting
  <2>2. UNCHANGED <<config, ctrl, sessions, clear, srv>> /\ ControlTLS' = ControlTLS
    BY <1>2 DEF Greeting, ControlTLS, dataChannelTLSConfig, ImplicitTLS, GivenTLS
  <2> QED
    BY <2>1, <2>2 DEF LoginInv, LoginTypes, Modes, TLSFirst, StepByStep
<1>3. CASE logInTLS
  <2>1. PICK code \in Codes \cup {NoReply} :
          /\ Exchange("AUTH", code)
          /\ ctrl' = IF code = 234 THEN dataChannelTLSConfig ELSE ctrl
          /\ pc' = IF code = 234 THEN "USER" ELSE "failed"
    BY <1>3 DEF logInTLS
  <2>2. config' = config /\ dataChannelTLSConfig' = dataChannelTLSConfig
    BY <1>3 DEF logInTLS, dataChannelTLSConfig
  <2>3. clear' \subseteq clear \cup {"AUTH"} /\ srv' = Served("AUTH", code)
    BY <2>1 DEF Exchange
  <2>4. LoginTypes'
    BY <2>2, <2>3 DEF Served, LoginInv, LoginTypes
  <2>5. pc' = "USER" => ctrl' = dataChannelTLSConfig /\ srv'.tls
    BY <2>1, <2>3, ZenonT(60) DEF Served
  <2>6. config.mode = "explicit"
    BY <2>1 DEF Exchange, LoginInv, StepByStep
  <2> QED
    BY <2>1, <2>2, <2>3, <2>4, <2>5, <2>6
       DEF LoginInv, TLSFirst, StepByStep, ControlTLS
<1>4. CASE User
  <2>1. PICK code \in Codes \cup {NoReply} :
          /\ Exchange("USER", code)
          /\ sessions' = IF code # NoReply THEN sessions \cup Cached(ctrl) ELSE sessions
          /\ pc' = IF code = 331 THEN "PASS" ELSE AfterLogin(code)
    BY <1>4 DEF User
  <2>2. UNCHANGED <<config, ctrl>>
    BY <1>4 DEF User
  <2>3. /\ pc' \in {"failed", "PASS", "PBSZ", "FEAT"}
        /\ pc' = "FEAT" => config.mode = "plain"
        /\ pc' \in {"PBSZ", "FEAT"} => positiveCompletionReply(code)
        /\ pc' # "failed" => code # NoReply
    BY <2>1 DEF AfterLogin
  <2>4. Cached(ctrl)' = Cached(ctrl)
    BY <2>2 DEF Cached
  <2>5. positiveCompletionReply(code) => Served("USER", code).loggedIn
    BY ZenonT(60) DEF Served
  <2>6. pc' # "failed" => Cached(ctrl)' \subseteq sessions'
    BY <2>1, <2>3, <2>4
  <2>7. /\ LoginTypes' /\ srv' = Served("USER", code)
        /\ config.mode # "plain" => ctrl' = ControlTLS' /\ srv'.tls /\ clear' \subseteq {"AUTH"}
    BY <2>1, <2>2, SentSecurely DEF Commands
  <2> QED
    BY <2>2, <2>3, <2>5, <2>6, <2>7 DEF LoginInv, TLSFirst, StepByStep
<1>5. CASE Pass
  <2>1. PICK code \in Codes \cup {NoReply} : Exchange("PASS", code) /\ pc' = AfterLogin(code)
    BY <1>5 DEF Pass
  <2>2. UNCHANGED <<config, ctrl, sessions>> /\ Cached(ctrl)' = Cached(ctrl)
    BY <1>5 DEF Pass, Cached
  <2>3. /\ pc' \in {"failed", "PBSZ", "FEAT"}
        /\ pc' = "FEAT" => config.mode = "plain"
        /\ pc' # "failed" => positiveCompletionReply(code)
    BY <2>1 DEF AfterLogin
  <2>4. positiveCompletionReply(code) => Served("PASS", code).loggedIn
    BY ZenonT(60) DEF Served
  <2>5. /\ LoginTypes' /\ srv' = Served("PASS", code)
        /\ config.mode # "plain" => ctrl' = ControlTLS' /\ srv'.tls /\ clear' \subseteq {"AUTH"}
    BY <2>1, <2>2, SentSecurely DEF Commands
  <2>6. config.mode # "plain" => Cached(ctrl) \subseteq sessions
    BY <2>1 DEF Exchange, LoginInv, StepByStep
  <2> QED
    BY <2>2, <2>3, <2>4, <2>5, <2>6 DEF LoginInv, TLSFirst, StepByStep
<1>6. CASE Protect("PBSZ", "PROT")
  <2>1. PICK code \in Codes \cup {NoReply} :
          /\ Exchange("PBSZ", code)
          /\ pc' = IF positiveCompletionReply(code) THEN "PROT" ELSE "failed"
    BY <1>6 DEF Protect
  <2>2. UNCHANGED <<config, ctrl, sessions>> /\ Cached(ctrl)' = Cached(ctrl)
    BY <1>6 DEF Protect, Cached
  <2>3. /\ LoginTypes' /\ (srv.loggedIn => srv'.loggedIn)
        /\ config.mode # "plain" => ctrl' = ControlTLS' /\ srv'.tls /\ clear' \subseteq {"AUTH"}
    BY <2>1, <2>2, SentSecurely DEF Commands
  <2>4. srv.loggedIn /\ (config.mode # "plain" => Cached(ctrl) \subseteq sessions)
    BY <2>1 DEF Exchange, LoginInv, StepByStep
  <2> QED
    BY <2>1, <2>2, <2>3, <2>4 DEF LoginInv, TLSFirst, StepByStep
<1>7. CASE Protect("PROT", "FEAT")
  <2>1. PICK code \in Codes \cup {NoReply} :
          /\ Exchange("PROT", code)
          /\ pc' = IF positiveCompletionReply(code) THEN "FEAT" ELSE "failed"
    BY <1>7 DEF Protect
  <2>2. UNCHANGED <<config, ctrl, sessions>> /\ Cached(ctrl)' = Cached(ctrl)
    BY <1>7 DEF Protect, Cached
  <2>3. /\ LoginTypes' /\ srv' = Served("PROT", code) /\ (srv.loggedIn => srv'.loggedIn)
        /\ config.mode # "plain" => ctrl' = ControlTLS' /\ srv'.tls /\ clear' \subseteq {"AUTH"}
    BY <2>1, <2>2, SentSecurely DEF Commands
  <2>4. srv.loggedIn /\ (config.mode # "plain" => Cached(ctrl) \subseteq sessions)
    BY <2>1 DEF Exchange, LoginInv, StepByStep
  <2>5. positiveCompletionReply(code) => Served("PROT", code).prot
    BY DEF Served
  <2> QED
    BY <2>1, <2>2, <2>3, <2>4, <2>5 DEF LoginInv, TLSFirst, StepByStep
<1>8. CASE fetchFeatures
  <2>1. PICK code \in Codes \cup {NoReply} :
          Exchange("FEAT", code) /\ pc' = IF code = NoReply THEN "failed" ELSE "open"
    BY <1>8 DEF fetchFeatures
  <2>2. UNCHANGED <<config, ctrl, sessions>> /\ Cached(ctrl)' = Cached(ctrl)
    BY <1>8 DEF fetchFeatures, Cached
  <2>3. /\ LoginTypes' /\ (srv.loggedIn => srv'.loggedIn) /\ (srv.prot => srv'.prot)
        /\ config.mode # "plain" => ctrl' = ControlTLS' /\ srv'.tls /\ clear' \subseteq {"AUTH"}
    BY <2>1, <2>2, SentSecurely DEF Commands
  <2>4. srv.loggedIn /\ (config.mode # "plain" => srv.prot /\ Cached(ctrl) \subseteq sessions)
    BY <2>1 DEF Exchange, LoginInv, StepByStep
  <2> QED
    BY <2>1, <2>2, <2>3, <2>4 DEF LoginInv, TLSFirst, StepByStep
<1>9. ASSUME UNCHANGED <<config, ctrl, sessions, clear, srv>>, pc' = pc \/ pc' = "failed"
      PROVE  LoginInv'
  <2>1. ControlTLS' = ControlTLS /\ Cached(ctrl)' = Cached(ctrl)
    BY <1>9 DEF ControlTLS, Cached, dataChannelTLSConfig, ImplicitTLS, GivenTLS
  <2> QED
    BY <1>9, <2>1 DEF LoginInv, LoginTypes, TLSFirst, StepByStep
<1>10. CASE UNCHANGED vars
  BY <1>9, <1>10 DEF vars, login
<1>11. CASE IOFails
  BY <1>9, <1>11 DEF IOFails
<1>12. CASE \/ \E asked \in Asked : ChooseCommand(asked)
            \/ SelectAlgorithm \/ hashChecksum \/ legacyChecksum
  BY <1>9, <1>12 DEF ChooseCommand, SelectAlgorithm, hashChecksum, legacyChecksum, login
<1> QED
  BY <1>1, <1>2, <1>3, <1>4, <1>5, <1>6, <1>7, <1>8, <1>10, <1>11, <1>12 DEF Next, LoginNext

-----------------------------------------------------------------------------
(* The invariant of the exchange holds in every behaviour. *)
THEOREM LoginInvariant == Spec => []LoginInv
BY LoginInitInv, LoginNextInv, PTL DEF Spec

(* With a TLSConfig, logInTLS and implicit mode send nothing but AUTH in   *)
(* the clear, whatever the server answers.                                 *)
THEOREM LoginProtectsCredentials == Spec => []CredentialsProtected
<1>1. LoginInv => CredentialsProtected
  BY DEF LoginInv, TLSFirst, CredentialsProtected
<1> QED
  BY <1>1, LoginInvariant, PTL

(* A connection that openConn hands out is logged in, and with a TLSConfig *)
(* both ends have TLS and the data connections are protected.              *)
THEOREM LoginNegotiates == Spec => []OpenedIsNegotiated
<1>1. LoginInv => OpenedIsNegotiated
  BY ControlHasTLS DEF LoginInv, TLSFirst, StepByStep, Secured, OpenedIsNegotiated
<1> QED
  BY <1>1, LoginInvariant, PTL

(* No session is cached but that of the control connection, where its      *)
(* config caches it.                                                       *)
OwnSession == config.mode # "plain" => sessions \subseteq Cached(ControlTLS)

LEMMA OwnSessionNext == LoginInv /\ OwnSession /\ [Next]_vars => OwnSession'
<1> SUFFICES ASSUME LoginInv, OwnSession, [Next]_vars PROVE OwnSession'
  OBVIOUS
<1>1. ASSUME config' = config PROVE Cached(ControlTLS)' = Cached(ControlTLS)
  BY <1>1 DEF Cached, ControlTLS, dataChannelTLSConfig, ImplicitTLS, GivenTLS
<1>2. ASSUME UNCHANGED <<config, sessions>> PROVE OwnSession'
  BY <1>1, <1>2 DEF OwnSession
<1>3. CASE Dial
  <2>1. /\ config' = config
        /\ sessions' = sessions \/ (config.mode = "implicit" /\ sessions' = Cached(ImplicitTLS))
    BY <1>3 DEF Dial
  <2>2. config.mode = "implicit" => ControlTLS = ImplicitTLS
    BY DEF ControlTLS
  <2> QED BY <1>1, <1>2, <2>1, <2>2 DEF OwnSession
<1>4. CASE User
  <2>1. config' = config /\ pc = "USER" /\ sessions' \subseteq sessions \cup Cached(ctrl)
    BY <1>4 DEF User, Exchange
  <2>2. config.mode # "plain" => ctrl = ControlTLS
    BY <2>1 DEF LoginInv, TLSFirst, Secured
  <2> QED BY <1>1, <2>1, <2>2 DEF OwnSession
<1>5. CASE Greeting \/ logInTLS \/ Pass \/ fetchFeatures
  BY <1>2, <1>5 DEF Greeting, logInTLS, Pass, fetchFeatures
<1>6. CASE Protect("PBSZ", "PROT") \/ Protect("PROT", "FEAT")
  BY <1>2, <1>6 DEF Protect
<1>7. CASE IOFails
  BY <1>2, <1>7 DEF IOFails
<1>8. CASE \/ UNCHANGED vars
           \/ \E asked \in Asked : ChooseCommand(asked)
           \/ SelectAlgorithm \/ hashChecksum \/ legacyChecksum
  BY <1>2, <1>8 DEF vars, ChooseCommand, SelectAlgorithm, hashChecksum, legacyChecksum, login
<1> QED BY <1>3, <1>4, <1>5, <1>6, <1>7, <1>8 DEF Next, LoginNext

(* dataChannelTLSConfig finds the control connection's session exactly     *)
(* outside the cases of implicit mode that CachedElsewhere names.          *)
THEOREM LoginResumes == Spec => []DataChannelResumes
<1>1. ASSUME LoginInv, OwnSession, pc = "open", config.mode # "plain"
      PROVE  dataChannelTLSConfig \in sessions <=> ~CachedElsewhere
  <2>1. ctrl = ControlTLS /\ Cached(ctrl) \subseteq sessions
    BY <1>1 DEF LoginInv, TLSFirst, StepByStep, Secured
  <2>2. ASSUME ~CachedElsewhere PROVE dataChannelTLSConfig \in sessions
    <3>1. ControlTLS = dataChannelTLSConfig
      BY <1>1, <2>2 DEF ControlTLS, dataChannelTLSConfig, ImplicitTLS, GivenTLS,
                        CachedElsewhere, LoginInv, LoginTypes, Modes
    <3>2. Cached(dataChannelTLSConfig) = {dataChannelTLSConfig}
      BY DEF Cached, dataChannelTLSConfig
    <3> QED BY <2>1, <3>1, <3>2
  <2>3. ASSUME CachedElsewhere PROVE dataChannelTLSConfig \notin sessions
    <3>1. config.mode = "implicit" /\ ControlTLS = ImplicitTLS
      BY <2>3 DEF ControlTLS, CachedElsewhere
    <3>2. CASE ~config.cache
      <4>1. ImplicitTLS.cache = "none"
        BY <3>2 DEF ImplicitTLS, GivenTLS
      <4>2. sessions = {}
        BY <1>1, <3>1, <4>1 DEF Cached, OwnSession
      <4> QED BY <4>2
    <3>3. CASE config.dialFunc /\ ~config.name
      <4>1. ImplicitTLS.key = "address" /\ dataChannelTLSConfig.key = "host"
        BY <3>3 DEF ImplicitTLS, GivenTLS, dataChannelTLSConfig
      <4>2. sessions \subseteq {ImplicitTLS}
        BY <1>1, <3>1 DEF Cached, OwnSession
      <4> QED BY <4>1, <4>2
    <3> QED BY <2>3, <3>2, <3>3 DEF CachedElsewhere
  <2> QED BY <2>2, <2>3
<1>2. Init => OwnSession
  BY DEF Init, LoginInit, OwnSession
<1>3. LoginInv /\ OwnSession => DataChannelResumes
  BY <1>1 DEF DataChannelResumes
<1> QED
  BY <1>2, <1>3, LoginInvariant, OwnSessionNext, PTL DEF Spec
=============================================================================
