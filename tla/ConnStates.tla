------------------------------ MODULE ConnStates ------------------------------
(***************************************************************************)
(* The connection state machine on both ends of one connection, and the   *)
(* client's cached capability set.                                        *)
(*                                                                         *)
(* Server (imapserver): Conn.serve writes the greeting, then runs          *)
(* readCommand one command at a time. Each handler checks c.state with     *)
(* checkState, calls the session and sets c.state. A handler that answers  *)
(* itself (LOGIN, SELECT, STARTTLS) is called with sendOK = false.         *)
(* Otherwise readCommand writes the tagged OK. STARTTLS writes its OK in   *)
(* cleartext and then swaps c.conn for a TLS connection.                   *)
(*                                                                         *)
(* Client (imapclient): callers write commands under encMutex               *)
(* (beginCommand/end), and the reader goroutine (readResponse) applies     *)
(* every response. The greeting and the tagged completions of LOGIN,       *)
(* SELECT, UNSELECT/CLOSE and LOGOUT set Client.state. "* OK [CLOSED]"     *)
(* sets it too, and so does closeWithError. A CAPABILITY response or       *)
(* response code fills Client.caps. A successful STARTTLS or LOGIN         *)
(* without a CAPABILITY code calls setCaps(nil). setCaps(nil) starts a     *)
(* goroutine that sends CAPABILITY. NewStartTLS sends STARTTLS before the  *)
(* client is handed to its user. startTLS holds encMutex until the reader  *)
(* has upgraded c.bw and the handshake is done.                            *)
(*                                                                         *)
(* The wire is one FIFO in each direction. Each line is tagged with        *)
(* whether it was written through TLS: a side that reads a line written    *)
(* in the other mode reads garbage. Mailbox names, credentials and         *)
(* response text are left out. The session's Login and Select may fail;    *)
(* the in-memory session's Unselect and Expunge cannot.                    *)
(*                                                                         *)
(* Listener (imapserver/server.go): the server program's Server.Serve      *)
(* registers its listener, accepts the client's connection from the        *)
(* backlog and starts Conn.serve in a goroutine, which registers itself in *)
(* Server.conns.  Server.Close may be called at any time: it closes the    *)
(* registered listeners, waits for listenerWaitGroup, then closes every    *)
(* registered connection.  The client's first read, of the greeting, has   *)
(* the respReadTimeout deadline.                                           *)
(***************************************************************************)
EXTENDS Naturals, Sequences

CONSTANTS
  ServerCaps,    \* Options.caps(): the capabilities the server supports
  TLSConfig,     \* Options.TLSConfig # nil
  InsecureAuth,  \* Options.InsecureAuth
  Greetings,     \* what NewSession may give: "OK", "PREAUTH", or "NO"/"BYE" for an error
  Dials,         \* how the client is made: "New" or "NewStartTLS"
  UserCmds,      \* the commands the user may issue once it holds the client
  MaxUser,       \* bound on the commands the user issues
  EnableReq      \* the capabilities the user's Enable asks for

States == {"none", "notauth", "auth", "selected", "logout"}
Cmds == UserCmds \cup {"STARTTLS", "CAPABILITY"}

VARIABLES
  sstate,        \* Conn.state ("none" before the greeting)
  stls,          \* c.conn is a *tls.Conn
  sclosed,       \* the server has closed the connection
  cstate,        \* Client.state
  capsKnown,     \* Client.caps # nil
  caps,          \* Client.caps
  greetingRecv,  \* Client.greetingRecv
  pending,       \* Client.pendingCmds: <<[t, cmd]>> in issue order
  cmdTag,        \* Client.cmdTag
  enc,           \* encMutex is held by the caller in startTLS
  ctls,          \* the client's c.bw/c.br run over TLS
  rpc,           \* the reader: "read", "upgrade" (upgradeStartTLS next), "exited"
  cclosed,       \* the client has closed the connection
  stpc,          \* NewStartTLS: "none", "begin", "wait", "done"
  stResult,      \* the error the STARTTLS command completed with: "none", "ok", "err"
  ready,         \* the constructor has returned the client to the user
  refresh,       \* goroutines started by setCaps(nil) that have not sent CAPABILITY
  issued,        \* commands issued by the user
  toServer,      \* command lines in flight: [t, cmd, tls]
  toClient,      \* response lines in flight: [kind, t, typ, code, caps, tls]
  senabled,      \* Conn.enabled
  cenabled,      \* Client.enabled
  readErr,       \* a side read a line it could not decode, or a tag it did not send
  lpc,           \* Server.Serve: "listen", "add", "accept", "done", "refused"
  lreg,          \* the listener is in Server.listeners
  lclosed,       \* the listener has been closed
  wg,            \* listenerWaitGroup's counter
  spc,           \* the connection: "backlog", "spawned" (serve started), "registered"
  sdown,         \* Server.closed
  cpc            \* Server.Close: "idle" (not called), "wait", "conns", "done"

serverVars == <<sstate, stls, sclosed, senabled>>
clientVars == <<cstate, capsKnown, caps, greetingRecv, pending, cmdTag, enc,
                ctls, rpc, cclosed, stpc, stResult, ready, refresh, issued,
                cenabled>>
listenerVars == <<lpc, lreg, lclosed, wg, spc, sdown, cpc>>
vars == <<serverVars, clientVars, toServer, toClient, readErr, listenerVars>>

(***************************************************************************)
(* Capabilities (imapserver/capability.go, conn.go, starttls.go).          *)
(***************************************************************************)
\* canStartTLS: a TLS config, NotAuthenticated, and not TLS already.
CanStartTLS(st, tls) == TLSConfig /\ st = "notauth" /\ ~tls

\* canAuth: NotAuthenticated, over TLS unless InsecureAuth.
CanAuth(st, tls) == st = "notauth" /\ (tls \/ InsecureAuth)

\* availableCaps, with the session not a SessionSASL (mechanism PLAIN).
AvailableCaps(st, tls) ==
  (ServerCaps \cap {"IMAP4rev2", "IMAP4rev1"})
  \cup (IF "IMAP4rev1" \in ServerCaps THEN {"SASL-IR", "LITERAL-"} ELSE {})
  \cup (IF CanStartTLS(st, tls) THEN {"STARTTLS"} ELSE {})
  \cup (IF CanAuth(st, tls) THEN {"AUTH=PLAIN"}
        ELSE IF st = "notauth" THEN {"LOGINDISABLED"} ELSE {})
  \cup (IF st \in {"auth", "selected"} /\ "IMAP4rev1" \in ServerCaps
        THEN {"UNSELECT", "ENABLE", "IDLE", "UTF8=ACCEPT"}
             \cup (ServerCaps \cap {"NAMESPACE", "UIDPLUS", "ESEARCH", "SEARCHRES",
                                    "LIST-EXTENDED", "LIST-STATUS", "MOVE",
                                    "STATUS=SIZE", "BINARY"})
        ELSE {})
  \cup (IF st \in {"auth", "selected"}
        THEN ServerCaps \cap {"CREATE-SPECIAL-USE", "LITERAL+", "UNAUTHENTICATE"}
        ELSE {})

CapNames == {"IMAP4rev2", "IMAP4rev1", "SASL-IR", "LITERAL-", "STARTTLS",
             "AUTH=PLAIN", "LOGINDISABLED", "UNSELECT", "ENABLE", "IDLE",
             "UTF8=ACCEPT", "NAMESPACE", "UIDPLUS", "ESEARCH", "SEARCHRES",
             "LIST-EXTENDED", "LIST-STATUS", "MOVE", "STATUS=SIZE", "BINARY",
             "CREATE-SPECIAL-USE", "LITERAL+", "UNAUTHENTICATE", "METADATA",
             "METADATA-SERVER"}

\* A response line as written by the side whose TLS mode is tls.
Resp(kind, t, typ, code, cs, tls) ==
  [kind |-> kind, t |-> t, typ |-> typ, code |-> code, caps |-> cs, tls |-> tls]

\* checkState: Authenticated also admits Selected.
CheckState(st, want) == st = want \/ (want = "auth" /\ st = "selected")

Init ==
  /\ sstate = "none" /\ stls = FALSE /\ sclosed = FALSE /\ senabled = {}
  /\ cenabled = {}
  /\ cstate = "none" /\ capsKnown = FALSE /\ caps = {}
  /\ greetingRecv = FALSE /\ pending = <<>> /\ cmdTag = 0 /\ enc = FALSE
  /\ ctls = FALSE /\ rpc = "read" /\ cclosed = FALSE
  /\ \E d \in Dials :
       /\ stpc = IF d = "NewStartTLS" THEN "begin" ELSE "none"
       /\ ready = (d = "New")
  /\ stResult = "none" /\ refresh = 0 /\ issued = 0
  /\ toServer = <<>> /\ toClient = <<>> /\ readErr = FALSE
  /\ lpc = "listen" /\ lreg = FALSE /\ lclosed = FALSE /\ wg = 0
  /\ spc = "backlog" /\ sdown = FALSE /\ cpc = "idle"

(***************************************************************************)
(* Server handlers. Each gives the state it leaves, whether the connection *)
(* is TLS afterwards, the lines it wrote itself, the error it returned     *)
(* (typ "none" for nil) and whether it deferred c.Bye. Response codes the  *)
(* client ignores are "other".                                             *)
(***************************************************************************)
NoErr == [typ |-> "none", code |-> "none"]
Err(typ, code) == [typ |-> typ, code |-> code]
Result(st, tls, out, err, bye) ==
  [st |-> st, tls |-> tls, out |-> out, err |-> err, bye |-> bye, en |-> {}]

\* handleNoop; also handleCapability's "* CAPABILITY" line.
HandleNoop(st, tls) == Result(st, tls, <<>>, NoErr, FALSE)
HandleCapabilityNoData(st, tls) == Result(st, tls, <<>>, NoErr, FALSE)
HandleCapability(st, tls) ==
  Result(st, tls, <<Resp("caps", 0, "none", "none", AvailableCaps(st, tls), tls)>>,
         NoErr, FALSE)

\* handleLogout: Logout state, then "* BYE".
HandleLogout(st, tls) ==
  Result("logout", tls, <<Resp("status", 0, "BYE", "none", {}, tls)>>, NoErr, FALSE)

HandleStartTLSSwapFirst(t, st, tls) ==
  IF ~TLSConfig THEN Result(st, tls, <<>>, Err("NO", "none"), FALSE)
  ELSE IF ~CanStartTLS(st, tls) THEN Result(st, tls, <<>>, Err("BAD", "none"), FALSE)
  ELSE Result(st, TRUE, <<Resp("tagged", t, "OK", "none", {}, TRUE)>>, NoErr, FALSE)

\* handleStartTLS: the tagged OK goes out in cleartext, then c.conn is TLS.
HandleStartTLS(t, st, tls) ==
  IF ~TLSConfig THEN Result(st, tls, <<>>, Err("NO", "none"), FALSE)
  ELSE IF ~CanStartTLS(st, tls) THEN Result(st, tls, <<>>, Err("BAD", "none"), FALSE)
  ELSE Result(st, TRUE, <<Resp("tagged", t, "OK", "none", {}, tls)>>, NoErr, FALSE)

\* handleLogin: checkState, canAuth, Session.Login, then an OK carrying the
\* capabilities of the Authenticated state.
HandleLogin(t, st, tls, ok) ==
  IF ~CheckState(st, "notauth") THEN Result(st, tls, <<>>, Err("BAD", "other"), FALSE)
  ELSE IF ~CanAuth(st, tls) THEN Result(st, tls, <<>>, Err("NO", "other"), FALSE)
  ELSE IF ~ok THEN Result(st, tls, <<>>, Err("NO", "other"), FALSE)
  ELSE Result("auth", tls,
              <<Resp("tagged", t, "OK", "CAPABILITY", AvailableCaps("auth", tls), tls)>>,
              NoErr, FALSE)

HandleSelectNoClosed(t, st, tls, ok) ==
  IF ~CheckState(st, "auth") THEN Result(st, tls, <<>>, Err("BAD", "other"), FALSE)
  ELSE IF ~ok THEN Result("auth", tls, <<>>, Err("NO", "none"), FALSE)
  ELSE Result("selected", tls, <<Resp("tagged", t, "OK", "other", {}, tls)>>, NoErr, FALSE)

\* handleSelect: from Selected, Unselect and "* OK [CLOSED]" first; then
\* Session.Select, and on success the Selected state and the tagged OK.
HandleSelect(t, st, tls, ok) ==
  LET closed == IF st = "selected"
                THEN <<Resp("status", 0, "OK", "CLOSED", {}, tls)>> ELSE <<>>
  IN IF ~CheckState(st, "auth") THEN Result(st, tls, <<>>, Err("BAD", "other"), FALSE)
     ELSE IF ~ok THEN Result("auth", tls, closed, Err("NO", "none"), FALSE)
     ELSE Result("selected", tls,
                 closed \o <<Resp("tagged", t, "OK", "other", {}, tls)>>, NoErr, FALSE)

\* handleUnselect (UNSELECT, and CLOSE with its silent Expunge).
HandleUnselect(st, tls) ==
  IF ~CheckState(st, "selected") THEN Result(st, tls, <<>>, Err("BAD", "other"), FALSE)
  ELSE Result("auth", tls, <<>>, NoErr, FALSE)

\* handleEnable: checkState(Authenticated); only IMAP4rev2 and UTF8=ACCEPT
\* are enabled, added to c.enabled and listed in "* ENABLED".
HandleEnableListsRequested(st, tls) ==
  LET enabled == EnableReq \cap {"IMAP4rev2", "UTF8=ACCEPT"} IN
  IF ~CheckState(st, "auth") THEN Result(st, tls, <<>>, Err("BAD", "other"), FALSE)
  ELSE [Result(st, tls, <<Resp("enabled", 0, "none", "none", EnableReq, tls)>>,
               NoErr, FALSE) EXCEPT !.en = enabled]
HandleEnable(st, tls) ==
  LET enabled == EnableReq \cap {"IMAP4rev2", "UTF8=ACCEPT"} IN
  IF ~CheckState(st, "auth") THEN Result(st, tls, <<>>, Err("BAD", "other"), FALSE)
  ELSE [Result(st, tls, <<Resp("enabled", 0, "none", "none", enabled, tls)>>,
               NoErr, FALSE) EXCEPT !.en = enabled]

\* The default branch of readCommand: an unknown command is BAD, and in
\* NotAuthenticated it also moves to Logout and defers c.Bye.
HandleUnknown(st, tls) ==
  IF st = "notauth" THEN Result("logout", tls, <<>>, Err("BAD", "none"), TRUE)
  ELSE Result(st, tls, <<>>, Err("BAD", "none"), FALSE)

Dispatch(m, st, tls, ok) ==
  CASE m.cmd = "NOOP"        -> HandleNoop(st, tls)
    [] m.cmd = "CAPABILITY"  -> HandleCapability(st, tls)
    [] m.cmd = "LOGOUT"      -> HandleLogout(st, tls)
    [] m.cmd = "STARTTLS"    -> HandleStartTLS(m.t, st, tls)
    [] m.cmd = "LOGIN"       -> HandleLogin(m.t, st, tls, ok)
    [] m.cmd = "SELECT"      -> HandleSelect(m.t, st, tls, ok)
    [] m.cmd \in {"UNSELECT", "CLOSE"} -> HandleUnselect(st, tls)
    [] m.cmd = "ENABLE"      -> HandleEnable(st, tls)
    [] OTHER                 -> HandleUnknown(st, tls)

\* sendOK is false for the handlers that write their own tagged OK.
SendOK(cmd) == cmd \notin {"STARTTLS", "LOGIN", "SELECT"}

\* readCommand after the handler: the tagged error, or the tagged OK when
\* sendOK; then the deferred BYE.
ReadCommandOut(m, h) ==
  h.out
  \o (IF h.err.typ # "none" THEN <<Resp("tagged", m.t, h.err.typ, h.err.code, {}, h.tls)>>
      ELSE IF SendOK(m.cmd) THEN <<Resp("tagged", m.t, "OK", "none", {}, h.tls)>>
      ELSE <<>>)
  \o (IF h.bye THEN <<Resp("status", 0, "BYE", "none", {}, h.tls)>> ELSE <<>>)

(***************************************************************************)
(* Server actions (Conn.serve).                                            *)
(***************************************************************************)
\* NewSession and the greeting. An error is written as BYE or as NO
\* [SERVERBUG], and serve returns and closes the connection.
ServeGreeting ==
  /\ spc = "registered"
  /\ sstate = "none" /\ ~sclosed /\ ~cclosed
  /\ \E g \in Greetings :
       IF g \in {"OK", "PREAUTH"}
       THEN LET st == IF g = "PREAUTH" THEN "auth" ELSE "notauth"
            IN /\ sstate' = st
               /\ toClient' = Append(toClient,
                    Resp("status", 0, g, "CAPABILITY", AvailableCaps(st, stls), stls))
               /\ UNCHANGED sclosed
       ELSE /\ toClient' = Append(toClient, Resp("status", 0, g, "other", {}, stls))
            /\ sclosed' = TRUE
            /\ UNCHANGED sstate
  /\ UNCHANGED <<stls, senabled, clientVars, toServer, readErr>>

\* One pass of the serve loop: readCommand on the next line. A line that
\* does not decode ends the loop. So does the Logout state; serve then closes
\* the connection.
ServeCommand ==
  /\ sstate \in {"notauth", "auth", "selected"} /\ ~sclosed
  /\ toServer # <<>>
  /\ LET m == Head(toServer) IN
       IF m.tls # stls
       THEN /\ readErr' = TRUE /\ sclosed' = TRUE
            /\ UNCHANGED <<sstate, stls, senabled, toClient>>
       ELSE \E ok \in BOOLEAN :
              LET h == Dispatch(m, sstate, stls, ok) IN
              /\ sstate' = h.st /\ stls' = h.tls
              /\ toClient' = toClient \o ReadCommandOut(m, h)
              /\ sclosed' = (h.st = "logout")
              /\ senabled' = senabled \cup h.en
              /\ UNCHANGED readErr
  /\ toServer' = Tail(toServer)
  /\ UNCHANGED clientVars

\* The client closed its end: dec.EOF() ends the serve loop.
ServeEOF ==
  /\ spc = "registered"
  /\ cclosed /\ ~sclosed /\ toServer = <<>>
  /\ sclosed' = TRUE
  /\ UNCHANGED <<sstate, stls, senabled, clientVars, toServer, toClient, readErr>>

(***************************************************************************)
(* Client (imapclient/client.go, starttls.go, capability.go).              *)
(***************************************************************************)
StartTLSPending == \E i \in DOMAIN pending : pending[i].cmd = "STARTTLS"

\* closeWithError: close the connection, Logout state, and fail every
\* pending command (completeCommand with the error).
CloseWithError ==
  /\ cclosed' = TRUE /\ cstate' = "logout" /\ pending' = <<>>
  /\ stResult' = IF StartTLSPending THEN "err" ELSE stResult

IssueLineTagBeforeIncrement(cmd) ==
  /\ cmdTag' = cmdTag + 1
  /\ IF cclosed
     THEN /\ CloseWithError /\ UNCHANGED toServer
     ELSE /\ pending' = Append(pending, [t |-> cmdTag, cmd |-> cmd])
          /\ toServer' = Append(toServer, [t |-> cmdTag, cmd |-> cmd, tls |-> ctls])
          /\ UNCHANGED <<cclosed, cstate, stResult>>

\* beginCommand + end: a new tag, appended to pendingCmds and written.
\* On a closed connection the flush fails and calls closeWithError.
IssueLine(cmd) ==
  /\ cmdTag' = cmdTag + 1
  /\ IF cclosed
     THEN /\ CloseWithError /\ UNCHANGED toServer
     ELSE /\ pending' = Append(pending, [t |-> cmdTag + 1, cmd |-> cmd])
          /\ toServer' = Append(toServer, [t |-> cmdTag + 1, cmd |-> cmd, tls |-> ctls])
          /\ UNCHANGED <<cclosed, cstate, stResult>>

\* NewStartTLS -> startTLS: beginCommand("STARTTLS"), flush, and keep
\* encMutex (enc.end is deferred).
StartTLSBegin ==
  /\ stpc = "begin" /\ ~enc
  /\ IssueLine("STARTTLS")
  /\ enc' = TRUE /\ stpc' = "wait"
  /\ UNCHANGED <<serverVars, cenabled, capsKnown, caps, greetingRecv, ctls, rpc, ready,
                 refresh, issued, toClient, readErr>>

\* startTLS returns once the command failed, or once the reader has
\* upgraded the connection and the handshake is done; enc.end releases
\* encMutex. NewStartTLS closes the connection on an error, and closes the
\* client if the state is not NotAuthenticated (PREAUTH in cleartext).
StartTLSReturn ==
  /\ stpc = "wait"
  /\ stResult = "err" \/ (stResult = "ok" /\ ctls)
  /\ enc' = FALSE /\ stpc' = "done"
  /\ IF stResult = "ok" /\ cstate = "notauth"
     THEN ready' = TRUE /\ UNCHANGED cclosed
     ELSE cclosed' = TRUE /\ UNCHANGED ready
  /\ UNCHANGED <<serverVars, cenabled, cstate, capsKnown, caps, greetingRecv, pending,
                 cmdTag, ctls, rpc, stResult, refresh, issued, toServer,
                 toClient, readErr>>

\* Client.Enable accepts only these; it fails any other without sending.
Enableable == {"IMAP4rev2", "UTF8=ACCEPT", "METADATA", "METADATA-SERVER"}

\* A user command once the client has been handed over: Noop, Login,
\* Select, Unselect, UnselectAndExpunge (CLOSE), Logout, Capability, ID,
\* Enable.
Issue(cmd) ==
  /\ ready /\ ~enc /\ ~cclosed /\ issued < MaxUser
  /\ IF cmd = "ENABLE" /\ ~(EnableReq \subseteq Enableable)
     THEN UNCHANGED <<cstate, pending, cmdTag, cclosed, stResult, toServer>>
     ELSE IssueLine(cmd)
  /\ issued' = issued + 1
  /\ UNCHANGED <<serverVars, capsKnown, caps, greetingRecv, enc, ctls, rpc,
                 stpc, ready, refresh, toClient, readErr, cenabled>>

\* The goroutine started by setCaps(nil): Capability().
RefreshCaps ==
  /\ refresh > 0 /\ ~enc
  /\ IssueLine("CAPABILITY")
  /\ refresh' = refresh - 1
  /\ UNCHANGED <<serverVars, cenabled, capsKnown, caps, greetingRecv, enc, ctls, rpc,
                 stpc, ready, issued, toClient, readErr>>

\* The line at the head of toClient, when it decodes.
Incoming == Head(toClient)
Readable == rpc = "read" /\ ~cclosed /\ toClient # <<>> /\ Incoming.tls = ctls

\* readResponseData, status branch: a CAPABILITY code sets caps, CLOSED sets
\* Authenticated, and the first one is the greeting. A greeting with no
\* CAPABILITY code calls setCaps(nil); a failed greeting sets greetingErr and
\* read stops, closing the connection.
ReadStatus ==
  /\ Readable /\ Incoming.kind = "status"
  /\ LET r == Incoming
         greetErr == ~greetingRecv /\ r.typ \notin {"OK", "PREAUTH"}
         reset == ~greetingRecv /\ ~greetErr /\ r.code # "CAPABILITY"
     IN /\ capsKnown' = (IF reset THEN FALSE
                         ELSE IF r.code = "CAPABILITY" THEN TRUE ELSE capsKnown)
        /\ caps' = (IF reset THEN {} ELSE IF r.code = "CAPABILITY" THEN r.caps ELSE caps)
        /\ refresh' = IF reset THEN refresh + 1 ELSE refresh
        /\ IF greetErr
           THEN CloseWithError /\ rpc' = "exited"
           ELSE /\ cstate' = (IF ~greetingRecv
                              THEN IF r.typ = "PREAUTH" THEN "auth" ELSE "notauth"
                              ELSE IF r.code = "CLOSED" THEN "auth" ELSE cstate)
                /\ UNCHANGED <<cclosed, pending, stResult, rpc>>
  /\ greetingRecv' = TRUE /\ toClient' = Tail(toClient)
  /\ UNCHANGED <<serverVars, cenabled, cmdTag, enc, ctls, stpc, ready, issued, toServer,
                 readErr>>

\* handleCapability: "* CAPABILITY ..." sets caps.
ReadCaps ==
  /\ Readable /\ Incoming.kind = "caps"
  /\ capsKnown' = TRUE /\ caps' = Incoming.caps /\ toClient' = Tail(toClient)
  /\ UNCHANGED <<serverVars, cenabled, cstate, greetingRecv, pending, cmdTag, enc, ctls,
                 rpc, cclosed, stpc, stResult, ready, refresh, issued, toServer,
                 readErr>>

\* completeCommand: the state a successful command leaves the client in.
CompletedState(cmd, ok) ==
  CASE ok /\ cmd = "LOGIN"                 -> "auth"
    [] ok /\ cmd = "SELECT"                -> "selected"
    [] ok /\ cmd \in {"UNSELECT", "CLOSE"} -> "auth"
    [] ok /\ cmd = "LOGOUT"                -> "logout"
    [] OTHER                               -> cstate

\* readResponseTagged: which successful commands call setCaps(nil) when the
\* response carries no CAPABILITY code.
ResetsCapsNoStartTLS(cmd, code, ok) ==
  ok /\ code # "CAPABILITY" /\ cmd \in {"LOGIN"}
ResetsCaps(cmd, code, ok) ==
  ok /\ code # "CAPABILITY" /\ cmd \in {"STARTTLS", "LOGIN"}

\* readResponseTagged: deletePendingCmdByTag (an unknown tag is an error that
\* ends read), a CAPABILITY code sets caps, completeCommand, and on success
\* STARTTLS and LOGIN without a CAPABILITY code call setCaps(nil). A
\* successful STARTTLS makes readResponse call upgradeStartTLS next.
ReadTagged ==
  /\ Readable /\ Incoming.kind = "tagged"
  /\ toClient' = Tail(toClient)
  /\ LET r == Incoming IN
     IF ~\E i \in DOMAIN pending : pending[i].t = r.t
     THEN /\ readErr' = TRUE /\ CloseWithError /\ rpc' = "exited"
          /\ UNCHANGED <<capsKnown, caps, refresh>>
     ELSE LET i == CHOOSE j \in DOMAIN pending : pending[j].t = r.t
              cmd == pending[i].cmd
              ok == r.typ = "OK"
              reset == ResetsCaps(cmd, r.code, ok)
          IN /\ pending' = [j \in 1..Len(pending) - 1 |->
                              IF j < i THEN pending[j] ELSE pending[j + 1]]
             /\ cstate' = CompletedState(cmd, ok)
             /\ stResult' = IF cmd = "STARTTLS"
                            THEN IF ok THEN "ok" ELSE "err" ELSE stResult
             /\ capsKnown' = (IF reset THEN FALSE
                              ELSE IF r.code = "CAPABILITY" THEN TRUE ELSE capsKnown)
             /\ caps' = (IF reset THEN {}
                         ELSE IF r.code = "CAPABILITY" THEN r.caps ELSE caps)
             /\ refresh' = IF reset THEN refresh + 1 ELSE refresh
             /\ rpc' = IF cmd = "STARTTLS" /\ ok THEN "upgrade" ELSE "read"
             /\ UNCHANGED <<cclosed, readErr>>
  /\ UNCHANGED <<serverVars, cenabled, greetingRecv, cmdTag, enc, ctls, stpc, ready,
                 issued, toServer>>

\* upgradeStartTLS: the reader resets c.br and makes a new c.bw over TLS,
\* then closes upgradeDone.
ReadUpgrade ==
  /\ rpc = "upgrade"
  /\ ctls' = TRUE /\ rpc' = "read"
  /\ UNCHANGED <<serverVars, cenabled, cstate, capsKnown, caps, greetingRecv, pending,
                 cmdTag, enc, cclosed, stpc, stResult, ready, refresh, issued,
                 toServer, toClient, readErr>>

\* read: EOF, the connection closed under it, or a line written in the other
\* TLS mode (the decoder fails and read records decErr) ends the loop, and
\* the deferred closeWithError runs.
Garbled == toClient # <<>> /\ Incoming.tls # ctls
ReadEOF ==
  /\ rpc = "read"
  /\ cclosed \/ (sclosed /\ toClient = <<>>) \/ Garbled
  /\ readErr' = (readErr \/ (~cclosed /\ Garbled))
  /\ toClient' = IF ~cclosed /\ Garbled THEN Tail(toClient) ELSE toClient
  /\ CloseWithError /\ rpc' = "exited"
  /\ UNCHANGED <<serverVars, cenabled, capsKnown, caps, greetingRecv, cmdTag, enc, ctls,
                 stpc, ready, refresh, issued, toServer>>

Server == (ServeGreeting \/ ServeCommand \/ ServeEOF) /\ UNCHANGED listenerVars
\* handleEnabled: the capabilities of "* ENABLED" join Client.enabled.
ReadEnabled ==
  /\ Readable /\ Incoming.kind = "enabled"
  /\ cenabled' = cenabled \cup Incoming.caps /\ toClient' = Tail(toClient)
  /\ UNCHANGED <<serverVars, cstate, capsKnown, caps, greetingRecv, pending,
                 cmdTag, enc, ctls, rpc, cclosed, stpc, stResult, ready, refresh,
                 issued, toServer, readErr>>

\* The respReadTimeout deadline read sets before its first read expires
\* with no greeting received; the deferred closeWithError runs.  Later
\* reads have idleReadTimeout, 0, as their deadline.
ReadTimeout ==
  /\ rpc = "read" /\ ~cclosed /\ ~greetingRecv /\ toClient = <<>>
  /\ CloseWithError /\ rpc' = "exited"
  /\ UNCHANGED <<serverVars, cenabled, capsKnown, caps, greetingRecv, cmdTag, enc, ctls,
                 stpc, ready, refresh, issued, toServer, toClient, readErr>>

Reader ==
  /\ ReadStatus \/ ReadCaps \/ ReadEnabled \/ ReadTagged \/ ReadUpgrade \/ ReadEOF
     \/ ReadTimeout
  /\ UNCHANGED listenerVars
Constructor == (StartTLSBegin \/ StartTLSReturn) /\ UNCHANGED listenerVars
User == (\E cmd \in UserCmds : Issue(cmd)) /\ UNCHANGED listenerVars
Refresh == RefreshCaps /\ UNCHANGED listenerVars

(***************************************************************************)
(* Listener (imapserver/server.go).                                        *)
(***************************************************************************)
listenerRest == <<serverVars, clientVars, toServer, toClient, readErr>>

\* Serve: under the mutex, refuse with errClosed once Close has run, or add
\* the listener to Server.listeners.
ServeListen ==
  /\ lpc = "listen"
  /\ IF sdown THEN lpc' = "refused" /\ UNCHANGED lreg
     ELSE lreg' = TRUE /\ lpc' = "add"
  /\ UNCHANGED <<lclosed, wg, spc, sdown, cpc>> /\ UNCHANGED listenerRest

\* listenerWaitGroup.Add(1), after the mutex was released.
ServeAdd ==
  /\ lpc = "add" /\ wg' = wg + 1 /\ lpc' = "accept"
  /\ UNCHANGED <<lreg, lclosed, spc, sdown, cpc>> /\ UNCHANGED listenerRest

\* Accept returns the client's connection: go newConn(conn, s).serve().
ServeAccept ==
  /\ lpc = "accept" /\ ~lclosed /\ spc = "backlog"
  /\ spc' = "spawned"
  /\ UNCHANGED <<lpc, lreg, lclosed, wg, sdown, cpc>> /\ UNCHANGED listenerRest

\* Accept returns a temporary error: sleep for the doubled delay (at most a
\* second) and call Accept again, which changes no state the model keeps.
ServeRetry ==
  /\ lpc = "accept" /\ ~lclosed
  /\ UNCHANGED vars

\* Serve returns: the deferred wg.Done and removal from Server.listeners.
\* The listener itself is left as it is.
ServeReturn ==
  /\ lpc' = "done" /\ wg' = wg - 1 /\ lreg' = FALSE
  /\ UNCHANGED <<lclosed, spc, sdown, cpc>> /\ UNCHANGED listenerRest

\* Accept fails with net.ErrClosed: Serve returns nil.
ServeClosed == lpc = "accept" /\ lclosed /\ ServeReturn

\* Accept fails, the listener open, with an error that is not temporary:
\* Serve returns it.
ServeAcceptErr == lpc = "accept" /\ ~lclosed /\ ServeReturn

\* Conn.serve adds the connection to Server.conns before NewSession.
ConnRegister ==
  /\ spc = "spawned" /\ spc' = "registered"
  /\ UNCHANGED <<lpc, lreg, lclosed, wg, sdown, cpc>> /\ UNCHANGED listenerRest

ServerCloseKeepsListeners ==
  /\ cpc = "idle"
  /\ sdown' = TRUE /\ cpc' = "wait"
  /\ UNCHANGED <<lpc, lreg, lclosed, wg, spc, sclosed>>
  /\ UNCHANGED <<sstate, stls, senabled, clientVars, toServer, toClient, readErr>>

\* Server.Close, first mutex region: closed, and every registered listener
\* closed, which resets a connection still in its backlog.
ServerClose ==
  /\ cpc = "idle"
  /\ sdown' = TRUE /\ cpc' = "wait"
  /\ lclosed' = (lclosed \/ lreg)
  /\ sclosed' = (sclosed \/ (lreg /\ spc = "backlog"))
  /\ UNCHANGED <<lpc, lreg, wg, spc>>
  /\ UNCHANGED <<sstate, stls, senabled, clientVars, toServer, toClient, readErr>>

\* listenerWaitGroup.Wait().
CloseWait ==
  /\ cpc = "wait" /\ wg = 0 /\ cpc' = "conns"
  /\ UNCHANGED <<lpc, lreg, lclosed, wg, spc, sdown>> /\ UNCHANGED listenerRest

\* Second mutex region: close every connection in Server.conns.
CloseConns ==
  /\ cpc = "conns" /\ cpc' = "done"
  /\ sclosed' = (sclosed \/ spc = "registered")
  /\ UNCHANGED <<lpc, lreg, lclosed, wg, spc, sdown>>
  /\ UNCHANGED <<sstate, stls, senabled, clientVars, toServer, toClient, readErr>>

Listener == ServeListen \/ ServeAdd \/ ServeAccept \/ ServeClosed \/ ConnRegister
Closer == CloseWait \/ CloseConns

Next ==
  \/ Server \/ Reader \/ Constructor \/ Refresh \/ User
  \/ Listener \/ Closer \/ ServeRetry \/ ServeAcceptErr \/ ServerClose

\* The server and the reader goroutine are always runnable while they have
\* input; so are NewStartTLS and the goroutines started by setCaps(nil),
\* which wait only for encMutex, held by no one once startTLS has returned.
\* So are the Serve goroutine and Conn.serve before its loop, and Close once
\* called.  The user, who calls Close, gets no fairness, nor do Accept's
\* errors: a blocked Accept is not made to fail.
Fairness ==
  /\ WF_vars(Server) /\ WF_vars(Reader) /\ WF_vars(Constructor)
  /\ WF_vars(Refresh) /\ WF_vars(Listener) /\ WF_vars(Closer)

Spec == Init /\ [][Next]_vars /\ Fairness

-----------------------------------------------------------------------------
TypeOK ==
  /\ sstate \in States /\ stls \in BOOLEAN /\ sclosed \in BOOLEAN
  /\ cstate \in States /\ capsKnown \in BOOLEAN
  /\ caps \subseteq CapNames /\ greetingRecv \in BOOLEAN
  /\ cmdTag \in Nat /\ pending \in Seq([t : 1..cmdTag, cmd : Cmds])
  /\ enc \in BOOLEAN /\ ctls \in BOOLEAN
  /\ rpc \in {"read", "upgrade", "exited"} /\ cclosed \in BOOLEAN
  /\ stpc \in {"none", "begin", "wait", "done"}
  /\ stResult \in {"none", "ok", "err"} /\ ready \in BOOLEAN
  /\ refresh \in Nat /\ issued \in 0..MaxUser
  /\ toServer \in Seq([t : Nat, cmd : Cmds, tls : BOOLEAN])
  /\ readErr \in BOOLEAN
  /\ senabled \subseteq CapNames /\ cenabled \subseteq CapNames
  /\ lpc \in {"listen", "add", "accept", "done", "refused"}
  /\ lreg \in BOOLEAN /\ lclosed \in BOOLEAN /\ wg \in 0..1
  /\ spc \in {"backlog", "spawned", "registered"}
  /\ sdown \in BOOLEAN /\ cpc \in {"idle", "wait", "conns", "done"}

\* Nothing is in flight: every command has its tagged answer, the reader
\* has applied every line and the connection is open.
Quiet ==
  /\ pending = <<>> /\ toClient = <<>> /\ rpc = "read"
  /\ greetingRecv /\ ~sclosed /\ ~cclosed

\* Client.State() agrees with Conn.state whenever nothing is in flight: the
\* client tracks the server's state through the greeting, the tagged
\* completions (completeCommand) and "* OK [CLOSED]".
ClientStateMatchesServer == Quiet => cstate = sstate

\* A cached Client.caps is what availableCaps gives in the server's current
\* state: setCaps(nil) after STARTTLS and LOGIN, and the CAPABILITY codes of
\* the greeting and of LOGIN, keep the cache from going stale.
CachedCapsMatchServer == Quiet /\ capsKnown => caps = AvailableCaps(sstate, stls)

\* Client.enabled, which beginCommand consults for quoted UTF-8, is the
\* server's Conn.enabled whenever nothing is in flight: handleEnable lists
\* in "* ENABLED" exactly what it added, and handleEnabled adds what it reads.
EnabledAgree == Quiet => cenabled = senabled

\* Neither side ever reads a line it cannot decode: no line crosses the
\* STARTTLS upgrade in the wrong mode (startTLS keeps encMutex until the
\* reader's upgradeStartTLS, the server writes its OK before swapping
\* c.conn) and every tagged response names a pending command.
NoUndecodableLine == ~readErr

\* Once the caps are reset, the goroutine started by setCaps(nil) gets them
\* back, unless the connection closes.
CapsEventuallyKnown == ~capsKnown ~> (capsKnown \/ rpc = "exited")

\* Server.Close, once called, returns, and Serve has returned too: closing
\* the registered listeners ends a blocked Accept with net.ErrClosed, and
\* a Serve that had not registered its listener refuses with errClosed.
CloseReturns == cpc # "idle" ~> (cpc = "done" /\ lpc \in {"done", "refused"})
=============================================================================
