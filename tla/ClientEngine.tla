---------------------------- MODULE ClientEngine ----------------------------
(***************************************************************************)
(* The command engine of imapclient.Client (src/imapclient/client.go):     *)
(* tags and the pendingCmds list, the contReqs list of continuation        *)
(* waiters, the encoder mutex that serialises writing, the reader          *)
(* goroutine (read, readResponse, readContinueReq, readResponseTagged) and *)
(* closeWithError; and the callers that use continuations: APPEND with a   *)
(* synchronising literal (append.go, commandEncoder.Literal) and IDLE with *)
(* its restart timer (part_013).  Each goroutine in G issues commands of   *)
(* one kind, Kind[g]: "plain" (a command line only, e.g. NOOP), "literal"  *)
(* (APPEND) or "idle" (Client.Idle and IdleCommand.run).                  *)
(*                                                                         *)
(* The server is the peer an imapserver connection is: it reads one        *)
(* command at a time, answers a literal or IDLE with a continuation        *)
(* request "+" or refuses it with a tagged NO, and may drop the            *)
(* connection.  The wire is two FIFO sequences.                           *)
(*                                                                         *)
(* ContinuationRequest is from the imapwire package, which is not part of  *)
(* this repository: Wait blocks until Done or Cancel; Encoder.Literal      *)
(* flushes the literal's header and then Waits, unless the flush failed.   *)
(***************************************************************************)
EXTENDS Naturals, Sequences, SequencesExt

CONSTANTS
  G,            \* goroutines of the caller issuing commands
  Kind,         \* Kind[g]: the kind of command goroutine g issues
  MaxTag,       \* bound on c.cmdTag
  MaxRestart,   \* bound on the IDLE restarts of one IdleCommand
  NoG           \* no goroutine holds encMutex

Tags == 1..MaxTag
NoOwner == <<NoG, 0>>

VARIABLES
  cmdTag,       \* Client.cmdTag
  pending,      \* Client.pendingCmds, by tag
  contReqs,     \* Client.contReqs: <<g, k>> is the waiter of g's k-th command
  contState,    \* the state of g's latest ContinuationRequest
  enc,          \* the holder of Client.encMutex
  pc,           \* each caller goroutine's place
  child,        \* k: how many IDLE commands g's IdleCommand has closed
  owner,        \* owner[t]: the command object <<g, k>> that got tag t
  completions,  \* how many times completeCommand ran for t
  result,       \* the value sent on t's done channel
  connClosed,   \* c.conn.Close has been called
  readerDone,   \* the reader goroutine returned (decCh closed)
  toServer,     \* bytes written to the connection, not yet read
  toClient,     \* responses written by the server, not yet read
  srv,          \* the server connection's mode: [mode, t]
  serverGone,   \* the server dropped the connection
  replied,      \* ghost: the server's tagged answer to t
  idleAcked,    \* ghost: the tags of the IDLEs the server acknowledged with "+"
  closeCalled,  \* ghost: closeWithError has run
  misrouted     \* ghost: a "+" was handed to another command's waiter

clientVars == <<cmdTag, pending, contReqs, contState, enc, pc, child, owner,
                completions, result, connClosed, readerDone>>
serverVars == <<toServer, toClient, srv, serverGone, replied, idleAcked>>
vars == <<clientVars, serverVars, closeCalled, misrouted>>

PCs == {"start", "registered", "begun", "litRegistered", "litWait",
        "litFailed", "idleWait", "idling", "waiting"}
Owner == (G \X (0..MaxRestart)) \cup {NoOwner}
ToServerMsg == [kind : {"line", "data", "done"}, t : 0..MaxTag,
                cmd : {"plain", "literal", "idle", "none", "DONE"}]
ToClientMsg == [kind : {"cont", "tagged"}, t : Tags, r : {"ok", "no"}]

TypeOK ==
  /\ cmdTag \in 0..MaxTag
  /\ pending \in Seq(Tags)
  /\ contReqs \in Seq(G \X (0..MaxRestart))
  /\ contState \in [G -> {"none", "waiting", "done", "cancelled"}]
  /\ enc \in G \cup {NoG}
  /\ pc \in [G -> PCs]
  /\ child \in [G -> 0..MaxRestart]
  /\ owner \in [Tags -> Owner]
  /\ completions \in [Tags -> Nat]
  /\ result \in [Tags -> {"none", "ok", "no", "err"}]
  /\ connClosed \in BOOLEAN /\ readerDone \in BOOLEAN
  /\ toServer \in Seq(ToServerMsg) /\ toClient \in Seq(ToClientMsg)
  /\ srv \in [mode : {"cmd", "lit", "idle"}, t : 0..MaxTag]
  /\ serverGone \in BOOLEAN
  /\ replied \in [Tags -> {"none", "ok", "no"}]
  /\ idleAcked \subseteq Tags
  /\ closeCalled \in BOOLEAN /\ misrouted \in BOOLEAN

\* New: no command, the reader goroutine started.
Init ==
  /\ cmdTag = 0 /\ pending = <<>> /\ contReqs = <<>>
  /\ contState = [g \in G |-> "none"]
  /\ enc = NoG
  /\ pc = [g \in G |-> "start"]
  /\ child = [g \in G |-> 0]
  /\ owner = [t \in Tags |-> NoOwner]
  /\ completions = [t \in Tags |-> 0]
  /\ result = [t \in Tags |-> "none"]
  /\ connClosed = FALSE /\ readerDone = FALSE
  /\ toServer = <<>> /\ toClient = <<>>
  /\ srv = [mode |-> "cmd", t |-> 0]
  /\ serverGone = FALSE
  /\ replied = [t \in Tags |-> "none"]
  /\ idleAcked = {}
  /\ closeCalled = FALSE /\ misrouted = FALSE

-----------------------------------------------------------------------------
(* completeCommand and closeWithError.                                     *)

\* The command objects of the tags T.
Owners(T) == {owner[t] : t \in T}

\* Variant: completeCommand cancels the command's contReqs but does not
\* store the filtered list back.
CompleteAllUnfiltered(T, r) ==
  /\ completions' = [t \in Tags |-> IF t \in T THEN completions[t] + 1 ELSE completions[t]]
  /\ result' = [t \in Tags |-> IF t \in T THEN r ELSE result[t]]
  /\ UNCHANGED contReqs
  /\ contState' = [g \in G |->
                     IF <<g, child[g]>> \in Owners(T) /\ Contains(contReqs, <<g, child[g]>>)
                     THEN "cancelled" ELSE contState[g]]

\* completeCommand(cmd, err) for every command of T, with the value r:
\* send r on done, then drop and Cancel the contReqs of those commands.
CompleteAll(T, r) ==
  /\ completions' = [t \in Tags |-> IF t \in T THEN completions[t] + 1 ELSE completions[t]]
  /\ result' = [t \in Tags |-> IF t \in T THEN r ELSE result[t]]
  /\ contReqs' = SelectSeq(contReqs, LAMBDA e : e \notin Owners(T))
  /\ contState' = [g \in G |->
                     IF <<g, child[g]>> \in Owners(T) /\ Contains(contReqs, <<g, child[g]>>)
                     THEN "cancelled" ELSE contState[g]]

\* Variant: closeWithError failing pendingCmds without taking them.
CloseWithErrorKeepsPending ==
  /\ connClosed' = TRUE
  /\ UNCHANGED pending
  /\ CompleteAll(ToSet(pending), "err")
  /\ closeCalled' = TRUE

\* closeWithError: close the connection, take pendingCmds and fail each.
CloseWithError ==
  /\ connClosed' = TRUE
  /\ pending' = <<>>
  /\ CompleteAll(ToSet(pending), "err")
  /\ closeCalled' = TRUE

-----------------------------------------------------------------------------
(* The reader goroutine: read and readResponse.                           *)

\* readContinueReq: hand the "+" to the oldest registered waiter; with no
\* waiter, fail the read (closeWithError in read's deferred function).
ReadCont ==
  /\ ~readerDone /\ ~connClosed
  /\ toClient # <<>> /\ Head(toClient).kind = "cont"
  /\ toClient' = Tail(toClient)
  /\ IF contReqs = <<>>
     THEN CloseWithError /\ readerDone' = TRUE
          /\ UNCHANGED misrouted
     ELSE LET e == Head(contReqs)
          IN  /\ contReqs' = Tail(contReqs)
              /\ contState' = [contState EXCEPT ![e[1]] = "done"]
              /\ misrouted' = (misrouted \/ owner[Head(toClient).t] # e)
              /\ UNCHANGED <<pending, completions, result, connClosed,
                             readerDone, closeCalled>>
  /\ UNCHANGED <<cmdTag, enc, pc, child, owner, toServer, srv, serverGone,
                 replied, idleAcked>>

\* Variant: every tagged status completes the command as OK.
ReadTaggedIgnoresNo ==
  /\ ~readerDone /\ ~connClosed
  /\ toClient # <<>> /\ Head(toClient).kind = "tagged"
  /\ toClient' = Tail(toClient)
  /\ LET m == Head(toClient)
     IN  IF Contains(pending, m.t)
         THEN /\ pending' = Remove(pending, m.t)
              /\ CompleteAll({m.t}, "ok")
              /\ UNCHANGED <<connClosed, readerDone, closeCalled>>
         ELSE CloseWithError /\ readerDone' = TRUE
  /\ UNCHANGED <<cmdTag, enc, pc, child, owner, toServer, srv, serverGone,
                 replied, idleAcked, misrouted>>

\* readResponseTagged: deletePendingCmdByTag, then completeCommand with
\* nil for OK and an imap.Error for NO; an unknown tag fails the read.
ReadTagged ==
  /\ ~readerDone /\ ~connClosed
  /\ toClient # <<>> /\ Head(toClient).kind = "tagged"
  /\ toClient' = Tail(toClient)
  /\ LET m == Head(toClient)
     IN  IF Contains(pending, m.t)
         THEN /\ pending' = Remove(pending, m.t)
              /\ CompleteAll({m.t}, m.r)
              /\ UNCHANGED <<connClosed, readerDone, closeCalled>>
         ELSE CloseWithError /\ readerDone' = TRUE
  /\ UNCHANGED <<cmdTag, enc, pc, child, owner, toServer, srv, serverGone,
                 replied, idleAcked, misrouted>>

\* Variant: the read loop returns without closeWithError.
ReadEOFNoClose ==
  /\ ~readerDone
  /\ connClosed \/ (serverGone /\ toClient = <<>>)
  /\ readerDone' = TRUE
  /\ UNCHANGED <<cmdTag, pending, contReqs, contState, enc, pc, child, owner,
                 completions, result, connClosed, serverVars, closeCalled,
                 misrouted>>

\* The read loop ends at EOF, or on net.ErrClosed once the connection is
\* closed; its deferred function calls closeWithError.
ReadEOF ==
  /\ ~readerDone
  /\ connClosed \/ (serverGone /\ toClient = <<>>)
  /\ CloseWithError
  /\ readerDone' = TRUE
  /\ UNCHANGED <<cmdTag, enc, pc, child, owner, serverVars, misrouted>>

-----------------------------------------------------------------------------
(* Writing.  commandEncoder.flush writes through the buffered writer; a    *)
(* failed write calls closeWithError.  A write fails once the client has   *)
(* closed the connection; after the server dropped it, it may still       *)
(* succeed into the void.                                                  *)

NoClose == UNCHANGED <<connClosed, pending, completions, result, contReqs,
                       contState, closeCalled>>

Write(m) ==
  \/ /\ connClosed
     /\ CloseWithError
     /\ UNCHANGED toServer
  \/ /\ ~connClosed /\ serverGone
     /\ NoClose /\ UNCHANGED toServer
  \/ /\ ~connClosed /\ ~serverGone
     /\ toServer' = Append(toServer, m)
     /\ NoClose

Line(t, k) == [kind |-> "line", t |-> t, cmd |-> k]
Data(t) == [kind |-> "data", t |-> t, cmd |-> "none"]
DoneLine == [kind |-> "done", t |-> 0, cmd |-> "DONE"]

\* The tag of g's current command object (g holds encMutex).
CurTag(g) == CHOOSE t \in Tags : owner[t] = <<g, child[g]>>

\* registerContReq(cmd): append the waiter of g's current command object.
RegisterContReq(g) ==
  /\ contReqs' = Append(contReqs, <<g, child[g]>>)
  /\ contState' = [contState EXCEPT ![g] = "waiting"]

-----------------------------------------------------------------------------
(* The caller goroutines.                                                  *)

\* Variant: the tag formatted before cmdTag is incremented.
BeginTagBeforeIncrement(g) ==
  /\ pc[g] = IF Kind[g] = "idle" THEN "registered" ELSE "start"
  /\ enc = NoG
  /\ cmdTag < MaxTag
  /\ cmdTag' = cmdTag + 1
  /\ pending' = Append(pending, cmdTag)
  /\ owner' = [owner EXCEPT ![cmdTag] = <<g, child[g]>>]
  /\ enc' = g
  /\ pc' = [pc EXCEPT ![g] = "begun"]
  /\ UNCHANGED <<contReqs, contState, child, completions, result, connClosed,
                 readerDone, serverVars, closeCalled, misrouted>>

\* beginCommand: take encMutex, then under c.mutex the next tag and the
\* command appended to pendingCmds.  IDLE registered its waiter first.
Begin(g) ==
  /\ pc[g] = IF Kind[g] = "idle" THEN "registered" ELSE "start"
  /\ enc = NoG
  /\ cmdTag < MaxTag
  /\ LET t == cmdTag + 1
     IN  /\ cmdTag' = t
         /\ pending' = Append(pending, t)
         /\ owner' = [owner EXCEPT ![t] = <<g, child[g]>>]
  /\ enc' = g
  /\ pc' = [pc EXCEPT ![g] = "begun"]
  /\ UNCHANGED <<contReqs, contState, child, completions, result, connClosed,
                 readerDone, serverVars, closeCalled, misrouted>>

\* A command without a literal: commandEncoder.end flushes and unlocks.
End(g) ==
  /\ pc[g] = "begun" /\ Kind[g] = "plain"
  /\ Write(Line(CurTag(g), "plain"))
  /\ enc' = NoG
  /\ pc' = [pc EXCEPT ![g] = "waiting"]
  /\ UNCHANGED <<cmdTag, child, owner, readerDone, toClient, srv, serverGone,
                 replied, idleAcked, misrouted>>

\* Append -> commandEncoder.Literal: a synchronising literal registers a
\* continuation request, then imapwire flushes "{n}" and waits on it.
LiteralRegister(g) ==
  /\ pc[g] = "begun" /\ Kind[g] = "literal"
  /\ RegisterContReq(g)
  /\ pc' = [pc EXCEPT ![g] = "litRegistered"]
  /\ UNCHANGED <<cmdTag, pending, enc, child, owner, completions, result,
                 connClosed, readerDone, serverVars, closeCalled, misrouted>>

LiteralFlush(g) ==
  /\ pc[g] = "litRegistered"
  /\ Write(Line(CurTag(g), "literal"))
  /\ pc' = [pc EXCEPT ![g] = IF connClosed THEN "litFailed" ELSE "litWait"]
  /\ UNCHANGED <<cmdTag, enc, child, owner, readerDone, toClient, srv,
                 serverGone, replied, idleAcked, misrouted>>

\* The caller writes the message and calls AppendCommand.Close: the literal
\* writer is closed and commandEncoder.end flushes and unlocks.  A literal
\* whose continuation request was cancelled writes nothing (imapwire's
\* writer returns the error).
LiteralFinish(g) ==
  /\ \/ pc[g] = "litWait" /\ contState[g] \in {"done", "cancelled"}
     \/ pc[g] = "litFailed"
  /\ IF pc[g] = "litWait" /\ contState[g] = "cancelled"
     THEN NoClose /\ UNCHANGED toServer
     ELSE Write(Data(CurTag(g)))
  /\ enc' = NoG
  /\ pc' = [pc EXCEPT ![g] = "waiting"]
  /\ UNCHANGED <<cmdTag, child, owner, readerDone, toClient, srv, serverGone,
                 replied, idleAcked, misrouted>>

\* Client.idle: registerContReq before beginCommand.
IdleRegister(g) ==
  /\ pc[g] = "start" /\ Kind[g] = "idle"
  /\ RegisterContReq(g)
  /\ pc' = [pc EXCEPT ![g] = "registered"]
  /\ UNCHANGED <<cmdTag, pending, enc, child, owner, completions, result,
                 connClosed, readerDone, serverVars, closeCalled, misrouted>>

\* Client.idle: cmd.enc.flush(), then contReq.Wait().
IdleFlush(g) ==
  /\ pc[g] = "begun" /\ Kind[g] = "idle"
  /\ Write(Line(CurTag(g), "idle"))
  /\ pc' = [pc EXCEPT ![g] = "idleWait"]
  /\ UNCHANGED <<cmdTag, enc, child, owner, readerDone, toClient, srv,
                 serverGone, replied, idleAcked, misrouted>>

\* The wait returns: IDLE runs, encMutex still held.
IdleAck(g) ==
  /\ pc[g] = "idleWait" /\ contState[g] = "done"
  /\ pc' = [pc EXCEPT ![g] = "idling"]
  /\ UNCHANGED <<cmdTag, pending, contReqs, contState, enc, child, owner,
                 completions, result, connClosed, readerDone, serverVars,
                 closeCalled, misrouted>>

\* The wait fails (the command was answered NO or the connection closed):
\* Client.idle calls enc.end and returns the error.
IdleFail(g) ==
  /\ pc[g] = "idleWait" /\ contState[g] = "cancelled"
  /\ enc' = NoG
  /\ pc' = [pc EXCEPT ![g] = "waiting"]
  /\ UNCHANGED <<cmdTag, pending, contReqs, contState, child, owner,
                 completions, result, connClosed, readerDone, serverVars,
                 closeCalled, misrouted>>

\* Variant: "DONE" left in the buffered writer, never flushed.
WriteDoneUnflushed == UNCHANGED toServer

\* idleCommand.Close: "DONE" written straight to the buffered writer, its
\* error returned rather than passed to closeWithError; then end unlocks.
WriteDone ==
  toServer' = IF ~connClosed /\ ~serverGone THEN Append(toServer, DoneLine)
              ELSE toServer

\* IdleCommand.run, timer branch: close the child, then c.idle() again as
\* a new command object; a failed close returns from run.
IdleRestart(g) ==
  /\ pc[g] = "idling" /\ child[g] < MaxRestart
  /\ WriteDone
  /\ enc' = NoG
  /\ IF connClosed
     THEN pc' = [pc EXCEPT ![g] = "waiting"] /\ UNCHANGED child
     ELSE pc' = [pc EXCEPT ![g] = "start"] /\ child' = [child EXCEPT ![g] = @ + 1]
  /\ UNCHANGED <<cmdTag, pending, contReqs, contState, owner, completions,
                 result, connClosed, readerDone, toClient, srv, serverGone,
                 replied, idleAcked, closeCalled, misrouted>>

\* IdleCommand.run returns on <-cmd.stop (IdleCommand.Close) or on
\* <-c.decCh; its deferred function closes the child.
ChildClose(g) ==
  /\ WriteDone
  /\ enc' = NoG
  /\ pc' = [pc EXCEPT ![g] = "waiting"]
  /\ UNCHANGED <<cmdTag, pending, contReqs, contState, child, owner,
                 completions, result, connClosed, readerDone, toClient, srv,
                 serverGone, replied, idleAcked, closeCalled, misrouted>>

IdleStop(g) == pc[g] = "idling" /\ ChildClose(g)

IdleDecDone(g) == pc[g] = "idling" /\ readerDone /\ ChildClose(g)

\* Client.Close: closes the connection; the reader then fails the rest.
UserClose ==
  /\ ~connClosed
  /\ connClosed' = TRUE
  /\ UNCHANGED <<cmdTag, pending, contReqs, contState, enc, pc, child, owner,
                 completions, result, readerDone, serverVars, closeCalled,
                 misrouted>>

-----------------------------------------------------------------------------
(* The server connection: one command at a time (Conn.serve).             *)

Reply(t, r) ==
  /\ toClient' = Append(toClient, [kind |-> "tagged", t |-> t, r |-> r])
  /\ replied' = [replied EXCEPT ![t] = r]

Cont(t) ==
  /\ toClient' = Append(toClient, [kind |-> "cont", t |-> t, r |-> "ok"])
  /\ UNCHANGED replied

\* A command line: a plain command is answered; a literal or IDLE gets a
\* continuation request, or is refused with NO.
ServeLine ==
  /\ ~serverGone /\ srv.mode = "cmd"
  /\ toServer # <<>> /\ Head(toServer).kind = "line"
  /\ toServer' = Tail(toServer)
  /\ LET m == Head(toServer)
     IN  \/ m.cmd = "plain" /\ \E r \in {"ok", "no"} : Reply(m.t, r)
            /\ UNCHANGED <<srv, idleAcked>>
         \/ m.cmd # "plain" /\ Cont(m.t)
            /\ srv' = [mode |-> IF m.cmd = "literal" THEN "lit" ELSE "idle", t |-> m.t]
            /\ idleAcked' = IF m.cmd = "idle" THEN idleAcked \cup {m.t} ELSE idleAcked
         \/ m.cmd # "plain" /\ Reply(m.t, "no")
            /\ UNCHANGED <<srv, idleAcked>>
  /\ UNCHANGED <<clientVars, serverGone, closeCalled, misrouted>>

\* handleAppend reads the literal and answers.
ServeData ==
  /\ ~serverGone /\ srv.mode = "lit"
  /\ toServer # <<>> /\ Head(toServer).kind = "data"
  /\ toServer' = Tail(toServer)
  /\ \E r \in {"ok", "no"} : Reply(srv.t, r)
  /\ srv' = [mode |-> "cmd", t |-> 0]
  /\ UNCHANGED <<clientVars, serverGone, idleAcked, closeCalled, misrouted>>

\* The line handleIdle accepts as the end of IDLE: the string "完成"
\* (idle.go:48), written here in ASCII.
IdleTerminator == "WANCHENG"

\* handleIdle reads the next line: the terminator ends IDLE and readCommand
\* answers OK; any other line is a client-bug error, answered with a tagged
\* BAD, which the client's readResponseTagged turns into an imap.Error just
\* as it does NO.
ServeDone ==
  /\ ~serverGone /\ srv.mode = "idle"
  /\ toServer # <<>> /\ Head(toServer).kind = "done"
  /\ toServer' = Tail(toServer)
  /\ Reply(srv.t, IF Head(toServer).cmd = IdleTerminator THEN "ok" ELSE "no")
  /\ srv' = [mode |-> "cmd", t |-> 0]
  /\ UNCHANGED <<clientVars, serverGone, idleAcked, closeCalled, misrouted>>

\* The server drops the connection; what it had not read is lost.
Drop ==
  /\ ~serverGone
  /\ serverGone' = TRUE
  /\ toServer' = <<>>
  /\ UNCHANGED <<clientVars, toClient, srv, replied, idleAcked, closeCalled,
                 misrouted>>

-----------------------------------------------------------------------------

Reader == ReadCont \/ ReadTagged \/ ReadEOF
Server == ServeLine \/ ServeData \/ ServeDone

\* The steps a caller goroutine takes by itself, once it can.
CallerSteps(g) ==
  \/ End(g) \/ LiteralRegister(g) \/ LiteralFlush(g) \/ LiteralFinish(g)
  \/ IdleRegister(g) \/ IdleFlush(g) \/ IdleAck(g) \/ IdleFail(g)
  \/ IdleRestart(g) \/ IdleDecDone(g)

Next ==
  \/ Reader \/ Server \/ Drop \/ UserClose
  \/ \E g \in G : Begin(g) \/ CallerSteps(g) \/ IdleStop(g)

\* The reader, the server and the caller goroutines run when they can; the
\* restart timer fires.  sync.Mutex hands encMutex to a goroutine that keeps
\* waiting for it (starvation mode), hence strong fairness on Begin.  The
\* caller's Close of the client or of an IDLE, and the server's drop, are
\* choices nobody has to make.
Fairness ==
  /\ WF_vars(Reader) /\ WF_vars(Server)
  /\ \A g \in G : SF_vars(Begin(g)) /\ WF_vars(CallerSteps(g))

Spec == Init /\ [][Next]_vars /\ Fairness

-----------------------------------------------------------------------------
(* Properties.                                                             *)

\* The IDLE command tagged t is running: its caller has not closed it.
IdleRunning(t) ==
  /\ owner[t] # NoOwner
  /\ pc[owner[t][1]] = "idling"
  /\ child[owner[t][1]] = owner[t][2]

\* Every continuation request "+" the reader hands out goes to the waiter
\* of the command the server sent it for (readContinueReq pops the oldest
\* entry of contReqs).
ContinuationsReachTheirCommand == ~misrouted

\* Every issued command completes (its Wait returns), unless it is an IDLE
\* the caller keeps running: the reader, closeWithError and the
\* continuation handshakes never leave a command waiting for ever.
CommandsComplete ==
  \A t \in Tags :
    (owner[t] # NoOwner /\ ~IdleRunning(t)) ~> (completions[t] > 0 \/ IdleRunning(t))

\* The handle of t as the caller sees it; a done channel sent on twice
\* (which panics in completeCommand) is a state the promise has no name for.
HandleStatus ==
  [t \in Tags |->
     CASE completions[t] > 1 -> "completedTwice"
       [] completions[t] = 1 -> result[t]
       [] owner[t] # NoOwner -> "pending"
       [] OTHER              -> "none"]

Abstract == INSTANCE ClientCommands WITH
              status <- HandleStatus, replied <- replied, closed <- closeCalled

\* The engine implements ClientCommands: each command completes once, with
\* the server's answer to its own tag, or with an error when
\* closeWithError fails every pending command.
ImplementsClientCommands == Abstract!Spec

\* spec.md: the server ends IDLE on the line DONE.  An IDLE the server
\* acknowledged completes, once the client's idleCommand.Close has written
\* DONE, with the server's OK, unless the connection failed first.
IdleStopSucceeds ==
  \A t \in idleAcked : completions[t] > 0 /\ ~closeCalled => result[t] = "ok"

=============================================================================
