# TLA+ models of go-imap-cn

This directory holds TLA+ specifications of the concurrent parts of the
repository under `src/`: an IMAP library with a client (`imapclient`), a
server framework (`imapserver`) and an in-memory backend
(`imapserver/imapmemserver` plus `src/unnamed/part_004`). Each model is
checked with TLC. `PROJECT.json` lists every component, run, mutant, finding
and hazard, and maps every modelling definition to the source lines it
translates.

## The system and how its parts interact

* **Server listener (`imapserver.Server`, `server.go`).** `Serve`
  registers its listener under `s.mutex` (or returns `errClosed` after
  `Close`), joins `listenerWaitGroup` and loops on `Accept`, retrying
  temporary errors and returning on `net.ErrClosed` or any other error.
  Each accepted connection gets a goroutine, which registers itself in
  `s.conns` (`Conn.serve`). `Close` marks the server closed, closes the
  registered listeners, waits on `listenerWaitGroup` and then closes the
  registered connections.
* **Server connection (`imapserver.Conn`, `conn.go`).** Each connection has a
  goroutine that reads commands (`serve`, `readCommand`) and calls a handler.
  A mailbox command calls the backend `Session`. After the tagged OK,
  `readCommand` polls the session: `poll(name)` uses `allowExpunge = false`
  after FETCH, STORE and SEARCH, because RFC 3501 forbids EXPUNGE responses
  there, and `true` after every other command. IDLE runs `Session.Idle` in a
  second goroutine until the client sends DONE.
* **Sequence-number tracker (`MailboxTracker`, `SessionTracker`, conn.go
  639-918).** A mailbox has one `MailboxTracker`, holding the canonical
  message count. Each selected connection has a `SessionTracker`, holding a
  queue of the updates (EXPUNGE, EXISTS, FETCH flags, FLAGS) its client has
  not been told yet. `queueUpdate` appends an update to every session except
  its source and signals a registered Idle call. `Poll` dequeues and writes.
  `EncodeSeqNum` and `DecodeSeqNum` translate between the server's numbers
  and the numbers the client knows.
* **In-memory backend (`imapmemserver`).** `Mailbox` holds the message list
  `l` and `uidNext` under `mutex`. Each selected session has a
  `MailboxView` (`NewView`). Expunge, append, store and fetch call the
  tracker under the mailbox lock.
* **Mailbox store (`imapmemserver.User`, `user.go`).** `User.mutex` guards
  the name -> `*Mailbox` map and `prevUidValidity`. Each `Mailbox.mutex`
  guards the message list and `uidNext`. List and Rename take a mailbox lock
  while holding `User.mutex`. Copy and Move hold the source mailbox's lock
  while `appendBytes` takes the destination's.
* **Client (`imapclient.Client`).** Caller goroutines issue commands. Each
  command takes `encMutex` in `beginCommand`, gets the next tag, and joins
  `pendingCmds`. A command that needs a continuation request ("+") first
  registers a waiter in `contReqs`: APPEND's synchronising literal, and
  IDLE. One reader goroutine does the matching. It hands each "+" to the
  oldest waiter and each tagged response to the command with that tag.
  When the connection fails it runs `closeWithError`, which fails every
  pending command.
* **Connection states and capabilities (both ends).** The server's
  `Conn.state` moves through NotAuthenticated, Authenticated, Selected and
  Logout in `serve`'s greeting and in the LOGIN, SELECT, UNSELECT/CLOSE and
  LOGOUT handlers. An unknown command in NotAuthenticated ends the
  connection. The client tracks the same state from the greeting, the tagged
  completions and `* OK [CLOSED]`. It caches the server's capabilities and
  clears the cache after STARTTLS and LOGIN (`setCaps(nil)`). Clearing it
  starts a goroutine that asks for CAPABILITY again. STARTTLS switches both
  ends to TLS: the server writes its OK in cleartext and then swaps the
  connection, and the client holds `encMutex` until its reader has upgraded.
  ENABLE adds to `Conn.enabled` and, through `* ENABLED`, to
  `Client.enabled`.
* **Client FETCH and STORE (`imapclient/fetch.go`, part_015).** `Fetch`
  and `Store` return a `FetchCommand` carrying the number set they sent.
  The reader's `handleFetch` gives each `* n FETCH` to the first pending
  `FetchCommand` whose set holds `n` (or its UID) and that has not received
  it yet (`recvSeqNum`, `recvUID`, `findPendingCmdFunc`). Any other FETCH
  goes to the unilateral handler or is dropped.
* **LIST matching (`MatchList`, part_006).** `User.List` locks and lists only
  the mailboxes whose name some pattern matches under the reference.

## Modules

| Module | Models | Composes |
|---|---|---|
| `MailboxTracker` | The tracker's state: `numMessages`, `sessions`, each session's `queue`, its Idle registration (`updates`) and the buffered token (`signalled`), and a `panicked` flag. It has one operator or action per operation: `QueueUpdates` (the `queueUpdate` loop with its panics), `NewSession`, `CloseSession`, `PollQueue`, `IdleRegister`, `IdleTakeSignal` and `IdleDeregister`. `DecodeSeqNum` and `EncodeSeqNum` are folds over the queue in the code's walk orders. | — |
| `TrackerClients` | The tracker driven through its public API. An owner queues expunges, new counts and flag changes. Connections attach, poll with or without expunges, and run, wake and stop an Idle goroutine. Ghost `msgs` and `view` record what the owner and each client know. | extends `MailboxTracker` |
| `MemServer` | Two connections running the mailbox commands of `readCommand` against one `imapmemserver` mailbox: SELECT, UNSELECT, CLOSE, EXPUNGE, UID EXPUNGE, APPEND, NOOP, STORE (silent or not), FETCH (with `\Seen` marking decided by the parsed item list: `FetchAtt`, `FetchOptions`, `MarkSeen`), SEARCH and UID SEARCH (`Search`: `MailboxView.Search`, `staticSearchCriteria`, and `message.search` reduced to the sequence-set and `\Deleted` criteria), IDLE, plus UID FETCH and MOVE as separate specs. A per-connection `pc` splits each command where the code releases the mailbox lock or waits for the client. Examples are between the two lock regions of `Mailbox.Expunge` and between `Store`'s flag change and its `Fetch`. A sequence set is one range from `SeqArgs`; `StaticSeqSet` and `StaticUIDSet` (`staticNumSet`, `staticNumRange`) turn `*` into `len(l)` or `uidNext - 1`. `view` and `misnumbered` are ghosts: what the client has been told, and whether a response named the wrong message. | extends `MailboxTracker` |
| `MailboxStore` | `User` and its mailboxes: `mailboxes`, `prevUidValidity`, and per `Mailbox` the fields `uidValidity`, `l`, `uidNext` and `subscribed`, plus the holders of `User.mutex` (`uLock`) and of each `Mailbox.mutex` (`lock`). Each connection has a `pc`. A command is split at each lock it waits for: `Create`, `Delete`, `RenameLock`/`RenameDo`, `ListBegin`/`ListNext`/`ListBox`/`ListEnd`, `AppendLookup`/`AppendWrite`, `BoxLookup`/`BoxLocked` (SELECT, STATUS, SUBSCRIBE), `CopyLookup`/`CopyLockSrc`/`CopyMsg`/`CopyDone` (COPY and MOVE: the source lock for the whole loop, the destination's once per message in `appendBytes`, none for an empty source; `copied` counts the messages done), and `Unselect`. A Mailbox object is a number, so a deleted mailbox still held by a connection stays distinct. The ghost `seen` records every (name, UIDVALIDITY, UID, message) a client could have seen. | — |
| `ClientCommands` | The abstract promise of the client: a command's handle completes once, with the server's answer to its own tag, or with an error when the connection closes. | — |
| `ClientEngine` | `cmdTag`, `pendingCmds`, `contReqs`, `encMutex` (`enc`), the reader (`ReadCont`, `ReadTagged`, `ReadEOF`), `completeCommand` (`CompleteAll`), `closeWithError`, `commandEncoder` end/flush/Literal, `Client.Close`, APPEND with a literal, and `IdleCommand` with its restart. The server side is the imapserver peer: `readCommand` (`ServeLine`), `handleAppend` (`ServeData`) and `handleIdle` (`ServeDone`). The wire is two FIFO sequences. The server may drop the connection. The ghosts are `replied`, `closeCalled`, `misrouted` and `idleAcked`. `Abstract == INSTANCE ClientCommands WITH status <- HandleStatus, ...` is the refinement mapping. | instantiates `ClientCommands` |
| `ConnStates` | One connection, both ends. Server: `sstate`, `stls`, `sclosed` and `senabled`, with `ServeGreeting`, `ServeCommand` and `ServeEOF`. `ServeCommand` runs `readCommand`: `Dispatch` to `HandleLogin`, `HandleSelect`, `HandleStartTLS`, `HandleEnable` and the rest, then the tagged response (`ReadCommandOut`). Client: `cstate`, `caps`/`capsKnown`, `pendingCmds`, `cmdTag`, `encMutex` held by `startTLS` (`enc`), `cenabled` and the reader (`ReadStatus`, `ReadCaps`, `ReadEnabled`, `ReadTagged`, `ReadUpgrade`, `ReadEOF`). `Issue` is a user command. `RefreshCaps` is the goroutine `setCaps(nil)` starts. `StartTLSBegin`/`StartTLSReturn` model `NewStartTLS`. `ReadTimeout` is `respReadTimeout` firing before the greeting arrives. Each wire line is tagged with the TLS mode it was written in. Listener: `lpc`, `lreg`, `lclosed` and `wg` for `Serve` (`ServeListen`, `ServeAdd`, `ServeAccept`, `ServeRetry`, `ServeClosed`, `ServeAcceptErr`), `spc` for the accepted connection's goroutine (`ConnRegister`), and `sdown`/`cpc` for `Close` (`ServerClose`, `CloseWait`, `CloseConns`). The greeting is written only once the connection is registered. | composes the client and server ends |
| `ListMatch` | `MatchList` and `matchList` as RECURSIVE operators over strings written as sequences of characters, with the RFC 3501 reading of `*` and `%` (`Matches`) as reference. | used by `MailboxStore`'s LIST |
| `ClientFetch` | A caller's FETCH and STORE commands (`Begin`, `FetchAtoms` from `writeFetchItems`) against one imapserver connection on an in-memory mailbox. The caller may also begin a SEARCH or UID SEARCH (`BeginSearch`). The server side has `HandleFetch` (with markSeen's self-queued FLAGS updates), `HandleStore`, `HandleSearch` (`* SEARCH` with `MailboxView.Search`'s numbers; the imapserver SEARCH handler itself is not in the repository), `HandleNoop`, `Serve` (readCommand's poll and tagged OK) and `OtherStore`. The reader side has `ReadFetch` (`handleFetch`, `FindPendingFetch`, `Accepts`), `ReadSearch` (`handleSearch` adding to the first pending SearchCommand) and `ReadTagged`. After routing a message that carries a BODY[] literal, `ReadFetch` blocks (`litWait`) until the literal is read. The caller's side has `StartCollect` (Collect, Close or Wait on any command it began), `NextMsg` (`FetchCommand.Next` and the reading of a message's items and literal) and `FinishCollect` (Next returns nil after msgs is closed, then `wait`). The ghost `answers` records which command each response was written for. | — |
| `MCClientFetch`, `MCTrackerClients`, `MCMemServer`, `MCClientEngine`, `MCMailboxStore`, `MCConnStates` | Model values for sessions, connections, goroutines and names. They also give each goroutine's command kind, or each connection's commands, and symmetry over the connections where only safety is checked. | instantiate the above |

Correspondence: a variable keeps the name of the field it models. An action is
named after the function it models. A conversion of numbers is modelled by
what it computes: encode, decode, and the reverse walk of `expungeLocked`.
Message contents, flags other than `\Deleted`, and response formatting are
abstracted away. A response is the update it reports, and the ghost client
reads it.

## Runs

| Run | Expect | What it shows |
|---|---|---|
| `tracker_idle` | violation | `IdleDeliversQueued` fails. `Idle` registers its channel but never polls what was queued before it registered, so that update waits for another update or for DONE. |
| `memserver` (`MCMemServer.cfg`) | pass | With two connections, every EXPUNGE, EXISTS and FETCH response written, and every number a SEARCH returns, names, by the client's own numbering, the message it concerns (`ResponsesNameTheirMessages`). The tracker's count and queues match the mailbox (`TrackerMatchesMailbox`). `EncodeSeqNum` and `DecodeSeqNum` agree with the ghost client views under the tracker's real callers, where counts grow by one (`EncodeSeqNumCorrect`, `DecodeSeqNumCorrect`). `queueUpdate` never panics (`TrackerNeverPanics`). An EXISTS or FETCH update can sit behind a queued EXPUNGE, so a Poll that went past the first EXPUNGE instead of stopping there is caught. FETCH and UID FETCH take the range `2:*` and one of four item lists, one of them refused as BAD. About 1.6M states, about 3.5 min with coverage. |
| `memserver_uidfetch` | violation | A UID FETCH reaches a message whose EXISTS is still queued, and the server writes `* 0 FETCH`. |
| `memserver_move` | violation | MOVE encodes its EXPUNGE numbers after queueing its own expunges. It writes `* 0 EXPUNGE` or the wrong number, and then writes the expunges again from the poll. |
| `memserver_expunge` | violation | `ExpungeRemovesOnlyDeleted` fails. Another connection's `STORE -FLAGS \Deleted` falls between `Mailbox.Expunge`'s two lock regions, and the message is removed anyway. |

| `client_fetch` (`MCClientFetch.cfg`) | violation | `ResponsesReachTheirCommand` fails. The caller pipelines `FETCH 1:2 (BODY[])`, `UID STORE`, `UID FETCH`, `SEARCH` and NOOP. The FETCH's markSeen queues a FLAGS update for its own session, and the poll writes it before the tagged OK. `handleFetch` gives that update to the pending STORE, then drops the STORE's own answer as a duplicate. In the model the UID FETCH always ends in BAD, because the client writes the UID item as a translated atom that `handleFetchAtt` refuses. |
| `client_pipeline` (`MCClientEngine.cfg`) | pass | Four goroutines run two APPENDs with literals and two plain commands. The server may answer OK or NO, refuse a literal, or drop the connection, and the caller may Close at any time. Every "+" reaches the command it was sent for (`ContinuationsReachTheirCommand`). Every command completes (`CommandsComplete`). The engine implements `ClientCommands` (`ImplementsClientCommands`). About 91k states, about 90 s. |
| `client_idle` | pass | `CommandsComplete` and `ImplementsClientCommands` (the type invariant is checked in `client_pipeline`), with an `IdleCommand` that restarts twice next to two plain commands. About 36k states, 30 s. |
| `client_hang` | violation | `CommandsComplete` fails when an APPEND and an IDLE run together. `Client.idle` registers its waiter before `beginCommand` (part_013:109), so the APPEND's "+" goes to the IDLE. The APPEND then holds `encMutex` forever, and the IDLE waits for it. |
| `store` (`MCMailboxStore.cfg`) | pass | One connection selects, copies and moves. The other creates, deletes, renames, lists, appends and subscribes. The (name, UIDVALIDITY, UID) key never names two messages over the whole history (`UIDsNameOneMessage`). Every command returns (`CommandsFinish`). LIST visits only the mailboxes `MatchList` selects, and `MatchList` agrees with the reference on every name and pattern up to three characters long (`MatchListCorrect`). About 235k states, 60 s. |
| `conn_states` (`MCConnStates.cfg`) | pass | A client made with `New` or `NewStartTLS` meets a greeting of OK, PREAUTH or BYE. It issues up to two of LOGIN, SELECT, UNSELECT, CLOSE, LOGOUT, CAPABILITY, NOOP, ID and ENABLE, while the session's Login and Select may fail. Checked whenever nothing is in flight: `Client.State()` equals `Conn.state` (`ClientStateMatchesServer`), a cached capability set equals `availableCaps` (`CachedCapsMatchServer`), and `Client.enabled` equals `Conn.enabled` (`EnabledAgree`). Checked always: no line crosses the STARTTLS upgrade in the wrong mode, and every tag is one the client sent (`NoUndecodableLine`). A cleared capability cache is filled again (`CapsEventuallyKnown`). `Server.Close`, called at any point of `Serve`, returns, and `Serve` has returned too (`CloseReturns`). About 49k states, 16 s. |
| `store_crossed_copy` | violation | `CommandsFinish` fails when both connections append a message to one mailbox each, select it and copy out of it into the other one. Each holds its source lock and waits in `appendBytes` for the other's (session.go:94). `MaxMsgs` is 3 so that a copy can start after the two appends. |

Each property of a passing run has a mutant in `PROJECT.json`: a plausible
bug in a mapped definition that TLC then catches. Examples are expunging in
forward order, counting before appending, skipping the encode step, and a
reused slot keeping its queue.

The IDLE terminator mismatch no longer has a run of its own. `handleIdle` ends IDLE on "完成" but the client writes DONE (idle.go:48). The mismatch is plain from the code and is kept as a hazard in `PROJECT.json`; `ClientEngine` still models the terminator.

### Bounds

* **Tracker (`tracker_idle`):** 2 sessions, 3 UIDs, queues of at most 2
  updates. The tracker's translation properties are checked in the
  memserver run, under the callers imapmemserver really has.
* **MemServer:** 2 connections, 2 UIDs, and at most 1 update other than
  EXPUNGE per session queue (`MaxQueue`; expunges are bounded by the
  messages). Every command acts on one message or on all of them, so each
  race needs two messages and one pending update, and an EXISTS or FETCH
  can be queued behind an EXPUNGE, which Poll without expunges must hold
  back. A bound of 2 on the whole queue gives 2.9M states, over the time
  limit with coverage. `SeqArgs` is `{2:*}`. With 0, 1 or 2 messages it gives the
  swapped dynamic range, a match of the only message and a match of the
  last one. Adding `*` doubles the states, and taking every range of two
  UIDs gives 5.7M states and more than 10 minutes. `FetchArgs` holds a list
  with UID and BODY[] (marks `\Seen`), a list of peeked sections, the FAST
  macro and a list with a macro in it (BAD). Other arguments parse to one
  of these three outcomes.
* **ClientFetch:** 2 messages, 5 pipelined commands, 1 STORE from another
  connection. This is the smallest pipeline that has a FETCH with markSeen
  ahead of a FetchCommand naming the same message. The violations show the bound is enough to reach the races.
* **ClientEngine:** 4 goroutines and 4 tags for the pipeline; 3 goroutines,
  5 tags and 2 restarts for IDLE. Two literals and two plain commands are
  enough to get a "+" with two waiters registered and a tagged answer
  between them. Two restarts cover a restart following a restart. The
  violations need only one APPEND and one IDLE.
* **MailboxStore:** 2 connections, 2 names, 2 Mailbox objects and 2
  messages (3 in `store_crossed_copy`, so that each mailbox can hold one
  before both copies start). In `store` c2 does the appending; c1
  appending too takes the run past five minutes with coverage. These bounds cover the following. Delete and create again
  under the same name. Rename onto a deleted name. Move emptying a mailbox
  followed by an append. A copy whose destination is deleted meanwhile.
  With `status` and a second selecting connection the liveness check takes
  nearly five minutes, so only c1 selects.
* **ConnStates:** both dials, three greetings, and at most two user
  commands from nine. This reaches SELECT twice after LOGIN (the
  `* OK [CLOSED]` path, on a PREAUTH greeting), STARTTLS followed by
  LOGIN, and ID in NotAuthenticated. Three commands with the listener
  composed in take 579k states and nearly four minutes without coverage,
  too close to the limit. One listener and one accepted connection are
  enough for the listener: `Close` can run before `Serve` registers,
  between registration and `listenerWaitGroup.Add`, while `Accept`
  blocks, after it failed, and before or after the connection registers. The server supports IMAP4rev1 and UNSELECT, has TLS
  configured and refuses cleartext LOGIN, so LOGIN works only after
  STARTTLS and the capability set changes at every step. ENABLE asks for
  UTF8=ACCEPT and METADATA, so the server enables part of the request.
* **ListMatch:** names of up to three characters over `a`, `b` and `/`,
  and patterns of up to three over `a`, `/`, `*` and `%`. The references
  are none, `a` and `a/`, and the delimiter is `/` or none. That is every
  pair of wildcards and every position of a delimiter relative to them.
  MailboxStore's two names are `a` and `a/b`, listed with `"" "*"` and
  `"a" "%"`.
* **Capped counters:** `nextUID` and `uidNext` are capped by `UIDs`. The
  non-EXPUNGE updates of a queue are capped by `MaxQueue` through a `Room`
  guard on the steps that queue them.

### Fairness

Only the Idle goroutine's own steps are weakly fair in `TrackerClients`:
register, take a token, and return after stop. The Go scheduler runs a
runnable goroutine eventually. The owner, the connections and the clients
get no fairness, because a client may stay silent forever. `MemServer`
checks only safety properties and has no fairness.

`ClientEngine` and `MailboxStore` take a lock with strong fairness. Go's
`sync.Mutex` switches to starvation mode once a waiter has waited over
1 ms, and then hands the lock to the waiter. A goroutine that keeps
waiting therefore gets the lock, even if the lock is free only at
intervals. The reader, the server connection and the goroutines in the
middle of a command are weakly fair, because the Go scheduler runs a
runnable goroutine. Some steps get no fairness: the caller issuing
commands or calling Close, the server dropping the connection, and a
client sending its next command. They are choices that nobody has to
make.

`ConnStates` gives weak fairness to the server goroutine, the client's
reader, `NewStartTLS`, the goroutines started by `setCaps(nil)`, the
`Serve` goroutine with its connection's goroutine (`Listener`) and a
`Close` in progress (`Closer`): none of them waits on the user.
`Accept`'s errors (`ServeRetry`, `ServeAcceptErr`) and the call of
`Close` get none, as the network and the user decide them. Each
of them waits only for input or for `encMutex`, and `startTLS` releases
`encMutex` when it returns. The user gets no fairness. The system stops
once the user stops and the lines in flight are read, so deadlock is not
checked.

## Refinement

`ClientEngine` implements `ClientCommands`. The mapping sends `status[t]`
to the handle as the caller sees it through `Wait`:
* "none" before `beginCommand`;
* "pending" until the done channel is sent on;
* then the value sent;
* a state the abstract spec cannot represent if it is sent on twice.

`replied` and `closed` map to the server's answer and the fact that
`closeWithError` has run. TLC checks `Abstract!Spec` as a temporal
property of the pipeline and IDLE runs.

## Not modelled, and why

* The imapwire encoder and decoder, the FETCH, SEARCH and STATUS grammars,
  the imap value types and message parsing are sequential data conversion.
  They hold no state that interleaves, and TLC adds nothing that tests of
  the parsers would not.
* AUTHENTICATE and UNAUTHENTICATE are not modelled. On the server they
  exist only in `tracker_test.go`. The client's AUTHENTICATE has the same
  waiter registration order as IDLE (part_017:28), but its SASL exchange
  is not modelled either. Nor are the client's unilateral data handlers.
* `Client.Caps()` is a read of the cache that may wait for a CAPABILITY.
  It and the gap in `completeCommand` (the done channel is sent before
  `setState`) are user-side reads, listed as hazards.
* `"*"` follows `len(mbox.l)`, not the client's count (part_004:1068).
  `MemServer` models it, and an invariant saying `*` names the client's
  last message fails in 4 steps, but no run slot is left to keep that
  check. It is listed as a hazard.
* A caller that collects a pipelined command before an earlier `FETCH ...
  BODY[]` deadlocks with the reader. `handleFetch` waits on `<-done`
  (fetch.go:785) until the caller reads the literal, while the caller waits
  for a response the reader never reaches. The client's documentation and
  the spec promise out-of-order waits that never block the reader.
  `CollectNeverStarvesReader` in `ClientFetch` states the promise.
  `tlc -config MCClientFetchDeadlock.cfg MCClientFetch` finds it violated
  in 6 states, but no run slot is left to keep that check, so it is listed
  as a hazard.
* `Server.Serve`/`Server.Close` are modelled in `ConnStates`, but two of
  their races are hazards without a run: a connection accepted before
  `Close` that registers in `s.conns` after `Close` walked it stays open,
  and `Close` can return before a `Serve` that registered its listener
  has run `listenerWaitGroup.Add`. A temporary invariant
  (`cpc = "done" /\ spc = "registered" => sclosed`, or
  `cpc = "done" => lpc \notin {"add", "accept"}`) is violated in 9 and 5
  states. All twelve run slots are in use.
* A write deadline (`cmdWriteTimeout`) expiring on a connection that stays
  open. In `ClientEngine` a failed write is a broken connection, which the
  reader also sees, so `CommandsComplete` holds whether or not
  `idleCommand.Close` calls `closeWithError` (part_013:140); that hazard
  has no property.
* `commandEncoder.Literal` reads the capabilities again after
  `beginCommand` set the encoder's literal flags. What imapwire writes when
  they disagree is outside the repository, so this is a hazard only.
* `imapwire` (`ContinuationRequest`, `Encoder.Literal`) is not in this
  repository. `ClientEngine` abstracts it as stated in the module header.
* SEARCH's date, size, header and body criteria compare message data
  that the model abstracts away; only the sequence-set and `\Deleted`
  criteria, which decide which numbers are written, are modelled.

## Plan for the next sittings

1. handleIdle's early returns on EOF or a bad line, which race the Idle
   goroutine, in `MemServer`.
2. **An abstract `MailboxView` spec.** A client's view follows the mailbox
   with a lag. `MemServer` is shown to refine it with `view` as the
   mapping.
3. The listener's two races as violation runs, if run slots become free.
