----------------------------- MODULE ClientFetch -----------------------------
(***************************************************************************)
(* How imapclient hands "* n FETCH" responses to the FETCH and STORE       *)
(* commands a caller has pipelined, against the in-memory server.          *)
(*                                                                         *)
(* Client side: Client.Fetch and Client.Store (src/imapclient/fetch.go,    *)
(* part_015) begin a FetchCommand with its number set and append it to    *)
(* pendingCmds; the reader's handleFetch gives each FETCH response to the  *)
(* first pending FetchCommand whose recvSeqNum or recvUID accepts its      *)
(* number (findPendingCmdFunc), and to the unilateral handler or nobody    *)
(* otherwise; a tagged response completes the command and closes msgs.     *)
(* A "* SEARCH" goes to the first pending SearchCommand (handleSearch).    *)
(* A BODY[] section arrives as a literal: handleFetch hands the message to *)
(* its command and then waits on done until someone reads the literal to   *)
(* EOF, the caller through FetchCommand.Next/Collect, or the discard        *)
(* goroutine for a message no command takes.  One caller goroutine begins  *)
(* the commands and collects them, in any order it likes.                 *)
(*                                                                         *)
(* Server side: one connection of imapserver with a selected in-memory     *)
(* mailbox of NumMsgs messages.  It handles the commands in the order they *)
(* were written: handleFetch parses the items (handleFetchAtt) and calls   *)
(* MailboxView.Fetch, which queues a FLAGS update for every session,       *)
(* this one included, for each message it marks \Seen; handleStore calls   *)
(* MailboxView.Store, which queues FLAGS updates for the other sessions   *)
(* and answers with FETCH FLAGS unless silent; readCommand's poll then     *)
(* writes the queued updates before the tagged OK.  Other connections'    *)
(* STOREs queue FLAGS updates for this session at any time.               *)
(*                                                                         *)
(* A response carries its number, its UID (message.fetch and              *)
(* WriteMessageFlags always write it) and its items; by is the command    *)
(* whose handler wrote it, 0 for the updates poll writes.  by is not on   *)
(* the wire: the client routes on numbers only.                           *)
(***************************************************************************)
EXTENDS Naturals, Sequences, SequencesExt, FiniteSets

CONSTANTS
  NumMsgs,   \* messages in the selected mailbox: sequence numbers 1..NumMsgs
  Cmds,      \* the commands the caller begins, in the order it begins them
  MaxOther   \* bound on the STOREs other connections make

\* The UID of message n.  UIDs start past the sequence numbers, as they do
\* in a mailbox whose first messages were expunged.
UIDOf(n) == NumMsgs + n

\* A command: kind, uid (a UID command), set (the number set it sends),
\* flags (FETCH asks for FLAGS) and sect (the body section FETCH asks for).
CmdRecs ==
  [kind : {"FETCH", "STORE", "SEARCH", "NOOP"}, uid : BOOLEAN,
   set : SUBSET (1..2 * NumMsgs), flags : BOOLEAN, sect : {"BODY[]", "BODY.PEEK[]"}]
ASSUME \A k \in DOMAIN Cmds : Cmds[k] \in CmdRecs

K == Len(Cmds)
FetchCmds == {k \in 1..K : Cmds[k].kind \in {"FETCH", "STORE"}}
SearchCmds == {k \in 1..K : Cmds[k].kind = "SEARCH"}

Tagged(k, ok) == [tag |-> k, ok |-> ok]

VARIABLES
  issued,    \* how many commands the caller has begun
  pending,   \* Client.pendingCmds, by command index
  recvd,     \* recvd[k]: FetchCommand.recvSeqSet or recvUIDSet of k
  got,       \* got[k]: the messages sent on k's msgs channel
  result,    \* result[k]: "none" until k completes, then "OK" or "BAD"
  handled,   \* how many commands the server has handled
  queue,     \* this session's SessionTracker queue of FLAGS updates
  others,    \* how many STOREs other connections made
  toClient,  \* responses written to the connection, not yet read
  answers,   \* ghost: answers[k], the FETCH responses k's handler wrote
  msgs,      \* msgs[k]: FetchCommand.msgs of k, the messages Next has not taken
  litWait,   \* handleFetch is blocked on <-done for the literal it just routed
  caller,    \* the command the caller is collecting or waiting on, 0 if none
  collected  \* the commands whose Collect, Close or Wait has returned

vars == <<issued, pending, recvd, got, result, handled, queue, others, toClient, answers,
          msgs, litWait, caller, collected>>
callerVars == <<msgs, litWait, caller, collected>>

Init ==
  /\ issued = 0
  /\ pending = <<>>
  /\ recvd = [k \in 1..K |-> {}]
  /\ got = [k \in 1..K |-> {}]
  /\ result = [k \in 1..K |-> "none"]
  /\ handled = 0
  /\ queue = <<>>
  /\ others = 0
  /\ toClient = <<>>
  /\ answers = [k \in 1..K |-> {}]
  /\ msgs = [k \in 1..K |-> <<>>]
  /\ litWait = FALSE
  /\ caller = 0
  /\ collected = {}

-----------------------------------------------------------------------------
(* The caller.                                                             *)

\* beginCommand appends the caller's next command to pendingCmds, and the
\* command line is written.
Begin(kind) ==
  /\ caller = 0
  /\ issued < K
  /\ Cmds[issued + 1].kind = kind
  /\ issued' = issued + 1
  /\ pending' = Append(pending, issued + 1)
  /\ UNCHANGED <<recvd, got, result, handled, queue, others, toClient, answers>>
  /\ UNCHANGED callerVars

\* Client.Fetch: a FetchCommand with the number set, then writeFetchItems.
BeginFetch == Begin("FETCH")

\* Client.Store: a FetchCommand with the number set, then [+|-]FLAGS.
BeginStore == Begin("STORE")

\* Client.Search and Client.UIDSearch: a SearchCommand whose All is an
\* empty SeqSet or UIDSet, then the number set as the only search key.
BeginSearch == Begin("SEARCH")

\* Client.Noop.
BeginNoop == Begin("NOOP")

-----------------------------------------------------------------------------
(* The server connection.                                                  *)

\* writeFetchItems: the atoms Client.Fetch writes.  The UID and FLAGS
\* items are written as translated atoms, stood for by "UID_zh" and
\* "FLAGS_zh"; body sections are written as BODY[...] and BODY.PEEK[...].
FetchAtoms(c) ==
  (IF c.uid THEN {"UID_zh"} ELSE {}) \cup (IF c.flags THEN {"FLAGS_zh"} ELSE {})
    \cup {c.sect}

\* The item names handleFetchAtt accepts, of those the client can write.
FetchAttNames == {"UID", "FLAGS", "BODY[]", "BODY.PEEK[]"}

\* The messages a command's number set names (forEachLocked).
Matches(c) == {n \in 1..NumMsgs : IF c.uid THEN UIDOf(n) \in c.set ELSE n \in c.set}

\* message.fetch: the UID always, FLAGS if asked, the body if asked.
Answer(k, n, items) == [seq |-> n, uid |-> UIDOf(n), items |-> items, by |-> k]

\* WriteMessageFlags for each update poll takes from the queue.
Updates(q) == [i \in 1..Len(q) |-> [seq |-> q[i], uid |-> UIDOf(q[i]),
                                     items |-> {"FLAGS"}, by |-> 0]]

\* handleFetch and MailboxView.Fetch, then readCommand's poll and tagged
\* OK; a FETCH whose items handleFetchAtt rejects gets a tagged BAD and no
\* poll.  markSeen (a BODY[] section) queues a FLAGS update for every
\* message before its response is written.
HandleFetch(k) ==
  LET c == Cmds[k]
      M == SetToSortSeq(Matches(c), <)
      items == (IF c.flags THEN {"FLAGS"} ELSE {}) \cup {"BODY"}
      out == [i \in 1..Len(M) |-> Answer(k, M[i], items)]
      q == IF c.sect = "BODY[]" THEN queue \o M ELSE queue
  IN  IF FetchAtoms(c) \subseteq FetchAttNames
      THEN /\ toClient' = toClient \o out \o Updates(q) \o <<Tagged(k, TRUE)>>
           /\ queue' = <<>>
           /\ answers' = [answers EXCEPT ![k] = Range(out)]
      ELSE /\ toClient' = Append(toClient, Tagged(k, FALSE))
           /\ UNCHANGED <<queue, answers>>

\* handleStore and MailboxView.Store (not silent): the FLAGS updates go to
\* the other sessions, the answer is a FETCH FLAGS per message, then poll
\* and the tagged OK.
HandleStore(k) ==
  LET c == Cmds[k]
      M == SetToSortSeq(Matches(c), <)
      out == [i \in 1..Len(M) |-> Answer(k, M[i], {"FLAGS"})]
  IN  /\ toClient' = toClient \o out \o Updates(queue) \o <<Tagged(k, TRUE)>>
      /\ queue' = <<>>
      /\ answers' = [answers EXCEPT ![k] = Range(out)]

\* handleSearch and MailboxView.Search with the number set as criterion:
\* "* SEARCH" with the sequence numbers, or the UIDs, of the matching
\* messages; then poll and the tagged OK.
HandleSearch(k) ==
  LET c == Cmds[k]
      nums == IF c.uid THEN {UIDOf(n) : n \in Matches(c)} ELSE Matches(c)
      out == [search |-> nums, by |-> k]
  IN  /\ toClient' = toClient \o <<out>> \o Updates(queue) \o <<Tagged(k, TRUE)>>
      /\ queue' = <<>>
      /\ answers' = [answers EXCEPT ![k] = {out}]

\* handleNoop: poll, then the tagged OK.
HandleNoop(k) ==
  /\ toClient' = toClient \o Updates(queue) \o <<Tagged(k, TRUE)>>
  /\ queue' = <<>>
  /\ UNCHANGED answers

\* readCommand takes the next command line and runs its handler.
Serve ==
  /\ handled < issued
  /\ handled' = handled + 1
  /\ LET k == handled + 1 IN
       CASE Cmds[k].kind = "FETCH" -> HandleFetch(k)
         [] Cmds[k].kind = "STORE" -> HandleStore(k)
         [] Cmds[k].kind = "SEARCH" -> HandleSearch(k)
         [] Cmds[k].kind = "NOOP"  -> HandleNoop(k)
  /\ UNCHANGED <<issued, pending, recvd, got, result, others>>
  /\ UNCHANGED callerVars

\* A STORE of another connection on message n queues a FLAGS update for
\* this session (QueueMessageFlags with that connection as source).
OtherStore ==
  /\ others < MaxOther
  /\ others' = others + 1
  /\ \E n \in 1..NumMsgs : queue' = Append(queue, n)
  /\ UNCHANGED <<issued, pending, recvd, got, result, handled, toClient, answers>>
  /\ UNCHANGED callerVars

-----------------------------------------------------------------------------
(* The reader goroutine.                                                   *)

\* recvSeqNum or recvUID: k's set names the number and k has not received it.
Accepts(k, r) ==
  LET num == IF Cmds[k].uid THEN r.uid ELSE r.seq
  IN  num \in Cmds[k].set /\ num \notin recvd[k]

\* findPendingCmdFunc: the position in pendingCmds of the first FetchCommand
\* that accepts r, 0 if none does.
FindPendingFetch(r) == SelectInSeq(pending, LAMBDA k : k \in FetchCmds /\ Accepts(k, r))

\* A message whose items include a BODY[] section, sent as a literal.
HasLiteral(r) == "BODY" \in r.items

\* handleFetch: the response goes to the command FindPendingFetch picks,
\* onto its msgs channel, or with none to msg.discard in a goroutine of its
\* own (the caller here sets no unilateral handler), which reads any literal
\* at once.  After routing a literal, handleFetch waits on done.
ReadFetch ==
  /\ ~litWait
  /\ toClient # <<>>
  /\ "seq" \in DOMAIN Head(toClient)
  /\ LET r == Head(toClient)
         i == FindPendingFetch(r)
         k == pending[i]
     IN  IF i = 0
         THEN UNCHANGED <<recvd, got, msgs, litWait>>
         ELSE /\ recvd' = [recvd EXCEPT ![k] = @ \cup {IF Cmds[k].uid THEN r.uid ELSE r.seq}]
              /\ got' = [got EXCEPT ![k] = @ \cup {r}]
              /\ msgs' = [msgs EXCEPT ![k] = Append(@, r)]
              /\ litWait' = HasLiteral(r)
  /\ toClient' = Tail(toClient)
  /\ UNCHANGED <<issued, pending, result, handled, queue, others, answers, caller, collected>>

\* handleSearch: the numbers are added to the All set of the first
\* SearchCommand in pendingCmds (findPendingCmdByType), or dropped.
ReadSearch ==
  /\ ~litWait
  /\ toClient # <<>>
  /\ "search" \in DOMAIN Head(toClient)
  /\ LET r == Head(toClient)
         i == SelectInSeq(pending, LAMBDA k : k \in SearchCmds)
     IN  IF i = 0 THEN UNCHANGED got
         ELSE got' = [got EXCEPT ![pending[i]] = @ \cup {r}]
  /\ toClient' = Tail(toClient)
  /\ UNCHANGED <<issued, pending, recvd, result, handled, queue, others, answers>>
  /\ UNCHANGED callerVars

\* readResponseTagged and completeCommand: the command leaves pendingCmds
\* and its msgs channel is closed.
ReadTagged ==
  /\ ~litWait
  /\ toClient # <<>>
  /\ "tag" \in DOMAIN Head(toClient)
  /\ LET t == Head(toClient) IN
       /\ pending' = SelectSeq(pending, LAMBDA k : k # t.tag)
       /\ result' = [result EXCEPT ![t.tag] = IF t.ok THEN "OK" ELSE "BAD"]
  /\ toClient' = Tail(toClient)
  /\ UNCHANGED <<issued, recvd, got, handled, queue, others, answers>>
  /\ UNCHANGED callerVars

-----------------------------------------------------------------------------
(* The caller collecting its commands.                                     *)

\* The caller calls Collect (or Close) on a FetchCommand, or Wait on the
\* NOOP's Command, of any command it began and has not collected.
StartCollect ==
  /\ caller = 0
  /\ \E k \in 1..issued \ collected : caller' = k
  /\ UNCHANGED <<issued, pending, recvd, got, result, handled, queue, others, toClient,
                 answers, msgs, litWait, collected>>

\* FetchCommand.Next takes the next message off msgs, and Collect reads its
\* items, a literal to EOF (populateItemData, or discard on the next Next),
\* which closes done and lets handleFetch go on.
NextMsg ==
  /\ caller # 0
  /\ msgs[caller] # <<>>
  /\ msgs' = [msgs EXCEPT ![caller] = Tail(@)]
  /\ litWait' = (litWait /\ ~HasLiteral(Head(msgs[caller])))
  /\ UNCHANGED <<issued, pending, recvd, got, result, handled, queue, others, toClient,
                 answers, caller, collected>>

\* Next returns nil once completeCommand has closed msgs; Close then calls
\* wait, which returns the command's result.  Command.Wait is the same wait.
FinishCollect ==
  /\ caller # 0
  /\ msgs[caller] = <<>>
  /\ result[caller] # "none"
  /\ collected' = collected \cup {caller}
  /\ caller' = 0
  /\ UNCHANGED <<issued, pending, recvd, got, result, handled, queue, others, toClient,
                 answers, msgs, litWait>>

Next == BeginFetch \/ BeginStore \/ BeginSearch \/ BeginNoop \/ Serve \/ OtherStore
          \/ ReadFetch \/ ReadSearch \/ ReadTagged
          \/ StartCollect \/ NextMsg \/ FinishCollect

Spec == Init /\ [][Next]_vars

-----------------------------------------------------------------------------
(* Properties.                                                             *)

\* A FETCH, STORE or SEARCH command that completed with OK delivered to its
\* caller exactly the data responses the server wrote in answer to it:
\* handleFetch's routing by recvSeqNum and recvUID, and handleSearch's by
\* command type, never give a command a FLAGS update that poll wrote for
\* another command, nor drop the command's own answer.
ResponsesReachTheirCommand ==
  \A k \in FetchCmds \cup SearchCmds : result[k] = "OK" => got[k] = answers[k]

\* The caller and the reader never wait on each other: whenever the caller
\* waits on a command whose msgs is empty and that has not completed, the
\* reader is not blocked on the literal of another command's message.
CollectNeverStarvesReader ==
  ~(caller # 0 /\ msgs[caller] = <<>> /\ result[caller] = "none" /\ litWait)

=============================================================================
