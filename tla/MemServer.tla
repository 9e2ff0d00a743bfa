------------------------------- MODULE MemServer -------------------------------
(***************************************************************************)
(* Connections of imapserver (Conn.readCommand and the mailbox command     *)
(* handlers) serving one mailbox of imapmemserver (Mailbox, MailboxView,   *)
(* UserSession), whose MailboxTracker is the one of MailboxTracker.        *)
(*                                                                         *)
(* Each connection runs its commands one at a time; a command's handler   *)
(* is split into the steps between which the mailbox lock is released,   *)
(* and the poll readCommand makes after a handler that sends OK is a step  *)
(* of its own.  The connection slot c is also its SessionTracker.          *)
(*                                                                         *)
(* A message is its UID; flags are reduced to \Deleted.  The ghost view[c] *)
(* is the mailbox as c's client reads it from the responses written to   *)
(* it, and misnumbered[c] records whether one of them named by its number *)
(* another message than the one it was written for.                       *)
(***************************************************************************)
EXTENDS MailboxTracker, FiniteSets

CONSTANTS
  MaxQueue,   \* bound on the non-EXPUNGE updates of a session's queue
  FetchArgs,  \* FETCH item arguments: [list, atts], atts a sequence of names
  SeqArgs     \* the sequence-set ranges clients send, a subset of SeqRanges

Conns == Sessions

VARIABLES
  l,            \* Mailbox.l: the messages, in order
  deleted,      \* the messages whose flags hold \Deleted
  uidNext,      \* Mailbox.uidNext
  st,           \* Conn.state: "authenticated" or "selected"
  pc,           \* where the connection's goroutine is
  arg,          \* the expunge candidates, or the STORE's sequence set
  allow,        \* the allowExpunge of the pending poll
  stop,         \* IDLE: the stop channel is closed
  view,         \* ghost: the client's mailbox
  misnumbered   \* ghost: a response named the wrong message

serverVars == <<l, deleted, uidNext>>
connVars == <<st, pc, arg, allow, stop>>
ghostVars == <<view, misnumbered>>
vars == <<trackerVars, serverVars, connVars, ghostVars>>

PCs == {"ready", "select", "expunge", "close", "storeFetch", "idle", "idling",
        "unselect", "poll"}

TypeOK ==
  /\ TrackerTypeOK
  /\ l \in Seq(UIDs) /\ deleted \subseteq UIDs /\ uidNext \in Nat
  /\ st \in [Conns -> {"authenticated", "selected"}]
  /\ pc \in [Conns -> PCs]
  /\ arg \in [Conns -> SUBSET Nat]
  /\ allow \in [Conns -> BOOLEAN]
  /\ stop \in [Conns -> BOOLEAN]
  /\ view \in [Conns -> Seq(UIDs)]
  /\ misnumbered \in [Conns -> BOOLEAN]

\* NewMailbox; every connection has logged in.
Init ==
  /\ TrackerInit(0)
  /\ l = <<>> /\ deleted = {} /\ uidNext = 1
  /\ st = [c \in Conns |-> "authenticated"]
  /\ pc = [c \in Conns |-> "ready"]
  /\ arg = [c \in Conns |-> {}]
  /\ allow = [c \in Conns |-> TRUE]
  /\ stop = [c \in Conns |-> FALSE]
  /\ view = [c \in Conns |-> <<>>]
  /\ misnumbered = [c \in Conns |-> FALSE]

\* Bound on the updates other than EXPUNGE a selected session holds (the
\* expunges are bounded by the messages), so an EXISTS or FETCH can be
\* queued behind an EXPUNGE.
Room == \A s \in sessions :
          Len(SelectSeq(queue[s], LAMBDA u : u.kind # "expunge")) < MaxQueue

\* The responses us are written to c's client.
Write(c, us) ==
  /\ view' = [view EXCEPT ![c] = Told(@, us)]
  /\ misnumbered' = [misnumbered EXCEPT ![c] = @ \/ ~NamesAll(view[c], us)]

\* The handler returns and readCommand polls with allowExpunge a.
ThenPoll(c, a) ==
  /\ pc' = [pc EXCEPT ![c] = "poll"]
  /\ allow' = [allow EXCEPT ![c] = a]

\* A sequence set of one range; 0 is "*".  The client's parser gives
\* ranges in order, so the inputs are n:m with n <= m, n:* and *.
NumRanges(max) ==
  UNION {{[start |-> a, stop |-> b] : b \in {0} \cup a..max} : a \in 1..max}
    \cup {[start |-> 0, stop |-> 0]}
SeqRanges == NumRanges(Cardinality(UIDs))

ASSUME SeqArgs \subseteq SeqRanges

\* staticNumRange: an end that is "*" becomes max, and a range with a "*"
\* end is put in order.
StaticNumRange(r, max) ==
  LET lo == IF r.start = 0 THEN max ELSE r.start
      hi == IF r.stop = 0 THEN max ELSE r.stop
      dyn == r.start = 0 \/ r.stop = 0
  IN  IF dyn /\ lo > hi THEN hi..lo ELSE lo..hi

\* staticNumSet: "*" of a SeqSet is len(mbox.l), the server's count; of a
\* UIDSet it is uidNext - 1.
StaticSeqSet(r) == StaticNumRange(r, Len(l))
StaticUIDSet(r) == StaticNumRange(r, uidNext - 1)

\* The server's sequence numbers of the messages in seqSet, a static set of
\* the client's numbers: forEachLocked over a SeqSet skips a message its
\* client has no number for.
SeqMatches(c, seqSet) ==
  {i \in 1..Len(l) : EncodeSeqNum(c, i) # 0 /\ EncodeSeqNum(c, i) \in seqSet}

-----------------------------------------------------------------------------
(* Mailbox operations called with the lock held.                           *)

\* Variant: expungeLocked walking l from the start.
ExpungeSeqNumsForward(E) ==
  SelectSeq([i \in 1..Len(l) |-> i], LAMBDA i : l[i] \in E)

\* expungeLocked(E): walks l from the end, queueing QueueExpunge(i) for
\* each message in E, and keeps the others.
ExpungeSeqNums(E) ==
  SelectSeq(Reverse([i \in 1..Len(l) |-> i]), LAMBDA i : l[i] \in E)

ExpungeLocked(E) ==
  LET seqNums == ExpungeSeqNums(E)
  IN  /\ QueueUpdates([k \in 1..Len(seqNums) |->
                         ExpungeUpdate(seqNums[k], l[seqNums[k]])], None)
      /\ l' = SelectSeq(l, LAMBDA u : u \notin E)
      /\ deleted' = deleted \ E

\* Variant: uidNext incremented before the message takes it.
AppendBytesUIDAfterIncrement(flagDeleted) ==
  /\ uidNext \in UIDs
  /\ QueueUpdates(<<NumMessagesUpdate(Len(l) + 1, <<uidNext + 1>>)>>, None)
  /\ l' = Append(l, uidNext + 1)
  /\ deleted' = IF flagDeleted THEN deleted \cup {uidNext + 1} ELSE deleted
  /\ uidNext' = uidNext + 1

\* appendBytes: the new message takes uidNext, then QueueNumMessages.
AppendBytes(flagDeleted) ==
  /\ uidNext \in UIDs
  /\ QueueUpdates(<<NumMessagesUpdate(Len(l) + 1, <<uidNext>>)>>, None)
  /\ l' = Append(l, uidNext)
  /\ deleted' = IF flagDeleted THEN deleted \cup {uidNext} ELSE deleted
  /\ uidNext' = uidNext + 1

-----------------------------------------------------------------------------
(* Commands.                                                               *)

\* handleSelect while selected: session.Unselect, then "* OK [CLOSED]".
SelectUnselect(c) ==
  /\ pc[c] = "ready" /\ st[c] = "selected"
  /\ CloseSession(c)
  /\ st' = [st EXCEPT ![c] = "authenticated"]
  /\ pc' = [pc EXCEPT ![c] = "select"]
  /\ UNCHANGED <<serverVars, arg, allow, stop, ghostVars>>

\* handleSelect: session.Select (NewView and selectDataLocked under the
\* lock), "* n EXISTS" and the rest, state Selected; no poll.
Select(c) ==
  /\ \/ pc[c] = "ready" /\ st[c] = "authenticated"
     \/ pc[c] = "select"
  /\ NewSession(c)
  /\ st' = [st EXCEPT ![c] = "selected"]
  /\ pc' = [pc EXCEPT ![c] = "ready"]
  /\ view' = [view EXCEPT ![c] = l]
  /\ UNCHANGED <<serverVars, arg, allow, stop, misnumbered>>

\* handleUnselect: session.Unselect, for UNSELECT or at the end of CLOSE;
\* readCommand's poll then finds no mailbox.
Unselect(c) ==
  /\ \/ pc[c] = "ready" /\ st[c] = "selected"
     \/ pc[c] = "unselect"
  /\ CloseSession(c)
  /\ st' = [st EXCEPT ![c] = "authenticated"]
  /\ pc' = [pc EXCEPT ![c] = "ready"]
  /\ UNCHANGED <<serverVars, arg, allow, stop, ghostVars>>

\* Mailbox.Expunge, first lock region: collect the \Deleted messages (of
\* uids, UIDs standing for nil); continue at next, or at empty if none.
ExpungeCollect(c, uids, next, empty) ==
  LET E == {u \in Range(l) : u \in deleted /\ u \in uids}
  IN  /\ arg' = [arg EXCEPT ![c] = E]
      /\ pc' = [pc EXCEPT ![c] = IF E # {} THEN next ELSE empty]
      /\ allow' = [allow EXCEPT ![c] = TRUE]

\* handleExpunge and handleUIDExpunge; after Expunge, readCommand polls.
Expunge(c) ==
  /\ pc[c] = "ready" /\ st[c] = "selected"
  /\ \E uids \in {UIDs} \cup {{u} : u \in UIDs} :
       ExpungeCollect(c, uids, "expunge", "poll")
  /\ UNCHANGED <<trackerVars, serverVars, st, stop, ghostVars>>

\* Mailbox.Expunge, second lock region: expungeLocked of what was collected.
ExpungeFinish(c) ==
  /\ pc[c] \in {"expunge", "close"}
  /\ ExpungeLocked(arg[c])
  /\ pc' = [pc EXCEPT ![c] = IF @ = "expunge" THEN "poll" ELSE "unselect"]
  /\ UNCHANGED <<uidNext, st, arg, allow, stop, ghostVars>>

\* handleUnselect for CLOSE: session.Expunge with an ExpungeWriter that
\* writes nothing, then session.Unselect.
Close(c) ==
  /\ pc[c] = "ready" /\ st[c] = "selected"
  /\ ExpungeCollect(c, UIDs, "close", "unselect")
  /\ UNCHANGED <<trackerVars, serverVars, st, stop, ghostVars>>

\* handleAppend: session.Append (appendBytes, the flags of the APPEND
\* options holding \Deleted or not), then c.poll("APPEND") before its OK.
HandleAppend(c) ==
  /\ pc[c] = "ready"
  /\ Room
  /\ \E flagDeleted \in BOOLEAN : AppendBytes(flagDeleted)
  /\ ThenPoll(c, TRUE)
  /\ UNCHANGED <<st, arg, stop, ghostVars>>

\* NOOP and CHECK: nothing but readCommand's poll.
Noop(c) ==
  /\ pc[c] = "ready"
  /\ ThenPoll(c, TRUE)
  /\ UNCHANGED <<trackerVars, serverVars, st, arg, stop, ghostVars>>

\* The messages of set M of server numbers, in forEachLocked's order.
InOrder(M) == SetToSortSeq(M, <)

\* Variant: FETCH responses numbered with the server's sequence numbers.
FetchResponsesUnencoded(c, M) ==
  LET ms == SetToSortSeq(M, <)
  IN  [k \in 1..Len(ms) |-> FetchUpdate(ms[k], l[ms[k]])]

\* "* n FETCH" responses for the messages at server numbers M.
FetchResponses(c, M) ==
  LET ms == InOrder(M)
  IN  [k \in 1..Len(ms) |-> FetchUpdate(EncodeSeqNum(c, ms[k]), l[ms[k]])]

\* handleStore with a sequence set: MailboxView.Store's forEach makes the
\* set static (in place), stores +FLAGS or -FLAGS \Deleted and queues
\* QueueMessageFlags for the other sessions; without .SILENT a Fetch of the
\* same, now static, set follows under a second lock.  readCommand then
\* polls without expunges.
Store(c) ==
  /\ pc[c] = "ready" /\ st[c] = "selected"
  /\ Room
  /\ \E r \in SeqArgs, op \in {"add", "del"}, silent \in BOOLEAN :
       LET M == SeqMatches(c, StaticSeqSet(r))
           U == {l[i] : i \in M}
       IN  /\ QueueUpdates([k \in 1..Cardinality(M) |->
                              FetchUpdate(InOrder(M)[k], l[InOrder(M)[k]])], c)
           /\ deleted' = IF op = "add" THEN deleted \cup U ELSE deleted \ U
           /\ IF silent THEN ThenPoll(c, FALSE)
              ELSE /\ pc' = [pc EXCEPT ![c] = "storeFetch"]
                   /\ arg' = [arg EXCEPT ![c] = StaticSeqSet(r)]
                   /\ UNCHANGED allow
           /\ silent => UNCHANGED arg
  /\ UNCHANGED <<l, uidNext, st, stop, ghostVars>>

\* The Fetch with FLAGS that ends a STORE without .SILENT.
StoreFetch(c) ==
  /\ pc[c] = "storeFetch"
  /\ Write(c, FetchResponses(c, SeqMatches(c, arg[c])))
  /\ ThenPoll(c, FALSE)
  /\ UNCHANGED <<trackerVars, serverVars, st, arg, stop>>

\* The options of a FETCH, as far as they change the mailbox: whether the
\* command parses, and the Peek of each body section.
NoOptions == [ok |-> TRUE, peek |-> <<>>]
NonPeekSections == {"RFC822", "RFC822.TEXT", "BODY["}
PeekSections == {"RFC822.HEADER", "BODY.PEEK["}
OtherAtts == {"BODYSTRUCTURE", "BODY", "ENVELOPE", "FLAGS", "INTERNALDATE",
              "RFC822.SIZE", "UID", "BINARY[", "BINARY.PEEK[", "BINARY.SIZE["}
Macros == {"ALL", "FAST", "FULL"}

\* handleFetchAtt: RFC822 and RFC822.TEXT are body sections without Peek,
\* RFC822.HEADER one with Peek; BINARY sections go to BinarySection; an
\* unknown name is a client bug.
FetchAtt(o, name) ==
  IF name \in NonPeekSections \cup PeekSections
  THEN [o EXCEPT !.peek = Append(@, name \in PeekSections)]
  ELSE IF name \in OtherAtts THEN o ELSE [o EXCEPT !.ok = FALSE]

\* handleFetch's parse: a list of names, where a macro is a client bug, or
\* one name, where ALL, FAST and FULL expand to items without sections.
FetchOptions(a) ==
  IF a.list
  THEN FoldLeft(LAMBDA o, n : IF n \in Macros THEN [o EXCEPT !.ok = FALSE]
                              ELSE FetchAtt(o, n), NoOptions, a.atts)
  ELSE IF a.atts[1] \in Macros THEN NoOptions ELSE FetchAtt(NoOptions, a.atts[1])

\* MailboxView.Fetch: markSeen when some body section is not Peek.
MarkSeen(o) == \E i \in DOMAIN o.peek : ~o.peek[i]

\* The options every FETCH argument parses to.
ParsedFetchArgs == {FetchOptions(a) : a \in FetchArgs}

\* MailboxView.Fetch of the messages at server numbers M: with markSeen,
\* \Seen is set and QueueMessageFlags queued for every session, c's own
\* included; each message gets "* EncodeSeqNum(i) FETCH".  Then
\* readCommand polls, with expunges allowed or not.
FetchMessages(c, M, markSeen, allowExpunge) ==
  /\ Write(c, FetchResponses(c, M))
  /\ IF markSeen
     THEN /\ Room
          /\ QueueUpdates([k \in 1..Cardinality(M) |->
                             FetchUpdate(InOrder(M)[k], l[InOrder(M)[k]])], None)
     ELSE UNCHANGED trackerVars
  /\ ThenPoll(c, allowExpunge)
  /\ UNCHANGED <<serverVars, st, arg, stop>>

\* handleFetch for FETCH: a SeqSet and fetch items that parse (one that
\* does not is answered BAD and changes nothing); the poll after "FETCH"
\* allows no expunge.
Fetch(c) ==
  /\ pc[c] = "ready" /\ st[c] = "selected"
  /\ \E r \in SeqArgs, o \in ParsedFetchArgs :
       /\ o.ok
       /\ FetchMessages(c, SeqMatches(c, StaticSeqSet(r)), MarkSeen(o), FALSE)

\* message.search for the criteria the model gives SEARCH: the sequence
\* sets of criteria.SeqNum, which a number of 0 never matches, and a
\* \Deleted flag criterion (flag "DELETED", NOT flag "UNDELETED", or none).
MsgSearch(n, u, seqSets, flag) ==
  /\ \A s \in seqSets : n # 0 /\ n \in s
  /\ flag = "DELETED" => u \in deleted
  /\ flag = "UNDELETED" => u \notin deleted

\* staticSearchCriteria: each SeqNum criterion made static by staticNumSet.
StaticSearchSeqs(rs) == {StaticSeqSet(r) : r \in rs}

\* The sequence numbers a SEARCH returns name, in the client's view, the
\* messages it matched.
SearchNamesMatches(c, nums, U) ==
  \A n \in nums : n \in 1..Len(view[c]) /\ view[c][n] \in U

\* MailboxView.Search under the mailbox lock: every message of l is tested
\* with the number EncodeSeqNum gives it; SEARCH returns the non-zero
\* numbers of the matches, UID SEARCH their UIDs.  The poll after "SEARCH"
\* allows no expunge, the one after "UID SEARCH" does.
Search(c) ==
  /\ pc[c] = "ready" /\ st[c] = "selected"
  /\ \E uid \in BOOLEAN, rs \in {{}} \cup {{r} : r \in SeqArgs},
        flag \in {"DELETED", "UNDELETED", "ALL"} :
       LET M == {i \in 1..Len(l) :
                   MsgSearch(EncodeSeqNum(c, i), l[i], StaticSearchSeqs(rs), flag)}
           nums == {EncodeSeqNum(c, i) : i \in {j \in M : EncodeSeqNum(c, j) # 0}}
       IN  /\ misnumbered' = [misnumbered EXCEPT ![c] =
                                @ \/ (~uid /\ ~SearchNamesMatches(c, nums, {l[i] : i \in M}))]
           /\ ThenPoll(c, uid)
  /\ UNCHANGED <<trackerVars, serverVars, st, arg, stop, view>>

\* handleFetch for UID FETCH: a UIDSet, which forEachLocked matches against
\* every message of l; the poll after "UID FETCH" allows expunges.
UIDFetch(c) ==
  /\ pc[c] = "ready" /\ st[c] = "selected"
  /\ \E r \in SeqArgs, o \in ParsedFetchArgs :
       /\ o.ok
       /\ FetchMessages(c, {i \in 1..Len(l) : l[i] \in StaticUIDSet(r)}, MarkSeen(o), TRUE)

\* readCommand's c.poll(name): session.Poll when a mailbox is selected.
Poll(c) ==
  /\ pc[c] = "poll"
  /\ IF st[c] = "selected"
     THEN /\ PollQueue(c, allow[c])
          /\ Write(c, Polled(queue[c], allow[c]))
     ELSE UNCHANGED <<trackerVars, ghostVars>>
  /\ pc' = [pc EXCEPT ![c] = "ready"]
  /\ UNCHANGED <<serverVars, st, arg, allow, stop>>

-----------------------------------------------------------------------------
(* handleIdle: "+ idling", a goroutine running session.Idle, the client's *)
(* DONE closing stop, <-done, then readCommand's poll.                     *)

IdleBegin(c) ==
  /\ pc[c] = "ready"
  /\ pc' = [pc EXCEPT ![c] = "idle"]
  /\ stop' = [stop EXCEPT ![c] = FALSE]
  /\ UNCHANGED <<trackerVars, serverVars, st, arg, allow, ghostVars>>

IdleStart(c) ==
  /\ pc[c] = "idle" /\ st[c] = "selected"
  /\ IdleRegister(c)
  /\ pc' = [pc EXCEPT ![c] = "idling"]
  /\ UNCHANGED <<serverVars, st, arg, allow, stop, ghostVars>>

IdleWake(c) ==
  /\ pc[c] = "idling"
  /\ IdleTakeSignal(c)
  /\ Write(c, queue[c])
  /\ UNCHANGED <<serverVars, connVars>>

IdleDone(c) ==
  /\ pc[c] \in {"idle", "idling"} /\ ~stop[c]
  /\ stop' = [stop EXCEPT ![c] = TRUE]
  /\ UNCHANGED <<trackerVars, serverVars, st, pc, arg, allow, ghostVars>>

\* Idle returns on stop; UserSession.Idle returns at once with no mailbox.
IdleReturn(c) ==
  /\ stop[c]
  /\ \/ pc[c] = "idling" /\ IdleDeregister(c)
     \/ pc[c] = "idle" /\ st[c] # "selected" /\ UNCHANGED trackerVars
  /\ ThenPoll(c, TRUE)
  /\ UNCHANGED <<serverVars, st, arg, stop, ghostVars>>

\* handleMove with a sequence number: UserSession.Move copies the messages
\* to another mailbox and expungeLocked removes them, under the lock; then
\* MoveWriter writes "* EncodeSeqNum(i) EXPUNGE" for each expunged server
\* number i, read after the expunges were queued.  readCommand then polls.
Move(c) ==
  /\ pc[c] = "ready" /\ st[c] = "selected"
  /\ Room
  /\ \E r \in SeqArgs :
       LET E == {l[i] : i \in SeqMatches(c, StaticSeqSet(r))}
           seqNums == ExpungeSeqNums(E)
       IN  /\ ExpungeLocked(E)
           /\ Write(c, [k \in 1..Len(seqNums) |->
                          ExpungeUpdate(EncodeWith(queue'[c], numMessages', seqNums[k]),
                                        l[seqNums[k]])])
  /\ ThenPoll(c, TRUE)
  /\ UNCHANGED <<uidNext, st, arg, stop>>

-----------------------------------------------------------------------------

\* The commands the connections run, and the steps of those in progress.
ConnStep(c) ==
  \/ SelectUnselect(c) \/ Select(c) \/ Unselect(c)
  \/ Expunge(c) \/ Close(c) \/ ExpungeFinish(c)
  \/ HandleAppend(c) \/ Noop(c)
  \/ Store(c) \/ StoreFetch(c) \/ Fetch(c) \/ Search(c)
  \/ Poll(c)
  \/ IdleBegin(c) \/ IdleStart(c) \/ IdleWake(c) \/ IdleDone(c)
  \/ IdleReturn(c)

Next == \E c \in Conns : ConnStep(c)

Spec == Init /\ [][Next]_vars

\* The connections may also run UID FETCH, or MOVE.
SpecUIDFetch == Init /\ [][\E c \in Conns : ConnStep(c) \/ UIDFetch(c)]_vars
SpecMove == Init /\ [][\E c \in Conns : ConnStep(c) \/ Move(c)]_vars

-----------------------------------------------------------------------------
(* Properties.                                                             *)

\* Every "* n EXPUNGE", "* n EXISTS" and "* n FETCH" the server writes to a
\* connection, from a handler, from readCommand's poll or from the Idle
\* goroutine, and every number a SEARCH returns, names by n the message it
\* is about in the mailbox as that client knows it: the numbers EncodeSeqNum gives, the order of the
\* queued updates and the expunges Poll holds back never disagree.
ResponsesNameTheirMessages == \A c \in Conns : ~misnumbered[c]

\* The tracker's count is the mailbox's, and every selected connection's
\* pending updates, applied to what its client knows, give the mailbox:
\* appendBytes, expungeLocked's reverse walk and Store's queueing keep the
\* tracker in step with Mailbox.l.
TrackerMatchesMailbox ==
  /\ numMessages = Len(l)
  /\ \A c \in sessions : Told(view[c], queue[c]) = l

\* Position of message x in sequence v, 0 if absent.
IndexOf(v, x) == SelectInSeq(v, LAMBDA y : y = x)

\* On every selected connection, EncodeSeqNum turns the owner's number of
\* each message of Mailbox.l into the number that connection's client knows
\* it by, and into 0 exactly when the client has not been told of it yet;
\* Fetch, Store, Move and SEARCH number their responses with it.
EncodeSeqNumCorrect ==
  \A c \in sessions, i \in 1..Len(l) : EncodeSeqNum(c, i) = IndexOf(view[c], l[i])

\* On every selected connection, DecodeSeqNum turns each number the client
\* knows a message by into the owner's number of that message, and into 0
\* exactly when the message has been expunged and the client not told yet.
DecodeSeqNumCorrect ==
  \A c \in sessions : \A k \in 1..Len(view[c]) :
    DecodeSeqNum(c, k) = IndexOf(l, view[c][k])

\* The memserver never makes its tracker panic: every QueueExpunge it makes
\* is in range of the tracker's count, and every QueueNumMessages at least
\* that count, across connections and the lock regions of their commands.
TrackerNeverPanics == ~panicked

\* A message Mailbox.Expunge removes holds \Deleted when it is removed.
ExpungeRemovesOnlyDeleted ==
  [][\A u \in Range(l) \ Range(l') : u \in deleted]_vars

=============================================================================
