---------------------------- MODULE MailboxTracker ----------------------------
(***************************************************************************)
(* The sequence-number tracker of imapserver: MailboxTracker (one per      *)
(* mailbox: the canonical message count and the attached sessions) and     *)
(* SessionTracker (one per selected connection: the queue of updates the   *)
(* client has not been told yet).  src/imapserver/conn.go lines 639-918.   *)
(*                                                                         *)
(* This module holds the tracker's state and its operations as actions     *)
(* and operators; the modules that call the tracker (TrackerClients,       *)
(* MemServer) extend it and add their own state.                          *)
(*                                                                         *)
(* A trackerUpdate carries two ghost fields the code does not have, used   *)
(* only by properties: the identity (uid) of the message an expunge        *)
(* removes, and the identities (ids) a numMessages update adds to the      *)
(* count.  A fetch update carries the message's real UID.                  *)
(***************************************************************************)
EXTENDS Naturals, Sequences, SequencesExt

CONSTANTS
  Sessions,   \* SessionTracker objects, one per connection slot
  UIDs,       \* message identities
  NoUID,      \* the zero UID of an update that names no message
  None        \* the nil source session of MailboxTracker.queueUpdate

VARIABLES
  numMessages,  \* MailboxTracker.numMessages
  sessions,     \* MailboxTracker.sessions: the attached SessionTrackers
  queue,        \* SessionTracker.queue
  updates,      \* SessionTracker.updates # nil: an Idle call is registered
  signalled,    \* a token is buffered in that Idle call's updates channel
  panicked      \* queueUpdate or QueueExpunge has panicked

trackerVars == <<numMessages, sessions, queue, updates, signalled, panicked>>

Kinds == {"expunge", "numMessages", "mailboxFlags", "fetch"}

\* trackerUpdate; exactly one of its fields is set in the code, named here
\* by kind.  num is the expunged sequence number, the new count, or the
\* fetch update's sequence number.
Update == [kind: Kinds, num: Nat, uid: UIDs \cup {NoUID}, ids: Seq(UIDs)]

ExpungeUpdate(seqNum, u) ==
  [kind |-> "expunge", num |-> seqNum, uid |-> u, ids |-> <<>>]
NumMessagesUpdate(n, new) ==
  [kind |-> "numMessages", num |-> n, uid |-> NoUID, ids |-> new]
MailboxFlagsUpdate ==
  [kind |-> "mailboxFlags", num |-> 0, uid |-> NoUID, ids |-> <<>>]
FetchUpdate(seqNum, u) ==
  [kind |-> "fetch", num |-> seqNum, uid |-> u, ids |-> <<>>]

TrackerTypeOK ==
  /\ numMessages \in Nat
  /\ sessions \subseteq Sessions
  /\ queue \in [Sessions -> Seq(Update)]
  /\ updates \in [Sessions -> BOOLEAN]
  /\ signalled \in [Sessions -> BOOLEAN]
  /\ panicked \in BOOLEAN

\* NewMailboxTracker(n)
TrackerInit(n) ==
  /\ numMessages = n
  /\ sessions = {}
  /\ queue = [s \in Sessions |-> <<>>]
  /\ updates = [s \in Sessions |-> FALSE]
  /\ signalled = [s \in Sessions |-> FALSE]
  /\ panicked = FALSE

-----------------------------------------------------------------------------
(* MailboxTracker.queueUpdate and its callers QueueExpunge,                *)
(* QueueNumMessages, QueueMailboxFlags and QueueMessageFlags.              *)

\* The update does not hit a panic of QueueExpunge (seqNum 0) or of
\* queueUpdate (expunge past the count, count decreasing).
Admissible(n, u) ==
  /\ u.kind = "expunge" => u.num \in 1..n
  /\ u.kind = "numMessages" /\ u.num # 0 => u.num >= n

\* Variant: the switch decrements for every update but a new count.
CountAfterDecrementsAll(n, u) ==
  IF u.kind = "numMessages" /\ u.num # 0 THEN u.num ELSE n - 1

\* The count after queueUpdate applies u.
CountAfter(n, u) ==
  CASE u.kind = "expunge"                   -> n - 1
    [] u.kind = "numMessages" /\ u.num # 0  -> u.num
    [] OTHER                                -> n

\* The count after a sequence of queueUpdate calls.
CountAfterAll(n, us) == FoldLeft(CountAfter, n, us)

Receives(s, source) == s \in sessions /\ s # source

\* The calls queueUpdate(us[1], source), ..., queueUpdate(us[k], source)
\* made while the caller holds the mailbox lock.  Each appends the update
\* to every attached session but source (SessionTracker.queueUpdate), and
\* signals the session's Idle call if one is registered at that moment;
\* then it updates the count.  A call that panics sets panicked; what the
\* state is after it does not matter, as no property holds from there.
QueueUpdates(us, source) ==
  /\ panicked' = \/ panicked
                 \/ \E i \in 1..Len(us) :
                      ~Admissible(CountAfterAll(numMessages, SubSeq(us, 1, i - 1)), us[i])
  /\ queue' = [s \in Sessions |->
                 IF Receives(s, source) THEN queue[s] \o us ELSE queue[s]]
  /\ signalled' = [s \in Sessions |->
                     signalled[s] \/ (Receives(s, source) /\ updates[s])]
  /\ numMessages' = CountAfterAll(numMessages, us)
  /\ UNCHANGED <<sessions, updates>>

-----------------------------------------------------------------------------
(* Session lifetime.                                                       *)

\* Variant: a session slot reused with the queue of its previous tracker.
NewSessionKeepsQueue(s) ==
  /\ s \notin sessions
  /\ sessions' = sessions \cup {s}
  /\ updates' = [updates EXCEPT ![s] = FALSE]
  /\ signalled' = [signalled EXCEPT ![s] = FALSE]
  /\ UNCHANGED <<numMessages, queue, panicked>>

\* MailboxTracker.NewSession: a fresh SessionTracker in slot s.
NewSession(s) ==
  /\ s \notin sessions
  /\ sessions' = sessions \cup {s}
  /\ queue' = [queue EXCEPT ![s] = <<>>]
  /\ updates' = [updates EXCEPT ![s] = FALSE]
  /\ signalled' = [signalled EXCEPT ![s] = FALSE]
  /\ UNCHANGED <<numMessages, panicked>>

\* SessionTracker.Close: the session is detached; its queue is left as is.
CloseSession(s) ==
  /\ s \in sessions
  /\ sessions' = sessions \ {s}
  /\ UNCHANGED <<numMessages, queue, updates, signalled, panicked>>

-----------------------------------------------------------------------------
(* SessionTracker.Poll.                                                    *)

\* The index of the first pending expunge, or one past the end.
StopIndex(q) ==
  LET i == SelectInSeq(q, LAMBDA u : u.kind = "expunge")
  IN  IF i = 0 THEN Len(q) + 1 ELSE i

\* Variant: the loop goes on past the first expunge instead of breaking.
PolledNoBreak(q, allowExpunge) ==
  IF allowExpunge THEN q ELSE SelectSeq(q, LAMBDA u : u.kind # "expunge")

\* The updates Poll dequeues: the whole queue, or only the prefix before
\* the first expunge when expunges are not allowed.
Polled(q, allowExpunge) ==
  IF allowExpunge THEN q ELSE SubSeq(q, 1, StopIndex(q) - 1)

\* Poll(w, allowExpunge) on session s dequeues Polled(queue[s], ...); the
\* caller writes what was dequeued.
PollQueue(s, allowExpunge) ==
  /\ queue' = [queue EXCEPT ![s] =
                 SubSeq(@, Len(Polled(@, allowExpunge)) + 1, Len(@))]
  /\ UNCHANGED <<numMessages, sessions, updates, signalled, panicked>>

-----------------------------------------------------------------------------
(* SessionTracker.Idle: register the updates channel, then loop, polling   *)
(* with expunges allowed on every token, until stop; then deregister.      *)

IdleRegister(s) ==
  /\ ~updates[s]
  /\ updates' = [updates EXCEPT ![s] = TRUE]
  /\ signalled' = [signalled EXCEPT ![s] = FALSE]
  /\ UNCHANGED <<numMessages, sessions, queue, panicked>>

\* The <-updates branch of Idle's select: consume the token and poll.
IdleTakeSignal(s) ==
  /\ updates[s] /\ signalled[s]
  /\ queue' = [queue EXCEPT ![s] = <<>>]
  /\ signalled' = [signalled EXCEPT ![s] = FALSE]
  /\ UNCHANGED <<numMessages, sessions, updates, panicked>>

\* The <-stop branch: the deferred t.updates = nil.
IdleDeregister(s) ==
  /\ updates[s]
  /\ updates' = [updates EXCEPT ![s] = FALSE]
  /\ signalled' = [signalled EXCEPT ![s] = FALSE]
  /\ UNCHANGED <<numMessages, sessions, queue, panicked>>

-----------------------------------------------------------------------------
(* SessionTracker.DecodeSeqNum and EncodeSeqNum.                           *)

\* Variant: the walk without the early return for an expunged number.
DecodeStepNoReturn(seqNum, u) ==
  IF u.kind = "expunge" /\ seqNum >= u.num /\ seqNum > 1
  THEN seqNum - 1 ELSE seqNum

\* One step of DecodeSeqNum's walk over the queue, oldest first; 0 means
\* the message was expunged and the walk has returned.
DecodeStep(seqNum, u) ==
  CASE u.kind # "expunge"  -> seqNum
    [] seqNum = u.num      -> 0
    [] seqNum > u.num      -> seqNum - 1
    [] OTHER               -> seqNum

DecodeSeqNum(s, seqNum) ==
  LET r == FoldLeft(DecodeStep, seqNum, queue[s])
  IN  IF seqNum = 0 \/ r > numMessages THEN 0 ELSE r

\* Variant: the walk without the check for a message not yet announced.
EncodeStepNoExists(u, seqNum) ==
  IF u.kind = "expunge" /\ seqNum >= u.num /\ seqNum # 0
  THEN seqNum + 1 ELSE seqNum

\* One step of EncodeSeqNum's walk over the queue, newest first.
EncodeStep(u, seqNum) ==
  CASE seqNum = 0                                      -> 0
    [] u.kind = "numMessages" /\ seqNum = u.num        -> 0
    [] u.kind = "expunge" /\ seqNum >= u.num           -> seqNum + 1
    [] OTHER                                           -> seqNum

\* EncodeSeqNum of a session whose queue is q, the count being count.
EncodeWith(q, count, seqNum) ==
  IF seqNum = 0 \/ seqNum > count THEN 0
  ELSE FoldRight(EncodeStep, q, seqNum)

EncodeSeqNum(s, seqNum) == EncodeWith(queue[s], numMessages, seqNum)

-----------------------------------------------------------------------------
(* How a client reads the updates written to it (ghost, for properties):  *)
(* "* n EXPUNGE" removes the n-th message it knows of, "* n EXISTS" adds   *)
(* the new ones, "* n FETCH" names the n-th and changes nothing.           *)

Apply(v, u) ==
  CASE u.kind = "expunge" /\ u.num \in 1..Len(v) -> RemoveAt(v, u.num)
    [] u.kind = "numMessages" -> v \o u.ids
    [] OTHER -> v

Told(v, us) == FoldLeft(Apply, v, us)

\* Whether an update written to a client that knows the mailbox as v names
\* by its number the message it is about.
Names(v, u) ==
  CASE u.kind \in {"expunge", "fetch"} -> u.num \in 1..Len(v) /\ v[u.num] = u.uid
    [] u.kind = "numMessages" -> u.num = Len(v) + Len(u.ids)
    [] OTHER -> TRUE

\* Whether each of the updates us, written in order, names its message.
NamesAll(v, us) == \A i \in 1..Len(us) : Names(Told(v, SubSeq(us, 1, i - 1)), us[i])

=============================================================================
