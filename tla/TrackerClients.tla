---------------------------- MODULE TrackerClients ----------------------------
(***************************************************************************)
(* The tracker of MailboxTracker driven through its public API by a        *)
(* mailbox owner and by the connections that attached a SessionTracker:   *)
(* the owner queues expunges, new counts and flag changes under its lock, *)
(* and each connection polls (with or without expunges) or runs an Idle   *)
(* goroutine that it later stops.                                          *)
(*                                                                         *)
(* Two ghost variables give the properties their meaning: msgs, the       *)
(* mailbox as the owner sees it (the canonical order of identities), and   *)
(* view[s], the mailbox as the client of session s has been told it is.   *)
(***************************************************************************)
EXTENDS MailboxTracker

CONSTANTS
  GrowBy,     \* by how much one QueueNumMessages call may raise the count
  MaxQueue    \* bound on the length of a session's queue

VARIABLES
  msgs,       \* ghost: the identities of the owner's messages, in order
  view,       \* ghost: the identities the client of each session knows of
  nextUID,    \* the owner's next identity (its uidNext)
  idle,       \* the caller's Idle goroutine: "none", "running"
  stop        \* the caller has closed the Idle call's stop channel

vars == <<trackerVars, msgs, view, nextUID, idle, stop>>

TypeOK ==
  /\ TrackerTypeOK
  /\ msgs \in Seq(UIDs)
  /\ view \in [Sessions -> Seq(UIDs)]
  /\ nextUID \in Nat
  /\ idle \in [Sessions -> {"none", "running"}]
  /\ stop \in [Sessions -> BOOLEAN]

Init ==
  /\ TrackerInit(0)
  /\ msgs = <<>>
  /\ view = [s \in Sessions |-> <<>>]
  /\ nextUID = 1
  /\ idle = [s \in Sessions |-> "none"]
  /\ stop = [s \in Sessions |-> FALSE]

Room == \A s \in sessions : Len(queue[s]) < MaxQueue

-----------------------------------------------------------------------------
(* The mailbox owner.                                                      *)

\* QueueExpunge(seqNum) for the owner's message at seqNum.
Expunge ==
  /\ Room
  /\ \E seqNum \in 1..Len(msgs) :
       /\ QueueUpdates(<<ExpungeUpdate(seqNum, msgs[seqNum])>>, None)
       /\ msgs' = RemoveAt(msgs, seqNum)
  /\ UNCHANGED <<view, nextUID, idle, stop>>

\* QueueNumMessages(n) after the owner added n - Len(msgs) messages.
Grow ==
  /\ Room
  /\ \E k \in GrowBy :
       LET new == [i \in 1..k |-> nextUID + i - 1]
       IN  /\ nextUID + k - 1 \in UIDs
           /\ QueueUpdates(<<NumMessagesUpdate(Len(msgs) + k, new)>>, None)
           /\ msgs' = msgs \o new
           /\ nextUID' = nextUID + k
  /\ UNCHANGED <<view, idle, stop>>

\* QueueMessageFlags(seqNum, uid, flags, source), source nil or a session.
MessageFlags ==
  /\ Room
  /\ \E seqNum \in 1..Len(msgs), source \in sessions \cup {None} :
       QueueUpdates(<<FetchUpdate(seqNum, msgs[seqNum])>>, source)
  /\ UNCHANGED <<msgs, view, nextUID, idle, stop>>

\* QueueMailboxFlags(flags).
MailboxFlags ==
  /\ Room
  /\ QueueUpdates(<<MailboxFlagsUpdate>>, None)
  /\ UNCHANGED <<msgs, view, nextUID, idle, stop>>

-----------------------------------------------------------------------------
(* A connection.  It attaches when it learns the whole mailbox under the  *)
(* owner's lock, as SELECT does.                                           *)

Attach(s) ==
  /\ NewSession(s)
  /\ view' = [view EXCEPT ![s] = msgs]
  /\ UNCHANGED <<msgs, nextUID, idle, stop>>

Detach(s) ==
  /\ idle[s] = "none"
  /\ CloseSession(s)
  /\ UNCHANGED <<msgs, view, nextUID, idle, stop>>

\* Poll(w, allowExpunge): the client is told what was dequeued.
Poll(s, allowExpunge) ==
  /\ s \in sessions
  /\ idle[s] = "none"
  /\ PollQueue(s, allowExpunge)
  /\ view' = [view EXCEPT ![s] = Told(@, Polled(queue[s], allowExpunge))]
  /\ UNCHANGED <<msgs, nextUID, idle, stop>>

\* go session.Idle(w, stop)
StartIdle(s) ==
  /\ s \in sessions
  /\ idle[s] = "none"
  /\ idle' = [idle EXCEPT ![s] = "running"]
  /\ stop' = [stop EXCEPT ![s] = FALSE]
  /\ UNCHANGED <<trackerVars, msgs, view, nextUID>>

\* close(stop)
StopIdle(s) ==
  /\ idle[s] = "running" /\ ~stop[s]
  /\ stop' = [stop EXCEPT ![s] = TRUE]
  /\ UNCHANGED <<trackerVars, msgs, view, nextUID, idle>>

\* The Idle goroutine: registration, the <-updates branch (Poll(w, true)),
\* and the <-stop branch returning through the deferred deregistration.
IdleStart(s) ==
  /\ idle[s] = "running" /\ ~updates[s]
  /\ IdleRegister(s)
  /\ UNCHANGED <<msgs, view, nextUID, idle, stop>>

IdleWake(s) ==
  /\ idle[s] = "running"
  /\ IdleTakeSignal(s)
  /\ view' = [view EXCEPT ![s] = Told(@, queue[s])]
  /\ UNCHANGED <<msgs, nextUID, idle, stop>>

IdleReturn(s) ==
  /\ idle[s] = "running" /\ stop[s]
  /\ IdleDeregister(s)
  /\ idle' = [idle EXCEPT ![s] = "none"]
  /\ UNCHANGED <<msgs, view, nextUID, stop>>

-----------------------------------------------------------------------------

Owner == Expunge \/ Grow \/ MessageFlags \/ MailboxFlags

Next ==
  \/ Owner
  \/ \E s \in Sessions :
       \/ Attach(s) \/ Detach(s)
       \/ Poll(s, TRUE) \/ Poll(s, FALSE)
       \/ StartIdle(s) \/ StopIdle(s)
       \/ IdleStart(s) \/ IdleWake(s) \/ IdleReturn(s)

\* The Idle goroutine is scheduled: once it can take a step it does.  The
\* owner and the callers get no fairness; they may stop acting.
Fairness ==
  \A s \in Sessions : WF_vars(IdleStart(s)) /\ WF_vars(IdleWake(s))
                        /\ WF_vars(IdleReturn(s))

Spec == Init /\ [][Next]_vars /\ Fairness

-----------------------------------------------------------------------------
(* Properties.                                                             *)

\* Position of identity x in sequence v, 0 if absent.
IndexOf(v, x) == SelectInSeq(v, LAMBDA y : y = x)

\* EncodeSeqNum translates the owner's sequence number of every message to
\* the number the session's client knows it by, and to 0 exactly when the
\* client has not been told of the message yet.
EncodeSeqNumCorrect ==
  \A s \in sessions, i \in 1..Len(msgs) :
    EncodeSeqNum(s, i) = IndexOf(view[s], msgs[i])

\* DecodeSeqNum translates every number the client knows a message by to
\* the owner's number of that message, and to 0 exactly when the message
\* has been expunged and the client not told yet.
DecodeSeqNumCorrect ==
  \A s \in sessions : \A c \in 1..Len(view[s]) :
    DecodeSeqNum(s, c) = IndexOf(msgs, view[s][c])

\* Every EXPUNGE and FETCH still queued for a session will, when the client
\* reads it after the updates queued before it, name by its number exactly
\* the message it was queued for; and once the whole queue is read the
\* client knows the owner's mailbox.  This is what makes the numbers Poll
\* and Idle write right, whatever the order of queueing, polling with or
\* without expunges, and re-attaching a session slot.
QueuedUpdatesResolve ==
  \A s \in sessions :
    /\ NamesAll(view[s], queue[s])
    /\ Told(view[s], queue[s]) = msgs

\* An update queued for a session whose Idle call is running is written to
\* its client, unless the caller stops the Idle call first.
IdleDeliversQueued ==
  \A s \in Sessions :
    (idle[s] = "running" /\ queue[s] # <<>>) ~> (queue[s] = <<>> \/ stop[s])

=============================================================================
