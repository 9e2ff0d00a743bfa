---------------------------- MODULE MailboxStore ----------------------------
(***************************************************************************)
(* The mailboxes of one imapmemserver User and the locks that guard them:  *)
(* User.mutex over the name -> *Mailbox map (user.go), and each Mailbox's  *)
(* mutex over its messages and uidNext (part_004).  Connections run the    *)
(* commands that take these locks: CREATE, DELETE, RENAME, LIST, APPEND,   *)
(* SELECT, STATUS, SUBSCRIBE, and COPY and MOVE from the selected mailbox  *)
(* (session.go).  A step is a stretch of code between two lock             *)
(* acquisitions; a step that needs a lock is enabled when it is free.      *)
(*                                                                         *)
(* A Mailbox object is a number b in Boxes; the ghost id of a message      *)
(* object tells copies apart.  The sequence-number tracker is left to      *)
(* MemServer.                                                              *)
(***************************************************************************)
EXTENDS Naturals, Sequences, SequencesExt, ListMatch

CONSTANTS
  Conns,      \* connections of the user
  Names,      \* mailbox names
  Ops,        \* Ops[c]: the commands connection c issues
  MaxBoxes,   \* bound on the Mailbox objects created
  MaxMsgs,    \* no command that adds messages starts past this many
  NameStr,    \* the string of each mailbox name, for MatchList
  ListArgs,   \* LIST arguments: [ref, pats], pats a set of patterns
  None        \* no connection holds the lock

Boxes == 1..MaxBoxes
Commands == {"create", "delete", "rename", "list", "append", "select",
             "unselect", "status", "subscribe", "copy", "move"}

VARIABLES
  mailboxes,        \* User.mailboxes: name -> Mailbox, 0 for none
  prevUidValidity,  \* User.prevUidValidity
  nextBox,          \* Mailbox objects allocated so far
  uidValidity,      \* Mailbox.uidValidity
  l,                \* Mailbox.l: [uid, id] records
  uidNext,          \* Mailbox.uidNext
  subscribed,       \* Mailbox.subscribed
  uLock,            \* the holder of User.mutex
  lock,             \* the holder of each Mailbox.mutex
  selected,         \* UserSession.mailbox, 0 for none
  pc,               \* each connection's place in its command
  op,               \* the command it runs
  tgt,              \* the *Mailbox the command looked up
  arg,              \* the names RENAME works on: <<old, new>>
  left,             \* the mailboxes LIST has yet to visit
  waitBox,          \* the mailbox LIST waits to lock, 0 for none
  copied,           \* the messages COPY or MOVE has copied so far
  nextId,           \* ghost: message objects created so far
  seen              \* ghost: every <<name, uidValidity, uid, id>> ever visible

storeVars == <<mailboxes, prevUidValidity, nextBox, uidValidity, l, uidNext,
               subscribed>>
lockVars == <<uLock, lock>>
connVars == <<selected, pc, op, tgt, arg, left, waitBox, copied>>
vars == <<storeVars, lockVars, connVars, nextId, seen>>

Msg == [uid : Nat, id : Nat]
PCs == {"idle", "renaming", "listing", "appending", "boxLock", "copyLock",
        "copyAppend"}

TypeOK ==
  /\ mailboxes \in [Names -> Boxes \cup {0}]
  /\ prevUidValidity \in Nat /\ nextBox \in 0..MaxBoxes
  /\ uidValidity \in [Boxes -> Nat]
  /\ l \in [Boxes -> Seq(Msg)]
  /\ uidNext \in [Boxes -> Nat \ {0}]
  /\ subscribed \in [Boxes -> BOOLEAN]
  /\ uLock \in Conns \cup {None}
  /\ lock \in [Boxes -> Conns \cup {None}]
  /\ selected \in [Conns -> Boxes \cup {0}]
  /\ pc \in [Conns -> PCs]
  /\ op \in [Conns -> Commands \cup {"none"}]
  /\ tgt \in [Conns -> Boxes \cup {0}]
  /\ arg \in [Conns -> (Names \X Names) \cup {<<>>}]
  /\ left \in [Conns -> SUBSET Boxes]
  /\ waitBox \in [Conns -> Boxes \cup {0}]
  /\ copied \in [Conns -> Nat]
  /\ nextId \in Nat

\* The <<name, uidValidity, uid, id>> a client can see: what STATUS, SELECT
\* and FETCH report of each mailbox under its current name.
Visible ==
  UNION {{<<n, uidValidity[mailboxes[n]], m.uid, m.id>> : m \in ToSet(l[mailboxes[n]])} :
           n \in {k \in Names : mailboxes[k] # 0}}

\* seen records, after every step, what is visible then.
Record == seen' = seen \cup Visible'

Init ==
  /\ mailboxes = [n \in Names |-> 0]
  /\ prevUidValidity = 0 /\ nextBox = 0
  /\ uidValidity = [b \in Boxes |-> 0]
  /\ l = [b \in Boxes |-> <<>>]
  /\ uidNext = [b \in Boxes |-> 1]
  /\ subscribed = [b \in Boxes |-> FALSE]
  /\ uLock = None
  /\ lock = [b \in Boxes |-> None]
  /\ selected = [c \in Conns |-> 0]
  /\ pc = [c \in Conns |-> "idle"]
  /\ op = [c \in Conns |-> "none"]
  /\ tgt = [c \in Conns |-> 0]
  /\ arg = [c \in Conns |-> <<>>]
  /\ left = [c \in Conns |-> {}]
  /\ waitBox = [c \in Conns |-> 0]
  /\ copied = [c \in Conns |-> 0]
  /\ nextId = 0
  /\ seen = {}

\* appendBytes: the new message takes uidNext, under the mailbox lock.
AppendBytesFromLength(b, ids) ==
  [l EXCEPT ![b] = l[b] \o [i \in 1..Len(ids) |-> [uid |-> Len(l[b]) + i, id |-> ids[i]]]]
AppendBytes(b, ids) ==
  [l EXCEPT ![b] = l[b] \o [i \in 1..Len(ids) |-> [uid |-> uidNext[b] + i - 1, id |-> ids[i]]]]

\* Fresh message ids for k new message objects.
FreshIds(k) == [i \in 1..k |-> nextId + i]

\* A command starts from idle; one that waits for a lock records which.
Start(c, o) == pc[c] = "idle" /\ o \in Ops[c]
Run(c, o) == Start(c, o) /\ op' = [op EXCEPT ![c] = o]

\* The command returns: its locals are gone.
Finish(c) ==
  /\ pc' = [pc EXCEPT ![c] = "idle"]
  /\ op' = [op EXCEPT ![c] = "none"]
  /\ tgt' = [tgt EXCEPT ![c] = 0]
  /\ arg' = [arg EXCEPT ![c] = <<>>]

\* u.mailbox(name): lookup under User.mutex, taken and released in one step.
Lookup(c, n, next) ==
  /\ uLock = None /\ mailboxes[n] # 0
  /\ tgt' = [tgt EXCEPT ![c] = mailboxes[n]]
  /\ pc' = [pc EXCEPT ![c] = next]

\* Variant: the Mailbox literal without uidNext: 1 (Go's zero value).
NewMailboxNoUidNext(b, v) ==
  /\ uidValidity' = [uidValidity EXCEPT ![b] = v]
  /\ l' = [l EXCEPT ![b] = <<>>]
  /\ uidNext' = [uidNext EXCEPT ![b] = 0]

\* NewMailbox(name, uidValidity): an empty Mailbox whose first UID is 1.
NewMailbox(b, v) ==
  /\ uidValidity' = [uidValidity EXCEPT ![b] = v]
  /\ l' = [l EXCEPT ![b] = <<>>]
  /\ uidNext' = [uidNext EXCEPT ![b] = 1]

\* User.Create: a fresh Mailbox with the next UIDVALIDITY; NO if the name
\* exists.
Create(c) ==
  /\ Start(c, "create") /\ uLock = None /\ nextBox < MaxBoxes
  /\ \E n \in Names :
       /\ mailboxes[n] = 0
       /\ mailboxes' = [mailboxes EXCEPT ![n] = nextBox + 1]
  /\ NewMailbox(nextBox + 1, prevUidValidity + 1)
  /\ prevUidValidity' = prevUidValidity + 1
  /\ nextBox' = nextBox + 1
  /\ UNCHANGED <<subscribed, lockVars, connVars, nextId>>
  /\ Record

\* User.Delete: the name leaves the map; the Mailbox lives on for whoever
\* holds it.
Delete(c) ==
  /\ Start(c, "delete") /\ uLock = None
  /\ \E n \in Names :
       /\ mailboxes[n] # 0
       /\ mailboxes' = [mailboxes EXCEPT ![n] = 0]
  /\ UNCHANGED <<prevUidValidity, nextBox, uidValidity, l, uidNext, subscribed,
                 lockVars, connVars, nextId>>
  /\ Record

\* User.Rename, first half: User.mutex is taken and both names checked.
RenameLock(c) ==
  /\ Run(c, "rename") /\ uLock = None
  /\ \E old, new \in Names :
       /\ mailboxes[old] # 0 /\ mailboxes[new] = 0
       /\ arg' = [arg EXCEPT ![c] = <<old, new>>]
       /\ tgt' = [tgt EXCEPT ![c] = mailboxes[old]]
  /\ uLock' = c
  /\ pc' = [pc EXCEPT ![c] = "renaming"]
  /\ UNCHANGED <<storeVars, lock, selected, left, waitBox, nextId, copied>>
  /\ Record

\* Second half: mbox.rename takes the mailbox lock; the map is updated and
\* User.mutex released.
RenameDo(c) ==
  /\ pc[c] = "renaming" /\ lock[tgt[c]] = None
  /\ mailboxes' = [mailboxes EXCEPT ![arg[c][2]] = tgt[c], ![arg[c][1]] = 0]
  /\ uLock' = None
  /\ Finish(c)
  /\ UNCHANGED <<prevUidValidity, nextBox, uidValidity, l, uidNext, subscribed,
                 lock, selected, left, waitBox, nextId, copied>>
  /\ Record

\* imapmemserver's mailboxDelim.
MailboxDelim == <<"/">>

\* The names User.List visits for one LIST: none without patterns (only the
\* \\Noselect entry is written), else those some pattern matches.
Listed(a) ==
  {n \in Names : /\ mailboxes[n] # 0
                 /\ \E p \in a.pats : MatchList(NameStr[n], MailboxDelim, a.ref, p)}

\* User.List takes User.mutex for the whole walk over the map.
ListBegin(c) ==
  /\ Run(c, "list") /\ uLock = None
  /\ uLock' = c
  /\ \E a \in ListArgs : left' = [left EXCEPT ![c] = {mailboxes[n] : n \in Listed(a)}]
  /\ pc' = [pc EXCEPT ![c] = "listing"]
  /\ UNCHANGED <<storeVars, lock, selected, tgt, arg, waitBox, nextId, copied>>
  /\ Record

\* The range loop reaches the next mailbox (Go's map order is unspecified)
\* and mbox.list waits for its lock.
ListNext(c) ==
  /\ pc[c] = "listing" /\ waitBox[c] = 0
  /\ \E b \in left[c] : waitBox' = [waitBox EXCEPT ![c] = b]
  /\ UNCHANGED <<storeVars, lockVars, selected, pc, op, tgt, arg, left, nextId, copied>>
  /\ Record

\* mbox.list holds the mailbox lock while it reads subscribed and status.
ListBox(c) ==
  /\ pc[c] = "listing" /\ waitBox[c] # 0 /\ lock[waitBox[c]] = None
  /\ left' = [left EXCEPT ![c] = @ \ {waitBox[c]}]
  /\ waitBox' = [waitBox EXCEPT ![c] = 0]
  /\ UNCHANGED <<storeVars, lockVars, selected, pc, op, tgt, arg, nextId, copied>>
  /\ Record

\* The deferred unlock of User.mutex once every mailbox is listed.
ListEnd(c) ==
  /\ pc[c] = "listing" /\ left[c] = {} /\ waitBox[c] = 0
  /\ uLock' = None
  /\ Finish(c)
  /\ UNCHANGED <<storeVars, lock, selected, left, waitBox, nextId, copied>>
  /\ Record

\* User.Append looks the mailbox up; NO [TRYCREATE] if it is missing.
AppendLookup(c) ==
  /\ Run(c, "append") /\ nextId < MaxMsgs
  /\ \E n \in Names : Lookup(c, n, "appending")
  /\ UNCHANGED <<storeVars, lockVars, selected, arg, left, waitBox, nextId, copied>>
  /\ Record

\* appendLiteral -> appendBytes under the mailbox lock.
AppendWrite(c) ==
  /\ pc[c] = "appending" /\ lock[tgt[c]] = None
  /\ l' = AppendBytes(tgt[c], FreshIds(1))
  /\ uidNext' = [uidNext EXCEPT ![tgt[c]] = @ + 1]
  /\ nextId' = nextId + 1
  /\ Finish(c)
  /\ UNCHANGED <<mailboxes, prevUidValidity, nextBox, uidValidity, subscribed,
                 lockVars, selected, left, waitBox, copied>>
  /\ Record

\* SELECT, STATUS, SUBSCRIBE and UNSUBSCRIBE look the mailbox up under
\* User.mutex, then take its lock.
BoxLookup(c) ==
  /\ \E o \in {"select", "status", "subscribe"} : Run(c, o)
  /\ \E n \in Names : Lookup(c, n, "boxLock")
  /\ UNCHANGED <<storeVars, lockVars, selected, arg, left, waitBox, nextId, copied>>
  /\ Record

\* Under the mailbox lock: Select installs the view, SetSubscribed sets the
\* flag, StatusData reads.
BoxLocked(c) ==
  /\ pc[c] = "boxLock" /\ lock[tgt[c]] = None
  /\ selected' = IF op[c] = "select" THEN [selected EXCEPT ![c] = tgt[c]] ELSE selected
  /\ \/ op[c] # "subscribe" /\ UNCHANGED subscribed
     \/ op[c] = "subscribe" /\ \E v \in BOOLEAN : subscribed' = [subscribed EXCEPT ![tgt[c]] = v]
  /\ Finish(c)
  /\ UNCHANGED <<mailboxes, prevUidValidity, nextBox, uidValidity, l, uidNext,
                 lockVars, left, waitBox, nextId, copied>>
  /\ Record

\* Copy and Move look the destination up; NO if it is missing or is the
\* selected mailbox.
CopyLookup(c) ==
  /\ selected[c] # 0 /\ nextId < MaxMsgs
  /\ \E o \in {"copy", "move"} : Run(c, o)
  /\ \E n \in Names : Lookup(c, n, "copyLock") /\ mailboxes[n] # selected[c]
  /\ UNCHANGED <<storeVars, lockVars, selected, arg, left, waitBox, nextId, copied>>
  /\ Record

\* forEach (Copy) or Move itself takes the source mailbox's lock.
CopyLockSrc(c) ==
  /\ pc[c] = "copyLock" /\ lock[selected[c]] = None
  /\ lock' = [lock EXCEPT ![selected[c]] = c]
  /\ pc' = [pc EXCEPT ![c] = "copyAppend"]
  /\ UNCHANGED <<storeVars, uLock, selected, op, tgt, arg, left, waitBox, nextId, copied>>
  /\ Record

\* Holding the source lock, forEach calls dest.copyMsg for the next
\* message; appendBytes takes the destination's lock for that one message.
\* An empty source never touches the destination.
CopyMsg(c) ==
  LET src == selected[c]
      dst == tgt[c]
  IN /\ pc[c] = "copyAppend" /\ copied[c] < Len(l[src]) /\ lock[dst] = None
     /\ l' = AppendBytes(dst, FreshIds(1))
     /\ uidNext' = [uidNext EXCEPT ![dst] = @ + 1]
     /\ nextId' = nextId + 1
     /\ copied' = [copied EXCEPT ![c] = @ + 1]
     /\ UNCHANGED <<mailboxes, prevUidValidity, nextBox, uidValidity, subscribed,
                    lockVars, selected, pc, op, tgt, arg, left, waitBox>>
     /\ Record

\* Variant: the source lock is never released.
CopyDoneKeepsLock(c) ==
  /\ pc[c] = "copyAppend" /\ copied[c] = Len(l[selected[c]])
  /\ l' = IF op[c] = "move" THEN [l EXCEPT ![selected[c]] = <<>>] ELSE l
  /\ copied' = [copied EXCEPT ![c] = 0]
  /\ Finish(c)
  /\ UNCHANGED <<mailboxes, prevUidValidity, nextBox, uidValidity, uidNext,
                 subscribed, lockVars, selected, left, waitBox, nextId>>
  /\ Record

\* Every message is copied: MOVE's expungeLocked removes them from the
\* source, and the source lock is released (forEach's or Move's deferred
\* unlock).
CopyDone(c) ==
  /\ pc[c] = "copyAppend" /\ copied[c] = Len(l[selected[c]])
  /\ l' = IF op[c] = "move" THEN [l EXCEPT ![selected[c]] = <<>>] ELSE l
  /\ copied' = [copied EXCEPT ![c] = 0]
  /\ lock' = [lock EXCEPT ![selected[c]] = None]
  /\ Finish(c)
  /\ UNCHANGED <<mailboxes, prevUidValidity, nextBox, uidValidity, uidNext,
                 subscribed, uLock, selected, left, waitBox, nextId>>
  /\ Record

\* UserSession.Unselect drops the view.
Unselect(c) ==
  /\ Start(c, "unselect") /\ selected[c] # 0
  /\ selected' = [selected EXCEPT ![c] = 0]
  /\ UNCHANGED <<storeVars, lockVars, pc, op, tgt, arg, left, waitBox, nextId, copied>>
  /\ Record

\* The steps that wait for a Mailbox.mutex, and the other steps of a
\* command already running.
LockSteps(c) == RenameDo(c) \/ ListBox(c) \/ AppendWrite(c) \/ BoxLocked(c)
                \/ CopyLockSrc(c) \/ CopyMsg(c)
RunSteps(c) == ListNext(c) \/ ListEnd(c) \/ CopyDone(c)

\* A client sends its next command.
Issue(c) ==
  \/ Create(c) \/ Delete(c) \/ RenameLock(c) \/ ListBegin(c) \/ AppendLookup(c)
  \/ BoxLookup(c) \/ Unselect(c) \/ CopyLookup(c)

Next == \E c \in Conns : Issue(c) \/ LockSteps(c) \/ RunSteps(c)

\* Go's sync.Mutex hands the lock to a waiter that has waited more than
\* 1 ms (starvation mode), so a waiter that is repeatedly enabled gets the
\* lock: strong fairness on each lock acquisition.  A running goroutine
\* takes its next step: weak fairness.  Clients need not send commands.
Fairness ==
  \A c \in Conns : SF_vars(LockSteps(c)) /\ WF_vars(RunSteps(c))

Spec == Init /\ [][Next]_vars /\ Fairness

-----------------------------------------------------------------------------
\* spec.md: a UID is never reused within one UIDVALIDITY epoch.  A client
\* caches messages by (mailbox name, UIDVALIDITY, UID); across CREATE,
\* DELETE, RENAME, APPEND, COPY and MOVE (User.Create's prevUidValidity++,
\* appendBytes's uidNext++) that key never names two different messages.
UIDsNameOneMessage ==
  \A x, y \in seen : x[1] = y[1] /\ x[2] = y[2] /\ x[3] = y[3] => x[4] = y[4]

\* Every command a connection starts returns: no cycle of connections waits
\* on User.mutex and Mailbox mutexes (List and Rename hold User.mutex while
\* they wait for a mailbox; Copy and Move hold the source while they wait
\* for the destination).
CommandsFinish == \A c \in Conns : pc[c] # "idle" ~> pc[c] = "idle"

\* User.List locks only mailboxes that some LIST argument's pattern denotes
\* (RFC 3501 "*" and "%"), and MatchList, which it calls to decide, agrees
\* with that reading on every name and pattern of up to three characters.
MatchListCorrect ==
  /\ MatchListAgrees
  /\ \A c \in Conns : pc[c] = "listing" =>
       \A b \in left[c] : \E n \in Names, a \in ListArgs : \E pat \in a.pats :
         mailboxes[n] = b /\ ReferenceMatch(NameStr[n], MailboxDelim, a.ref, pat)
=============================================================================
