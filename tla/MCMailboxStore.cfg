CONSTANTS
  c1 = c1
  c2 = c2
  nA = nA
  nB = nB
  None = None
  Conns <- MCConns
  Names <- MCNames
  Ops <- OneCopierOps
  MaxBoxes = 2
  MaxMsgs = 2
  NameStr <- MCNameStr
  ListArgs <- MCListArgs
SPECIFICATION Spec
INVARIANT TypeOK
INVARIANT UIDsNameOneMessage
INVARIANT MatchListCorrect
PROPERTY CommandsFinish
\* A client may stop sending commands, and the bounds end the creation of
\* mailboxes and messages.
CHECK_DEADLOCK FALSE
