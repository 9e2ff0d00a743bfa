\* The caller collecting its pipelined commands out of order while the
\* reader waits on a BODY[] literal.
CONSTANTS
  NumMsgs = 2
  Cmds <- MCCmds
  MaxOther = 1
SPECIFICATION Spec
CHECK_DEADLOCK FALSE
INVARIANT CollectNeverStarvesReader
