\* FETCH responses of pipelined FETCH and STORE commands, with another
\* connection storing flags.
CONSTANTS
  NumMsgs = 2
  Cmds <- MCCmds
  MaxOther = 1
SPECIFICATION Spec
CHECK_DEADLOCK FALSE
INVARIANT ResponsesReachTheirCommand
