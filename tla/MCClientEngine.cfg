\* Concurrent APPENDs and a NOOP: tags, pendingCmds, continuation requests,
\* the server's NO, dropped connections and Client.Close.
CONSTANTS
  g1 = g1
  g2 = g2
  g3 = g3
  g4 = g4
  NoG = NoG
  G <- PipelineG
  Kind <- PipelineKind
  MaxTag = 4
  MaxRestart = 0
SPECIFICATION Spec
\* Every goroutine returns and the reader exits: the system stops.
CHECK_DEADLOCK FALSE
INVARIANT TypeOK
INVARIANT ContinuationsReachTheirCommand
PROPERTY CommandsComplete
PROPERTY ImplementsClientCommands
