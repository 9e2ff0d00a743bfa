\* Client.Idle with two timer restarts, and two NOOPs issued concurrently.
CONSTANTS
  g1 = g1
  g2 = g2
  g3 = g3
  g4 = g4
  NoG = NoG
  G <- IdleG
  Kind <- IdleKind
  MaxTag = 5
  MaxRestart = 2
SPECIFICATION Spec
\* Every goroutine returns and the reader exits: the system stops.
CHECK_DEADLOCK FALSE
PROPERTY CommandsComplete
PROPERTY ImplementsClientCommands
