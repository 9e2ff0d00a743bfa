\* Client.Idle issued while an APPEND's literal waits for its "+".
CONSTANTS
  g1 = g1
  g2 = g2
  g3 = g3
  g4 = g4
  NoG = NoG
  G <- RaceG
  Kind <- RaceKind
  MaxTag = 2
  MaxRestart = 0
SPECIFICATION Spec
CHECK_DEADLOCK FALSE
PROPERTY CommandsComplete
