\* Updates queued for a session while its Idle goroutine is running.
CONSTANTS
  s1 = s1
  s2 = s2
  None = None
  Sessions <- MCSessions
  UIDs <- MCUIDs
  NoUID <- MCNoUID
  GrowBy = {1}
  MaxQueue = 1
SPECIFICATION Spec
PROPERTY IdleDeliversQueued
