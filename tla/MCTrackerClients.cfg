\* The tracker's translations and queues, with counts growing by one as the
\* in-memory server grows them.
CONSTANTS
  s1 = s1
  s2 = s2
  None = None
  Sessions <- MCSessions
  UIDs <- MCUIDs
  NoUID <- MCNoUID
  GrowBy = {1}
  MaxQueue = 2
SPECIFICATION Spec
SYMMETRY MCSymmetry
INVARIANT TypeOK
INVARIANT EncodeSeqNumCorrect
INVARIANT DecodeSeqNumCorrect
INVARIANT QueuedUpdatesResolve
