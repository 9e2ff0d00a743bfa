\* MOVE writes EXPUNGE responses numbered after it queued the expunges.
CONSTANTS
  c1 = c1
  c2 = c2
  None = None
  Sessions <- MCConns
  UIDs <- MCUIDs
  NoUID <- MCNoUID
  MaxQueue = 1
  FetchArgs <- MCFetchArgs
  SeqArgs <- MCSeqArgs
SPECIFICATION SpecMove
SYMMETRY MCSymmetry
INVARIANT ResponsesNameTheirMessages
