\* UID FETCH of a message whose EXISTS the client has not been sent.
CONSTANTS
  c1 = c1
  c2 = c2
  None = None
  Sessions <- MCConns
  UIDs <- MCUIDs
  NoUID <- MCNoUID
  MaxQueue = 1
  FetchArgs <- MCFetchArgs
  SeqArgs <- MCSeqArgs
SPECIFICATION SpecUIDFetch
SYMMETRY MCSymmetry
INVARIANT ResponsesNameTheirMessages
