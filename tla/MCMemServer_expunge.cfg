\* EXPUNGE racing a STORE -FLAGS \Deleted of another connection.
CONSTANTS
  c1 = c1
  c2 = c2
  None = None
  Sessions <- MCConns
  UIDs <- MCUIDs
  NoUID <- MCNoUID
  MaxQueue = 1
  FetchArgs <- MCFetchArgs
  SeqArgs <- MCSeqArgs
SPECIFICATION Spec
SYMMETRY MCSymmetry
PROPERTY ExpungeRemovesOnlyDeleted
