\* Connections running SELECT, EXPUNGE, CLOSE, UNSELECT, APPEND, NOOP,
\* STORE, FETCH and IDLE against one mailbox.
CONSTANTS
  c1 = c1
  c2 = c2
  None = None
  Sessions <- MCConns
  UIDs <- MCUIDs
  NoUID <- MCNoUID
  MaxQueue = 1
  FetchArgs <- MCFetchArgs
  SeqArgs <- MCSeqArgs
SPECIFICATION Spec
SYMMETRY MCSymmetry
INVARIANT TypeOK
INVARIANT ResponsesNameTheirMessages
INVARIANT TrackerMatchesMailbox
INVARIANT EncodeSeqNumCorrect
INVARIANT DecodeSeqNumCorrect
INVARIANT TrackerNeverPanics
