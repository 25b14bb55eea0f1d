CONSTANTS
  Labels <- BothLabels
  Ids <- OnePeer
  Messages <- MCMessages
  DataMessages <- MCDataMessages
  MaxBytes = 2
  Calls <- MCCalls
  Buffers <- MCBuffers
SPECIFICATION FairSpec
INVARIANTS RefusedNeverSucceeds OneNegotiator DecodedUnlessOver HandlerGetsWhatWasSent
PROPERTIES ClosedSettles
