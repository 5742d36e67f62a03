SPECIFICATION Spec
CONSTANTS
  none = none  MaxUpdates = 3  MaxMessages = 1  Drafts = {16, 18}
  Threshold = 3  MaxPending = 2  MaxDeferred = 1
INVARIANTS
  TypeOK BytesAccounted  ReceiverEnds  NamespacesAgree
PROPERTIES
   NothingOvertakes
CHECK_DEADLOCK FALSE
