CONSTANTS
  MaxGroup = 1048576
  MaxObject = 1048576
  kMaxExtensionLength = 1024
  kMaxExtensionBlockLength = 65536
  HopDrafts = {22}
  Drafts = {16, 18, 22}
  Parts = {"messages", "streams", "varint", "datagram"}
  Pieces = {1, 3}
SPECIFICATION Spec
INVARIANTS  StreamEndTold
CHECK_DEADLOCK FALSE
