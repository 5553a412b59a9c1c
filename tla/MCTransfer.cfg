CONSTANTS
  Bytes = {"h", "m", "e", "f", "x", "CR", "LF"}
  Unset = "unset"
  CheapPrepend = 1
  InitialSize = 3
  ExtraSize = 2
  Files <- MCFiles
  WireSize = 4
  MaxChats = 2
SPECIFICATION TransferFairSpec
INVARIANT Faithful 
PROPERTY Delivered
CHECK_DEADLOCK FALSE
