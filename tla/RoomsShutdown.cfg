CONSTANTS
  s1 = s1
  s2 = s2
  s3 = s3
  r1 = r1
  Session = {s1, s2, s3}
  Admins = {s1}
  RoomName = {"lobby"}
  Key = {"lobby"}
  KeyOf <- MCKeyOf
  Piece = {"lobby"}
  Pieces <- MCPieces
  Extends <- MCExtends
  Room = {r1}
  MaxRooms = 1
  MaxLog = 1
  MaxChats = 1
  SendMayFail = TRUE
  ReadMayFail = TRUE
  NULL = NULL
SPECIFICATION FairSpec
CHECK_DEADLOCK FALSE
INVARIANTS Membership PointersLive
PROPERTIES ShutdownCompletes ImplementsChatRoom
