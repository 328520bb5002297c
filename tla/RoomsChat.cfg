CONSTANTS
  s1 = s1
  s2 = s2
  s3 = s3
  r1 = r1
  Session = {s1, s2, s3}
  Admins = {s1}
  RoomName = {"lobby"}
  Key = {"lobby"}
  KeyOf <- MCKeyOf
  Piece = {"lobby"}
  Pieces <- MCPieces
  Extends <- MCExtends
  Room = {r1}
  MaxRooms = 1
  MaxLog = 2
  MaxChats = 3
  SendMayFail = FALSE
  ReadMayFail = FALSE
  NULL = NULL
SPECIFICATION Spec
SYMMETRY Guests
CHECK_DEADLOCK FALSE
INVARIANTS Membership NothingMissed LogIsRecent InOrder
PROPERTIES ImplementsChatRoom
