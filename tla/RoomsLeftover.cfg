CONSTANTS
  s1 = s1
  s2 = s2
  r1 = r1
  Session = {s1, s2}
  Admins = {s1}
  RoomName = {"lobby"}
  Key = {"lobby"}
  KeyOf <- MCKeyOf
  Piece = {"lobby"}
  Pieces <- MCPieces
  Extends <- MCExtends
  Room = {r1}
  MaxRooms = 1
  MaxLog = 1
  MaxChats = 0
  SendMayFail = FALSE
  ReadMayFail = FALSE
  NULL = NULL
SPECIFICATION Spec
CHECK_DEADLOCK FALSE
PROPERTIES ShutdownCleansUp
