CONSTANTS
  s1 = s1
  s2 = s2
  s3 = s3
  r1 = r1
  r2 = r2
  r3 = r3
  Session = {s1, s2, s3}
  Admins = {s1, s2, s3}
  RoomName = {"lobbylobby1", "lobbylobby of thirty character", "hall"}
  Key = {"lobbylobby1", "hall"}
  KeyOf <- MCKeyOf
  Piece = {"lobbylobby1", "head", "tail", "hall"}
  Pieces <- MCPieces
  Extends <- MCExtends
  Room = {r1, r2, r3}
  MaxRooms = 2
  MaxLog = 1
  MaxChats = 0
  SendMayFail = FALSE
  ReadMayFail = FALSE
  NULL = NULL
SPECIFICATION Spec
SYMMETRY Everyone
CHECK_DEADLOCK FALSE
INVARIANTS TypeOK PointersLive RoomCountExact ListAgrees
PROPERTIES ImplementsChatRoom
