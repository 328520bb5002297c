CONSTANTS
  s1 = s1
  s2 = s2
  Session = {s1, s2}
  Name = {"admin", "longname_01", "longname_02", ""}
  Password = {"pw", ""}
  Key = {"admin", "longname_01", ""}
  KeyOf <- MCKeyOf
  Extends <- MCExtends
  ValidName <- MCValidName
  ValidPassword = {"pw"}
  Admin = "admin"
  AdminName <- MCAdminName
  EmptyName = ""
  EmptyPassword = ""
  NULL = NULL
  InitialFile <- WithLongName
  MaxClient = 2
  MaxTotalUsers = 3
  MaxLines = 0
  LeaveMayFail = TRUE
SPECIFICATION FairSpec
INVARIANTS ClientCountExact
PROPERTIES ShutdownCompletes
