CONSTANTS
  s1 = s1
  s2 = s2
  Session = {s1, s2}
  Name = {"admin", "a", ""}
  Password = {"pw", ""}
  Key = {"admin", "a", ""}
  KeyOf <- MCKeyOf
  Extends <- MCExtends
  ValidName <- MCValidName
  ValidPassword = {"pw"}
  Admin = "admin"
  AdminName <- MCAdminName
  EmptyName = ""
  EmptyPassword = ""
  NULL = NULL
  InitialFile <- Shipped
  MaxClient = 2
  MaxTotalUsers = 3
  MaxLines = 3
  LeaveMayFail = FALSE
SPECIFICATION Spec
SYMMETRY Symmetry
INVARIANTS NoResurrection
