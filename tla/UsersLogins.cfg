CONSTANTS
  s1 = s1
  s2 = s2
  s3 = s3
  Session = {s1, s2, s3}
  Name = {"admin", "bob", ""}
  Password = {"pw", ""}
  Key = {"admin", "bob", ""}
  KeyOf <- MCKeyOf
  Extends <- MCExtends
  ValidName <- MCValidName
  ValidPassword = {"pw"}
  Admin = "admin"
  AdminName <- MCAdminName
  EmptyName = ""
  EmptyPassword = ""
  NULL = NULL
  InitialFile <- WithBlankAndBob
  MaxClient = 2
  MaxTotalUsers = 3
  MaxLines = 0
  LeaveMayFail = FALSE
SPECIFICATION Spec
SYMMETRY Symmetry
INVARIANTS TypeOK ClientCountExact OwnsAccount ActorStillAdmin NoGhostLogin
PROPERTIES OwnAccountStable
