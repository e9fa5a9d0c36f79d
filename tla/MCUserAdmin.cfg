CONSTANTS
  Users = {a, b}
  FirstUsers = {a}
  FirstAdmins = {a}
  OtherRoles = {"user"}
  Requests = {r1, r2}
  NoUser = NoUser
  MaxVersion = 2
SPECIFICATION Spec
CHECK_DEADLOCK FALSE
SYMMETRY Symmetry
INVARIANTS TypeOK TokenInv
PROPERTY InvalidForGood
