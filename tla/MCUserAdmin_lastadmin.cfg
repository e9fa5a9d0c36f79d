CONSTANTS
  Users = {a, b}
  FirstUsers = {a, b}
  FirstAdmins = {a, b}
  OtherRoles = {"user"}
  Requests = {r1, r2}
  NoUser = NoUser
  MaxVersion = 2
SPECIFICATION Spec
INVARIANT AnAdminRemains
