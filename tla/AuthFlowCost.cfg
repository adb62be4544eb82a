\* The host raises the bcrypt cost.
SPECIFICATION Spec
CONSTANTS
  r1 = r1
  r2 = r2
  Requests <- MCRequests
  Texts = {"", "bob"}
  Usernames = {"bob"}
  Emails = {""}
  NoText = ""
  Lower <- MCLower
  Roles = {0, 3}
  DefaultRole = 0
  Passwords = {"old1", "new1"}
  PwLen <- MCPwLen
  NoPassword = "nopw"
  Peppers = {"none", "a", "b"}
  NoPepper = "none"
  Costs = {10, 12}
  Deployments <- MCRaise
  MinPasswordLen = 0
SYMMETRY MCSymmetry
PROPERTY LoginMigratesCost
