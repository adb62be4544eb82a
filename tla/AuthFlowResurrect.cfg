\* A rotation: the hash a login rewrites can be that of a replaced password.
SPECIFICATION Spec
CONSTANTS
  r1 = r1
  r2 = r2
  Requests <- MCRequests
  Texts = {"", "bob"}
  Usernames = {"bob"}
  Emails = {""}
  NoText = ""
  Lower <- MCLower
  Roles = {0, 3}
  DefaultRole = 0
  Passwords = {"old1", "new1"}
  PwLen <- MCPwLen
  NoPassword = "nopw"
  Peppers = {"none", "a", "b"}
  NoPepper = "none"
  Costs = {10}
  Deployments <- MCRotation
  MinPasswordLen = 0
SYMMETRY MCSymmetry
INVARIANT LastChosenStands
