\* Two registrations of one name in two spellings.
SPECIFICATION Spec
CONSTANTS
  r1 = r1
  r2 = r2
  Requests <- MCRequests
  Texts = {"", "bob", "Bob"}
  Usernames = {"bob", "Bob"}
  Emails = {""}
  NoText = ""
  Lower <- MCLower
  Roles = {0, 3}
  DefaultRole = 0
  Passwords = {"old1"}
  PwLen <- MCPwLen
  NoPassword = "nopw"
  Peppers = {"none"}
  NoPepper = "none"
  Costs = {10}
  Deployments <- MCBare
  MinPasswordLen = 0
SYMMETRY MCSymmetry
INVARIANT OneAccountPerName
