\* One host with bare bcrypt and one that rotates its pepper while requests are in flight.
SPECIFICATION HostSpec
CONSTANTS
  r1 = r1
  r2 = r2
  Requests <- MCRequests
  Texts = {"", "bob", "Bob", "bob@x"}
  Usernames = {"bob", "Bob", ""}
  Emails = {"", "bob@x"}
  NoText = ""
  Lower <- MCLower
  Roles = {0, 3}
  DefaultRole = 0
  Passwords = {"short", "old1", "new1", "long"}
  PwLen <- MCPwLen
  NoPassword = "nopw"
  Peppers = {"none", "a", "b"}
  NoPepper = "none"
  Costs = {10}
  Deployments <- MCHosts
  MinPasswordLen = 0
SYMMETRY MCSymmetry
INVARIANTS TypeOK NoWeakPassword  LastChosenUnlessRotated
PROPERTIES LateRegistrationRefused RotationKeepsLogins
