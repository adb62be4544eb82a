\* Peppered hashes, default lifetimes, the process clock ten minutes ahead.
SPECIFICATION Spec
CONSTANTS
  r1 = r1
  r2 = r2
  Requests <- MCRequests
  InitialUsers <- MCUsers
  FlowHasher <- MCPeppered
  ResetTTL = 0
  VerifyTTL = 0
  MinPwLen = 0
  AppAhead = 10
  Instants = {0, 69, 70, 1450}
  MaxTokens = 2
  Texts = {"", "ann", "ann@x", "bob"}
  NoText = ""
  Lower <- MCLower
  Roles = {0}
  Passwords = {"short", "old1", "long"}
  PwLen <- MCPwLen
  NoPassword = "nopw"
  Peppers = {"none", "a"}
  NoPepper = "none"
  Costs = {10}
SYMMETRY MCSymmetry
INVARIANTS TypeOK OneHolder EffectNeedsRedemption
PROPERTIES  LinkLivesAsMailed NoLateRedemption SingleUseGrants
