SPECIFICATION mcSpec
CONSTANTS
  Modes = {"legacy", "byoidc"}
  ip1 = ip1
  Ips = {ip1, ip2}
  ApiMayFail = TRUE
  u1 = u1 u2 = u2 p1 = p1 p2 = p2
  Users = {u1, u2}
  Passwords = {p1, p2}
  Inputs <- mcInputs
  BootLines <- mcBootLines
  SeedAdmins = {u1}
  Cmds = {c1, c2}
  MaxCommands = 3
  None = None
INVARIANTS CompleteStart LatestPasswordOnly DeleteLasts
PROPERTIES StaysServed
