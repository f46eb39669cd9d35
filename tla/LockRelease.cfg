SPECIFICATION LockSpec
CONSTANTS
  c1 = c1
  c2 = c2
  LockClients = {c1, c2}
  LockTokens = 2
INVARIANTS HolderKeepsLock
