CONSTANTS
  h1 = h1
  h2 = h2
  a1 = a1
  a2 = a2
  t1 = t1
  good = good
  good2 = good2
  NoTeam = NoTeam
  NoFlag = NoFlag
  NoLimit = NoLimit
  NoRequest = NoRequest
  Handlers = {h1, h2}
  Accounts = {a1, a2}
  Admins = {}
  Teams = {t1}
  Challenges = {"first", "second"}
  Flags = {good, good2}
  Config <- MCConfig
  Points <- MCPoints
  Weights <- MCWeights
  Deduction = "Gate"
  Costs <- MCCosts
  Faults = {"abandon"}
  MaxSubmissions = 1
  MaxUnlocks = 2
SYMMETRY Sym
SPECIFICATION Spec
INVARIANTS
  TypeOK
  ChargesBounded
  OverspendBounded
  UnlocksEarned
