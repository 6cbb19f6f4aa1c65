CONSTANTS
  h1 = h1
  h2 = h2
  a1 = a1
  a2 = a2
  t1 = t1
  t2 = t2
  good = good
  good2 = good2
  bad = bad
  bad2 = bad2
  i1 = i1
  i2 = i2
  NoTeam = NoTeam
  NoFlag = NoFlag
  NoLimit = NoLimit
  NoRequest = NoRequest
  Handlers = {h1, h2}
  Accounts = {a1, a2}
  Admins = {}
  Teams = {t1}
  Challenges = {"first"}
  Flags = {good}
  InstanceFlags = {}
  Config <- FirstConfig
  Broadcast = {"FirstBlood", "Solve"}
  Faults = {}
  MaxSubmissions = 2
SPECIFICATION FairSpec
INVARIANTS
  FirstBloodIsFirst
PROPERTIES
  SolvesAnnounced
