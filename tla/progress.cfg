CONSTANTS
  i1 = i1
  i2 = i2
  c1 = c1
  s1 = s1
  s2 = s2
  NoMail = NoMail
  Sends = {s1, s2}
  Configs <- Setups
  Letters = {".", "x"}
  Body <- Texts
  MaxMailbox = 1
  Breaks = {"cut"}
  MaxInbound = 1
  Instances = {i1}
  Instanced = {c1}
  ChallengeOf <- MCChallengeOf
  Lifespan = 1
  Durations = {2}
  Faults = {"kube", "crash"}
  MaxCrashes = 2
SPECIFICATION MCSpec
CHECK_DEADLOCK FALSE
INVARIANTS
  RowsWatched
  MailTypeOK
  Delivered
  CredentialsSecured
PROPERTIES
  RowsReaped
  MailEnds
