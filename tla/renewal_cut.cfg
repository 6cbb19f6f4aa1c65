CONSTANTS
  i1 = i1
  i2 = i2
  c1 = c1
  Instances = {i1}
  Instanced = {c1}
  ChallengeOf <- MCChallengeOf
  Lifespan = 2
  Durations = {3}
  Faults = {}
  MaxCrashes = 0
SYMMETRY Sym
SPECIFICATION Spec
CONSTRAINT ScannedFirst
INVARIANTS
  RenewalKept
