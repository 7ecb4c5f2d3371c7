SPECIFICATION Spec
CONSTANTS
  Workers = {w1, w2}
  Actors = {a1, a2}
  Cases = {c1}
  Sales = {s1}
  Versions = {1}
  Steps = {"settlement"}
  Sensitive = {"settlement"}
  Keys = {}
  MaxRevision <- Three
  MaxPhaseRevision <- Five
  None = None
CHECK_DEADLOCK FALSE
INVARIANT FourEyes
