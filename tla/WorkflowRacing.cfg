SPECIFICATION Spec
CONSTANTS
  Workers = {w1, w2}
  Actors = {a1, a2}
  Cases = {c1}
  Sales = {s1}
  Versions = {1, 2}
  Steps = {"delivery"}
  Sensitive = {"delivery"}
  Keys = {k1}
  MaxRevision <- FirstFour
  MaxPhaseRevision <- FirstFour
  None = None
CHECK_DEADLOCK FALSE
SYMMETRY AnyRequestAndActor
INVARIANT TypeOK EndedProcessIsSettled ProcessWritesAreCurrent OneLivePerSale
  FourEyesWhenCurrent
PROPERTY EndedProcessStandsStill DelegatesOpenWork
