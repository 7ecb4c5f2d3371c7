SPECIFICATION Spec
CONSTANTS
  Photos = {p1, p2}
  Configs <- MCConfigs
  MaxCaptures = 2
  Slow = {r1}
  None = None
  Templates <- MCTemplates
  MaxOvertaking = 2
  MaxReports = 1
  MaxReopenings = 1
  Places = {"validacao", "administrative_reception"}
  Optional = {"auditoria"}
  CleanRequests = 6
  ApiRequests = 3
CHECK_DEADLOCK FALSE
INVARIANT TypeOK EvidenceBehindPhases OutcomeAgrees
