SPECIFICATION Spec
CONSTANTS
  Slow = {r1}
  Users = {u1}
  Team = g
  Targets = {"in_execution", "waiting", "support_requested", "closed"}
  FirstMinutes = 1
  Minutes = 2
  Horizon = 2
  MaxCommits = 3
  MaxQuestions = 2
  MaxRelated = 2
  None = None
CHECK_DEADLOCK FALSE
INVARIANT TypeOK SlaCountsWorkedTime QuestionsMatch SurfacesAgree
