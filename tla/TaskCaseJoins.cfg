SPECIFICATION Spec
CONSTANTS
  Slow = {r1}
  Users = {u1}
  Team = g
  Targets = {}
  FirstMinutes = 1
  Minutes = 2
  Horizon = 0
  MaxCommits = 4
  MaxQuestions = 0
  MaxRelated = 2
  None = None
CHECK_DEADLOCK FALSE
PROPERTY JoinsActiveCase
