SPECIFICATION Spec
CONSTANTS
  Runs = {cron, web}
  Scheduled = cron
  Editors = {e1}
  NumTemplates = 2
  Intervals = {1}
  Limits = {2}
  Horizon = 2
  MaxEdits = 1
  MaxCrashes = 1
  Firsts <- Begin
  Every = {1, 5, 12}
  Steps = 13
  None = None
CHECK_DEADLOCK FALSE
INVARIANT TypeOK RunsAreCurrent OneTaskPerSlot NothingEarly
PROPERTY GeneratesOnlyEnabled LeavesNoSlot CatchesUp
