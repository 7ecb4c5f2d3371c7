SPECIFICATION Spec
CONSTANTS
  c1 = c1
  c2 = c2
  m1 = m1
  Copies = {c1, c2}
  MailOf <- TwoCopies
  Parent <- AnswersOurs
  Ours = Ours
  Kinds = {"delivery", "hard"}
  Slow = {r1}
  AutoTask <- OpensTask
  Pauses = TRUE
  Statuses = {"waiting_reply", "resolved"}
  MaxOut = 1
  MaxWork = 2
  MaxFailures = 1
  Gone = Gone
  None = None
CHECK_DEADLOCK FALSE
INVARIANT TypeOK FateIsWorstReported PausedIsWaiting
PROPERTY MailPromise MailArrives
