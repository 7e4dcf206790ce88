SPECIFICATION Spec
CONSTANTS
  Thread = {t1, t2}
  Ticks = {1}
  MaxEdits = 2
  MaxRequests = 2
INVARIANT AnswersAreFresh
CHECK_DEADLOCK FALSE
