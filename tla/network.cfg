SPECIFICATION NetFairSpec
CONSTANTS
  c1 = c1
  c2 = c2
  c3 = c3
  Conns = {c1, c2, c3}
  Scenes <- MCScenes
  OutCap = 32768
  cr = cr
  nl = nl
  Lines <- MCLines
  CR = cr
  NL = nl
  MaxLine = 10
  MaxLines = 2
  Cap = 14
  Chunk = 4
  LineCap = 10
INVARIANTS NetTypeOK AnswerIsOwn
PROPERTIES CallsServed AnswersInOrder NoLineWaits
CHECK_DEADLOCK FALSE
