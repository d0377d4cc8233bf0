SPECIFICATION FairSpec
CONSTANTS
  None = none
  Texts = {t1, t2}
  Blank = blank
  MaxTimers = 3
  Lines <- MCLines
  NoLine = ""
  Commands <- MCCommands
  Templates <- MCTemplates
  Copies <- MCCopies
  Default = "dft"
  Messages <- MCMessages
  RareMessage <- MCRare
  Requests = {q1, q2}
  Scenarios <- MCScenarios
CHECK_DEADLOCK FALSE
INVARIANTS
  ShownIsKept
PROPERTIES
  PromiseKept
  
