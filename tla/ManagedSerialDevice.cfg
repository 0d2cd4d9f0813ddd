\* Clients may use the queue in any way; the modem may answer or be silent.
CONSTANTS
  Size = 3
  Links = 1
  MaxCommands = 3
SPECIFICATION FairSpec
INVARIANTS
  TypeOK
  KeptWhileShallow
  AnswersOwn
PROPERTIES
  Drains
