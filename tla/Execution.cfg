SPECIFICATION Spec
CONSTANTS
  streamer = streamer
  banker = banker
  Task = {streamer, banker}
  Connection = {c1}
  Calls <- MCCalls
  MaxWrites = 1
  None = None
INVARIANTS
  TypeOK
  EveryConnectionHasItsPlace
  AnEndSaysWhatRan
  NoRowIsLeftOut
PROPERTIES
  EveryAwaitEnds
  ImplementsUnitOfWork
