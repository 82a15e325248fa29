CONSTANTS
  e1 = e1
  e2 = e2
  Emitter <- OneEmitter
  NoFile = NoFile
  NoEvent = NoEvent
  QueueSize = 1
  MaxEmits = 4
  MaxRecords = 2
  MaxBoots = 1
  MaxConnects = 2
SPECIFICATION LiveSpec
INVARIANTS
  TypeOK
  ChainVerifies
  NoGap
PROPERTIES
  ImplementsLog
  EventsArrive
CHECK_DEADLOCK FALSE
