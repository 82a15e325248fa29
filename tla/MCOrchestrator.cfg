CONSTANTS
  i1 = i1
  i2 = i2
  h1 = h1
  Incident <- TwoIncidents
  Http <- OneHandler
  NoRun = NoRun
  NoFile = NoFile
  Generated <- OneSeed
  MaxIncidents = 1
  MaxBoots = 1
  MaxEvents = 2
SPECIFICATION Spec
INVARIANTS
  TypeOK
  DrivenOnce
  SingleResume
  InFlightBounded
  DiskFollowsMemory
CHECK_DEADLOCK FALSE
