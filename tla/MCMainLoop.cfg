CONSTANTS
  Clients = {c1, c2, c3}
  MaxClients = 2
  MaxQueue = 2
  Host = t0
  Threads = {t0, t1, t2}
  MaxHistory = 3
  Limit = 2
  MaxEvents = 6
  Default = Default
  Values = {Default, other}
  Invalid = Invalid
  MaxEdits = 3
SPECIFICATION LoopSpec
CHECK_DEADLOCK FALSE
INVARIANTS
  NoLostWake
  SlotsCounted
  AnswersMatch
  Audited
  NoEventLost
  NoneListedTwice
  EditsNoticed
PROPERTIES
  ServiceSpec
  QueuedIsCarriedOut
  ShutdownCompletes
  EditsArrive
  TakenEditKept
