\* After two faults the queue still gets empty.
SPECIFICATION FairSpec
CONSTANTS
  Ids = {m1}
  NoId = NoId
  Recips = {r1}
  NoRecip = NoRecip
  DEATH = 1
  OSSIFIED = 2
  MaxFaults = 2
  Clients = {q1}
  Bouncer = bouncer
  ClientSenders = {"triple"}
  Reserve = 0
  PidLoop = 0
  Concurrency <- OneEach
  StatFails = TRUE
  TimePasses = TRUE
INVARIANTS NothingStranded
PROPERTIES LeftoversVanish Drains
