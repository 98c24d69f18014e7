\* Bounces and double bounces: one message number for the message, one for its bounce.
SPECIFICATION Spec
CONSTANTS
  Ids = {m1, m2}
  NoId = NoId
  Recips = {r1}
  NoRecip = NoRecip
  DEATH = 1
  OSSIFIED = 2
  MaxFaults = 1
  Clients = {q1}
  Bouncer = bouncer
  ClientSenders = {"user"}
  Reserve = 1
  PidLoop = 1
  Concurrency <- OneEach
  StatFails = FALSE
  TimePasses = TRUE
INVARIANTS TypeOK Durable
PROPERTIES BounceHeard
SYMMETRY Symmetry
