\* Two clients compete, die and leave files behind while the clock runs; no recipients.
SPECIFICATION Spec
CONSTANTS
  Ids = {m1, m2}
  NoId = NoId
  Recips = {}
  NoRecip = NoRecip
  DEATH = 1
  OSSIFIED = 2
  MaxFaults = 1
  Clients = {q1, q2}
  Bouncer = bouncer
  ClientSenders = {"user"}
  Reserve = 0
  PidLoop = 1
  Concurrency <- OneEach
  StatFails = FALSE
  TimePasses = TRUE
INVARIANTS QueueStates LiveInjectorSafe
SYMMETRY Symmetry
