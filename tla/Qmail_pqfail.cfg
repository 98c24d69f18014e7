\* A message put in pqfail at startup and preprocessed since.
SPECIFICATION Spec
CONSTANTS
  Ids = {m1}
  NoId = NoId
  Recips = {r1}
  NoRecip = NoRecip
  DEATH = 1
  OSSIFIED = 2
  MaxFaults = 2
  Clients = {q1}
  Bouncer = bouncer
  ClientSenders = {"user"}
  Reserve = 0
  PidLoop = 0
  Concurrency <- TwoLocal
  StatFails = TRUE
  TimePasses = FALSE
INVARIANTS OnlyNotDoneTried
