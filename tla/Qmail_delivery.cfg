\* Two recipients, two local slots: what each run of the jobs does, and the promise.
SPECIFICATION Spec
CONSTANTS
  Ids = {m1}
  NoId = NoId
  Recips = {r1, r2}
  NoRecip = NoRecip
  DEATH = 1
  OSSIFIED = 2
  MaxFaults = 1
  Clients = {q1}
  Bouncer = bouncer
  ClientSenders = {"user"}
  Reserve = 0
  PidLoop = 0
  Concurrency <- TwoLocal
  StatFails = FALSE
  TimePasses = FALSE
INVARIANTS OneJob NoRecipientLost NoNeedlessCopies JobTable
PROPERTIES EndsServed ImplementsService
SYMMETRY Symmetry
