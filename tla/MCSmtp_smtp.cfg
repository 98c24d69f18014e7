\* Sessions and searches end.
CONSTANTS
    Senders = {"s1", "s2"}
    Recips = {"r1", "r2"}
    Badmailfrom = {"s2"}
    Rcpthosts = {"r1"}
    Relayclient = FALSE
    QqCrashes = TRUE
    Ahead = 0
    MaxCommands = 5
    Verbs = {"rset", "mail", "rcpt", "data", "dot", "text", "noop", "quit"}
    MaxMessages = 2
    MailFrom = "s1"
    MailTo <- MCMailTo
    Allowed = {"r1", "r3"}
    Remotes = {p1, p2}
    Ips = {ipa, ipb, ipc}
    Slots = 2
    Gap = 1
    Hold <- MCHold
    Bonus = 1
    MaxTime = 2
    MaxClean = 1
SPECIFICATION Spec
INVARIANTS VerdictTrue Transparent OneSlot NoLoop AsMeant
PROPERTIES Founded
SYMMETRY Symmetric
CHECK_DEADLOCK FALSE
