---------------------------------- MODULE Start -------------------------------
(***************************************************************************)
(* qmail-start: six pipes, or seven with a logger, and the five programs   *)
(* at their ends.  main() is a sequence of system calls, and so is what    *)
(* each child does before it becomes its program.                          *)
(***************************************************************************)
EXTENDS Integers, Sequences, FiniteSetsExt, Functions, TLC

CONSTANTS Opens,        \* sets of descriptors that qmail-start inherits
          Loggers,      \* is there an argument behind the default delivery?
          MaxFaults     \* calls that fail and programs that die on their own

VARIABLES logger, fds,  \* fds[p]: descriptor -> [pipe, end]
          pi,           \* pi[k][end]: the descriptor that pipe() chose
          script, state,        \* calls to come; "none", "runs", "executes" or "gone"
          faults

vars == <<logger, fds, pi, script, state, faults>>

Processes == {"send", "lspawn", "rspawn", "clean", "logger"}
Pipes == 0 .. 6
R == 0
W == 1
Other == [pipe |-> -1, end |-> R]       \* inherited

\* A descriptor is a number, or the end of a pipe wherever that is.
Fd(n) == [pipe |-> -1, end |-> n]
Pi(k, e) == [pipe |-> k, end |-> e]
Number(d) == IF d.pipe = -1 THEN d.end ELSE pi[d.pipe][d.end]

Copy(n, d) == [call |-> "copy", to |-> n, from |-> d]
Close(ds) == [call |-> "close", of |-> ds]
Pipe(k) == [call |-> "pipe", k |-> k]
Fork(p) == [call |-> "fork", child |-> p]
Prot == [call |-> "prot"]
Exec == [call |-> "exec"]
Move(n, d) == [call |-> "move", to |-> n, from |-> d]

Close23456 == Close({Fd(n) : n \in 2 .. 6})

(* Mutant of Closepipes: the first pipe is forgotten.                      *)
ClosepipesFew == Close({Pi(k, e) : k \in 2 .. 6, e \in {R, W}})
Closepipes == Close({Pi(k, e) : k \in 1 .. 6, e \in {R, W}})

Child(p) ==
    CASE p = "logger" -> <<Prot, Close({Pi(0, W)})>> \o <<Move(0, Pi(0, R)), Close23456, Exec>>
      [] p = "lspawn" -> <<Copy(0, Pi(1, R)), Copy(1, Pi(2, W)), Close23456, Closepipes, Exec>>
      [] p = "rspawn" -> <<Prot, Copy(0, Pi(3, R)), Copy(1, Pi(4, W)), Close23456, Closepipes, Exec>>
      [] p = "clean" -> <<Prot, Copy(0, Pi(5, R)), Copy(1, Pi(6, W)), Close23456, Closepipes, Exec>>

(* Mutant of Reserve: one too few.                                         *)
ReserveLess == [n \in 1 .. 4 |-> Copy(n + 1, Fd(0))]

\* The descriptors that qmail-send wants are taken before there are pipes.
Reserve == [n \in 1 .. 5 |-> Copy(n + 1, Fd(0))]

Main == <<Prot>> \o Reserve
        \o (IF logger THEN <<Pipe(0), Fork("logger"), Close({Pi(0, R)}), Move(1, Pi(0, W))>> ELSE <<>>)
        \o [k \in 1 .. 6 |-> Pipe(k)]
        \o <<Fork("lspawn"), Fork("rspawn"), Fork("clean"), Prot, Copy(0, Fd(1))>>
        \o [n \in 1 .. 6 |-> Copy(n, Pi(n, n % 2))]
        \o <<Closepipes, Exec>>

Init ==
    /\ logger \in Loggers /\ faults = 0
    /\ \E ds \in Opens : fds = [p \in Processes |-> [n \in (IF p = "send" THEN ds ELSE {}) |-> Other]]
    /\ pi = [k \in Pipes |-> <<>>]
    /\ script = [p \in Processes |-> IF p = "send" THEN Main ELSE Child(p)]
    /\ state = [p \in Processes |-> IF p = "send" THEN "runs" ELSE "none"]

-----------------------------------------------------------------------------
Live(p) == state[p] \in {"runs", "executes"}
Call(p) == Head(script[p])
Calls(p, kind) == state[p] = "runs" /\ Call(p).call = kind
Done(p) == script' = [script EXCEPT ![p] = Tail(@)] /\ UNCHANGED <<logger, faults>>

Gone(p) == state' = [state EXCEPT ![p] = "gone"] /\ fds' = [fds EXCEPT ![p] = <<>>]

Without(f, ns) == Restrict(f, DOMAIN f \ ns)

\* fd_copy() and fd_move() do nothing if the descriptor is in its place.
Copies(p) ==
    /\ Calls(p, "copy") \/ Calls(p, "move")
    /\ LET c == Call(p) from == Number(c.from) IN
       /\ from \in DOMAIN fds[p]
       /\ fds' = [fds EXCEPT ![p] =
                    IF from = c.to THEN @
                    ELSE LET copied == (c.to :> @[from]) @@ @ IN
                         IF c.call = "move" THEN Without(copied, {from}) ELSE copied]
    /\ Done(p) /\ UNCHANGED <<pi, state>>

Closes(p) ==
    /\ Calls(p, "close")
    /\ fds' = [fds EXCEPT ![p] = Without(@, {Number(d) : d \in Call(p).of})]
    /\ Done(p) /\ UNCHANGED <<pi, state>>

\* The two least numbers that are free.
MakesPipe(p) ==
    /\ Calls(p, "pipe")
    /\ LET k == Call(p).k
           free == 0 .. 30 \ DOMAIN fds[p]
           r == Min(free) w == Min(free \ {Min(free)}) IN
       /\ pi' = [pi EXCEPT ![k] = (R :> r) @@ (W :> w)]
       /\ fds' = [fds EXCEPT ![p] = (r :> Pi(k, R)) @@ (w :> Pi(k, W)) @@ @]
    /\ Done(p) /\ UNCHANGED state

Forks(p) ==
    /\ Calls(p, "fork")
    /\ fds' = [fds EXCEPT ![Call(p).child] = fds[p]]
    /\ state' = [state EXCEPT ![Call(p).child] = "runs"]
    /\ Done(p) /\ UNCHANGED pi

\* prot_gid(), prot_uid(); and the program at last.
Changes(p) == Calls(p, "prot") /\ Done(p) /\ UNCHANGED <<pi, fds, state>>

Executes(p) ==
    /\ Calls(p, "exec") /\ state' = [state EXCEPT ![p] = "executes"]
    /\ Done(p) /\ UNCHANGED <<pi, fds>>

\* die(): a descriptor is closed, or some other call fails.
Dies(p) ==
    /\ state[p] = "runs"
    /\ \/ /\ Call(p).call \in {"copy", "move"} /\ Number(Call(p).from) \notin DOMAIN fds[p]
          /\ UNCHANGED faults
       \/ Call(p).call # "close" /\ faults < MaxFaults /\ faults' = faults + 1
    /\ Gone(p) /\ UNCHANGED <<logger, pi, script>>

-----------------------------------------------------------------------------
EndOfFile(p, n) ==
    /\ n \in DOMAIN fds[p] /\ fds[p][n].pipe # -1
    /\ \A q \in Processes : Live(q) => Pi(fds[p][n].pipe, W) \notin Range(fds[q])

\* qmail-send sees the spawners' end, the others that of their orders.
Ends(p) ==
    /\ state[p] = "executes"
    /\ \E n \in IF p = "send" THEN {2, 4} ELSE {0} : EndOfFile(p, n)
    /\ Gone(p) /\ UNCHANGED <<logger, pi, script, faults>>

\* SIGTERM for qmail-send, or a program is killed.
Killed(p) ==
    /\ state[p] = "executes" /\ faults < MaxFaults /\ faults' = faults + 1
    /\ Gone(p) /\ UNCHANGED <<logger, pi, script>>

Step(p) ==
    \/ Copies(p) \/ Closes(p) \/ MakesPipe(p) \/ Forks(p) \/ Changes(p) \/ Executes(p)
    \/ Ends(p)

Next == \E p \in Processes : Step(p) \/ Dies(p) \/ Killed(p)

Spec == Init /\ [][Next]_vars

-----------------------------------------------------------------------------
Wants(p) ==
    CASE p = "send" -> [n \in 0 .. 6 |-> IF n = 0 THEN (IF logger THEN Pi(0, W) ELSE Other)
                                         ELSE Pi(n, n % 2)]
      [] p = "logger" -> (0 :> Pi(0, R))
      [] p = "lspawn" -> (0 :> Pi(1, R)) @@ (1 :> Pi(2, W))
      [] p = "rspawn" -> (0 :> Pi(3, R)) @@ (1 :> Pi(4, W))
      [] p = "clean" -> (0 :> Pi(5, R)) @@ (1 :> Pi(6, W))

(* Every program has the ends of the pipes where it looks for them, and no *)
(* other end: a writing end that somebody kept would be an end of file     *)
(* that is never seen.                                                     *)
Wired ==
    \A p \in Processes : state[p] = "executes" =>
        /\ \A n \in DOMAIN Wants(p) : n \in DOMAIN fds[p] /\ fds[p][n] = Wants(p)[n]
        /\ \A n \in DOMAIN fds[p] \ DOMAIN Wants(p) : fds[p][n] = Other /\ n \notin 2 .. 6
=============================================================================
