--------------------------- MODULE GatewayInstance ---------------------------
(***************************************************************************)
(* One named gateway instance (src/instance.go): the command-line          *)
(* processes that attach to it, start it, stop it and list it, the flock   *)
(* and the socket files they share, and the daemon that serves them.       *)
(*                                                                         *)
(* A client is one pi-square process and, once attached, the session it    *)
(* launches.  A daemon is one gateway process; it stands for the           *)
(* credential and the CA it holds, so "attached to d" also says whose CA   *)
(* the session trusts.  Daemons and connections are pools of slots: a slot *)
(* is taken again once nothing refers to it, so behaviours are unbounded.  *)
(***************************************************************************)
EXTENDS Integers, FiniteSets

CONSTANTS Clients,   \* pi-square processes on the host
          Daemons,   \* slots for gateway daemon processes
          Conns,     \* slots for connections to a management socket
          Ops,       \* the commands the clients of this instance run
          Faults,    \* what the environment may do wrong
          Protocols, \* the gatewayProtocol of the binaries installed
          None       \* no client, no daemon, no connection

AllOps == {"attachDefault", "attachNamed", "start", "stop", "forceStop", "list"}
AllFaults == {"kill", "crash", "timeout", "spawn", "accept"}

ASSUME ConstantsAssumption ==
    /\ Ops \subseteq AllOps
    /\ Faults \subseteq AllFaults
    /\ Protocols \subseteq Nat
    /\ None \notin Clients \cup Daemons \cup Conns
    /\ IsFiniteSet(Conns)

VARIABLES
    lock,     \* the client holding the flock on the instance directory
    path,     \* which daemon created each socket file; None: no such file
    pc,       \* where each client is in its command
    op,       \* the command each client runs
    bin,      \* the gatewayProtocol of the binary it runs
    conn,     \* the connection each client holds
    child,    \* the daemon each client spawned
    phase,    \* how far each daemon's main goroutine is
    proto,    \* the gatewayProtocol of the binary each daemon runs
    active,   \* each daemon's count of live attachments
    link      \* both ends of every connection

clientVars == <<pc, op, bin, conn, child>>
daemonVars == <<phase, proto, active>>
vars == <<lock, path, clientVars, daemonVars, link>>

Sockets == {"management", "ro", "rw"}

\* probing, polling, attaching: a request is sent and its answer awaited.
ClientStates == {"idle", "lock", "probe", "probing", "remove", "spawn",
                 "handoff", "poll", "polling", "attach", "attaching",
                 "drain", "attached"}

\* boot: no credential yet; keyed, ro, rw: listeners still to open;
\* broken, brokenRW, brokenM: the accept loop failed, and ro, then rw, then the
\* management listener is to be closed; closing, closeRW, exit: the same, but the
\* management listener is closed already.
DaemonPhases == {"dead", "boot", "keyed", "ro", "rw", "serving",
                 "broken", "brokenRW", "brokenM", "closing", "closeRW", "exit"}

Verbs == {"health", "attach", "stop", "forceStop"}
Replies == {"none", "ok", "refused", "mismatch"}

\* srv is the daemon's side: in the listen backlog, accepted by a handler
\* goroutine, or where that goroutine is; open is the client's side.
Link == [srv : {"queued", "reading", "attached", "stopping", "stopped", "gone"},
         open : BOOLEAN,
         from : Clients \cup {None},
         to : Daemons \cup {None},
         version : Nat,
         verb : Verbs,
         reply : Replies]

FreeLink == [srv |-> "gone", open |-> FALSE, from |-> None, to |-> None,
             version |-> 0, verb |-> "health", reply |-> "none"]

Alive(d) == phase[d] # "dead"

\* A slot nothing refers to any more: a new process may take it.
FreeDaemon(d) ==
    /\ phase[d] = "dead"
    /\ \A s \in Sockets : path[s] # d
    /\ \A k \in Conns : link[k].to # d
    /\ \A c \in Clients : child[c] # d

FreeConn(k) == link[k].srv = "gone" /\ ~link[k].open

Init ==
    /\ lock = None
    /\ path = [s \in Sockets |-> None]
    /\ pc = [c \in Clients |-> "idle"]
    /\ op = [c \in Clients |-> "list"]   \* of no meaning while idle
    /\ bin = [c \in Clients |-> 0]
    /\ conn = [c \in Clients |-> None]
    /\ child = [c \in Clients |-> None]
    /\ phase = [d \in Daemons |-> "dead"]
    /\ proto = [d \in Daemons |-> 0]
    /\ active = [d \in Daemons |-> 0]
    /\ link = [k \in Conns |-> FreeLink]

-----------------------------------------------------------------------------
(* Connections. *)

\* A connection both ends have closed is a free slot again.
Collapse(l) == IF l.srv = "gone" /\ ~l.open THEN FreeLink ELSE l

\* The connections once the process of daemon d is gone: the kernel closes
\* its end of each.
Hangup(d) ==
    [k \in Conns |-> IF link[k].to = d
                     THEN Collapse([link[k] EXCEPT !.srv = "gone"])
                     ELSE link[k]]

ClientClosed(k) == [link EXCEPT ![k] = Collapse([@ EXCEPT !.open = FALSE])]

\* The handler returns after it sent reply r ("none": it sent nothing more).
ServerClosed(k, r) ==
    [link EXCEPT ![k] = Collapse([@ EXCEPT !.srv = "gone", !.reply = r])]

-----------------------------------------------------------------------------
(* Clients. *)

\* Defect: the flock lives as long as the session.
GoSessionKeepsLock(c, s) ==
    /\ pc' = [pc EXCEPT ![c] = s]
    /\ op' = [op EXCEPT ![c] = IF s = "idle" THEN "list" ELSE @]
    /\ bin' = [bin EXCEPT ![c] = IF s = "idle" THEN 0 ELSE @]
    /\ child' = [child EXCEPT ![c] = IF s \in {"poll", "polling"} THEN @ ELSE None]
    /\ lock' = IF s = "idle" /\ lock = c THEN None ELSE lock

\* The client moves to s.  The flock is a deferred Close: it goes with the
\* command's return, which for an attachment is where the session starts.
Go(c, s) ==
    /\ pc' = [pc EXCEPT ![c] = s]
    /\ op' = [op EXCEPT ![c] = IF s = "idle" THEN "list" ELSE @]
    /\ bin' = [bin EXCEPT ![c] = IF s = "idle" THEN 0 ELSE @]
    /\ child' = [child EXCEPT ![c] = IF s \in {"poll", "polling"} THEN @ ELSE None]
    /\ lock' = IF s \in {"idle", "attached"} /\ lock = c THEN None ELSE lock

Drop(c) ==
    /\ conn' = [conn EXCEPT ![c] = None]
    /\ link' = IF conn[c] = None THEN link ELSE ClientClosed(conn[c])

\* Give the command up, closing what it holds.
Fail(c) == Go(c, "idle") /\ Drop(c) /\ UNCHANGED path

IsAttach(o) == o \in {"attachDefault", "attachNamed"}
MayStart(o) == o \in {"attachDefault", "start"}

\* Defect: the request names the command instead of the operation.
VerbIsCommand(c) == IF pc[c] \in {"poll", "attach"} THEN "health" ELSE op[c]

\* The operation a client puts in the request of its next probe.
Verb(c) ==
    CASE pc[c] = "poll" -> "health"
      [] pc[c] = "attach" -> "attach"
      [] pc[c] = "probe" /\ IsAttach(op[c]) -> "attach"
      [] pc[c] = "probe" /\ op[c] \in {"stop", "forceStop"} -> op[c]
      [] OTHER -> "health"

\* Defect: a daemon of another protocol is replaced like an unhealthy one.
SettledReplacesMismatch(c, r) ==
    LET poll == pc[c] \in {"poll", "polling"}
        first == pc[c] \in {"probe", "probing"}
    IN CASE poll /\ r = "ok" /\ IsAttach(op[c]) -> "attach"
         [] poll /\ r # "ok" -> "poll"
         [] ~poll /\ r = "ok" /\ IsAttach(op[c]) -> "attached"
         [] first /\ r = "ok" /\ op[c] \in {"stop", "forceStop"} -> "drain"
         [] first /\ r # "ok" /\ MayStart(op[c]) -> "remove"
         [] OTHER -> "idle"

\* Where the outcome r of a probe leads: "absent" is ENOENT, "down" a refused,
\* broken or timed out connection, the others are replies.  "idle" ends the
\* command, with success or with an error.
Settled(c, r) ==
    LET poll == pc[c] \in {"poll", "polling"}
        first == pc[c] \in {"probe", "probing"}
    IN CASE poll /\ r = "ok" /\ IsAttach(op[c]) -> "attach"
         [] poll /\ r \notin {"ok", "mismatch"} -> "poll"
         [] ~poll /\ r = "ok" /\ IsAttach(op[c]) -> "attached"
         [] first /\ r = "ok" /\ op[c] \in {"stop", "forceStop"} -> "drain"
         [] first /\ r \notin {"ok", "mismatch"} /\ MayStart(op[c]) -> "remove"
         [] OTHER -> "idle"

\* probeInstance returns r; it keeps the connection open on success only, and
\* a health probe's caller closes it then.
Settle(c, r) ==
    /\ Go(c, Settled(c, r))
    /\ IF Settled(c, r) \in {"drain", "attached"} THEN UNCHANGED <<conn, link>> ELSE Drop(c)
    /\ UNCHANGED <<path, daemonVars>>

\* The user runs a command.  gateway list takes no lock.  (A named attach to
\* an instance that never existed changes nothing and is left out.)
Begin(c, o, v) ==
    /\ pc[c] = "idle"
    /\ pc' = [pc EXCEPT ![c] = IF o = "list" THEN "probe" ELSE "lock"]
    /\ op' = [op EXCEPT ![c] = o]
    /\ bin' = [bin EXCEPT ![c] = v]
    /\ UNCHANGED <<lock, path, conn, child, daemonVars, link>>

Lock(c) ==
    /\ pc[c] = "lock"
    /\ lock = None
    /\ lock' = c
    /\ pc' = [pc EXCEPT ![c] = "probe"]
    /\ UNCHANGED <<path, op, bin, conn, child, daemonVars, link>>

\* Connecting needs a file and a process that listens behind it, whether it
\* accepts or not.
OpenPhases == {"serving", "broken", "brokenRW", "brokenM"}
Listening(d) == d # None /\ phase[d] \in OpenPhases

Awaiting(s) == CASE s = "probe" -> "probing"
                 [] s = "poll" -> "polling"
                 [] OTHER -> "attaching"

DialFails(c) ==
    /\ pc[c] \in {"probe", "poll", "attach"}
    /\ ~Listening(path["management"])
    /\ Settle(c, IF path["management"] = None THEN "absent" ELSE "down")

\* Connect to the management socket and send the request.
Dial(c) ==
    /\ pc[c] \in {"probe", "poll", "attach"}
    /\ Listening(path["management"])
    /\ \E k \in Conns :
        /\ FreeConn(k)
        /\ conn' = [conn EXCEPT ![c] = k]
        /\ link' = [link EXCEPT ![k] = [srv |-> "queued", open |-> TRUE, from |-> c,
                                        to |-> path["management"], version |-> bin[c],
                                        verb |-> Verb(c), reply |-> "none"]]
    /\ pc' = [pc EXCEPT ![c] = Awaiting(@)]
    /\ UNCHANGED <<lock, path, op, bin, child, daemonVars>>

Waiting(c) == pc[c] \in {"probing", "polling", "attaching"}

GetReply(c) ==
    /\ Waiting(c)
    /\ link[conn[c]].reply # "none"
    /\ Settle(c, link[conn[c]].reply)

ConnReset(c) ==
    /\ Waiting(c)
    /\ link[conn[c]].srv = "gone"
    /\ link[conn[c]].reply = "none"
    /\ Settle(c, "down")

\* The two-second deadline of a probe passes before the answer arrives.
ProbeTimeout(c) ==
    /\ "timeout" \in Faults
    /\ Waiting(c)
    /\ Settle(c, "down")

\* No GitHub token on the host: nothing was changed yet.
TokenFails(c) == pc[c] = "remove" /\ Fail(c) /\ UNCHANGED daemonVars

RemoveSockets(c) ==
    /\ pc[c] = "remove"
    /\ path' = [s \in Sockets |-> None]
    /\ pc' = [pc EXCEPT ![c] = "spawn"]
    /\ UNCHANGED <<lock, op, bin, conn, child, daemonVars, link>>

\* Pipe, log file or process creation fails, the sockets being gone.
SpawnFails(c) ==
    /\ "spawn" \in Faults
    /\ pc[c] = "spawn"
    /\ Fail(c)
    /\ UNCHANGED daemonVars

Spawn(c) ==
    /\ pc[c] = "spawn"
    /\ \E d \in Daemons :
        /\ FreeDaemon(d)
        /\ phase' = [phase EXCEPT ![d] = "boot"]
        /\ proto' = [proto EXCEPT ![d] = bin[c]]
        /\ child' = [child EXCEPT ![c] = d]
    /\ pc' = [pc EXCEPT ![c] = "handoff"]
    /\ UNCHANGED <<lock, path, op, bin, conn, active, link>>

\* The token goes down the pipe to the child.
HandOff(c) ==
    /\ pc[c] = "handoff"
    /\ Alive(child[c])
    /\ phase' = [phase EXCEPT ![child[c]] = "keyed"]
    /\ pc' = [pc EXCEPT ![c] = "poll"]
    /\ UNCHANGED <<lock, path, op, bin, conn, child, proto, active, link>>

HandOffFails(c) ==
    /\ pc[c] = "handoff"
    /\ ~Alive(child[c])
    /\ Fail(c)
    /\ UNCHANGED daemonVars

\* A process is gone: its connections are hung up, its socket files stay.
Dies(d) ==
    /\ phase' = [phase EXCEPT ![d] = "dead"]
    /\ proto' = [proto EXCEPT ![d] = 0]
    /\ active' = [active EXCEPT ![d] = 0]

\* Defect: no deadline where the child is gone.
PollForAlive(c) ==
    /\ pc[c] = "poll"
    /\ "timeout" \in Faults
    /\ Dies(child[c])
    /\ Go(c, "idle")
    /\ link' = Hangup(child[c])
    /\ UNCHANGED <<path, conn>>

\* Ten seconds without a healthy answer: kill the child and give up.  (The
\* Signal(0) test before each sleep succeeds on an unreaped child, so a dead
\* child too is found out by this deadline only.)
PollDeadline(c) ==
    /\ pc[c] = "poll"
    /\ ~Alive(child[c]) \/ "timeout" \in Faults
    /\ Dies(child[c])
    /\ Go(c, "idle")
    /\ link' = Hangup(child[c])
    /\ UNCHANGED <<path, conn>>

\* stopInstance reads until the daemon closes the connection.
AwaitEOF(c) ==
    /\ pc[c] = "drain"
    /\ link[conn[c]].srv = "gone"
    /\ Fail(c)
    /\ UNCHANGED daemonVars

StopTimeout(c) ==
    /\ "timeout" \in Faults
    /\ pc[c] = "drain"
    /\ Fail(c)
    /\ UNCHANGED daemonVars

\* The sandbox exits and run() returns, or its supervisor sees the attachment
\* end and closes the session.
EndSession(c) == pc[c] = "attached" /\ Fail(c) /\ UNCHANGED daemonVars

SessionLost(c) ==
    /\ pc[c] = "attached"
    /\ link[conn[c]].srv = "gone"
    /\ Fail(c)
    /\ UNCHANGED daemonVars

\* SIGKILL.  A child still waiting for its credential reads an empty one.
Kill(c) ==
    /\ "kill" \in Faults
    /\ pc[c] # "idle"
    /\ IF pc[c] = "handoff" THEN Dies(child[c]) ELSE UNCHANGED daemonVars
    /\ Fail(c)

-----------------------------------------------------------------------------
(* Daemons. *)

\* net.Listen on a path: a file that is there already, whoever made it, is
\* EADDRINUSE, on which the process exits with the files it made left behind.
Listen(d, from, s, to) ==
    /\ phase[d] = from
    /\ IF path[s] = None
       THEN /\ phase' = [phase EXCEPT ![d] = to]
            /\ path' = [path EXCEPT ![s] = d]
            /\ UNCHANGED <<proto, active>>
       ELSE Dies(d) /\ UNCHANGED path
    /\ UNCHANGED <<lock, clientVars, link>>

ListenRO(d) == Listen(d, "keyed", "ro", "ro")
ListenRW(d) == Listen(d, "ro", "rw", "rw")
ListenManagement(d) == Listen(d, "rw", "management", "serving")

Accept(d, k) ==
    /\ phase[d] = "serving"
    /\ link[k].to = d
    /\ link[k].srv = "queued"
    /\ link' = [link EXCEPT ![k].srv = "reading"]
    /\ UNCHANGED <<lock, path, clientVars, daemonVars>>

\* Defect: stop does not look at the live attachments.
AnswerAnyStop(d, k) == IF proto[d] # link[k].version THEN "mismatch" ELSE "ok"

\* What the handler of k answers, under the daemon's mutex.
Answer(d, k) ==
    IF proto[d] # link[k].version THEN "mismatch"
    ELSE IF link[k].verb = "stop" /\ active[d] # 0 THEN "refused" ELSE "ok"

\* The handler reads a request and answers it.  Whether the client still
\* waits makes no difference: the write error is ignored.
Handle(d, k) ==
    /\ link[k].to = d
    /\ link[k].srv = "reading"
    /\ LET r == Answer(d, k)
           next == CASE link[k].verb = "attach" -> "attached"
                     [] link[k].verb \in {"stop", "forceStop"} -> "stopping"
                     [] OTHER -> "gone"
       IN /\ active' = IF r = "ok" /\ next = "attached"
                       THEN [active EXCEPT ![d] = @ + 1] ELSE active
          /\ link' = IF r = "ok" /\ next # "gone"
                     THEN [link EXCEPT ![k].srv = next, ![k].reply = r]
                     ELSE ServerClosed(k, r)
    /\ UNCHANGED <<lock, path, clientVars, phase, proto>>

\* Defects: the request's read deadline stays on the attachment; the handler
\* forgets to uncount.
DetachOnDeadline(d, k) ==
    /\ link[k].to = d
    /\ link[k].srv = "attached"
    /\ active' = [active EXCEPT ![d] = @ - 1]
    /\ link' = ServerClosed(k, link[k].reply)
    /\ UNCHANGED <<lock, path, clientVars, phase, proto>>

DetachUncounted(d, k) ==
    /\ link[k].to = d
    /\ link[k].srv = "attached"
    /\ ~link[k].open
    /\ link' = ServerClosed(k, link[k].reply)
    /\ UNCHANGED <<lock, path, clientVars, daemonVars>>

\* The attachment's copy loop reads EOF.
Detach(d, k) ==
    /\ link[k].to = d
    /\ link[k].srv = "attached"
    /\ ~link[k].open
    /\ active' = [active EXCEPT ![d] = @ - 1]
    /\ link' = ServerClosed(k, link[k].reply)
    /\ UNCHANGED <<lock, path, clientVars, phase, proto>>

\* Defect: the stop handler forgets l.Close().
CloseNothing(d, k) ==
    /\ link[k].to = d
    /\ link[k].srv = "stopping"
    /\ link' = [link EXCEPT ![k].srv = "stopped"]
    /\ UNCHANGED <<lock, path, clientVars, daemonVars>>

\* Closing the management listener removes the file of that name, whoever made
\* it, and resets the connections still in the backlog.
CloseManagement == path' = [path EXCEPT !["management"] = None]

Reset(d) ==
    [k \in Conns |-> IF link[k].to = d /\ link[k].srv = "queued"
                     THEN Collapse([link[k] EXCEPT !.srv = "gone"])
                     ELSE link[k]]

\* Where the main goroutine is once the listener is closed under it: its accept
\* loop ends, and its own Close of that listener will do nothing.
Closed(p) == CASE p \in {"serving", "broken"} -> "closing"
               [] p = "brokenRW" -> "closeRW"
               [] p = "brokenM" -> "exit"

\* Defect: the stop handler leaves the listener to the accept loop it wakes,
\* and there may be none.
CloseWhenServing(d, k) ==
    /\ link[k].to = d
    /\ link[k].srv = "stopping"
    /\ IF phase[d] = "serving"
       THEN /\ phase' = [phase EXCEPT ![d] = "closing"]
            /\ CloseManagement
            /\ link' = [Reset(d) EXCEPT ![k].srv = "stopped"]
       ELSE /\ link' = [link EXCEPT ![k].srv = "stopped"]
            /\ UNCHANGED <<phase, path>>
    /\ UNCHANGED <<lock, clientVars, proto, active>>

\* once.Do(close(stopping); l.Close()): the first stop handler closes the
\* management listener, unless the main goroutine did.
CloseListener(d, k) ==
    /\ link[k].to = d
    /\ link[k].srv = "stopping"
    /\ IF phase[d] \in OpenPhases
       THEN /\ phase' = [phase EXCEPT ![d] = Closed(@)]
            /\ CloseManagement
            /\ link' = [Reset(d) EXCEPT ![k].srv = "stopped"]
       ELSE /\ link' = [link EXCEPT ![k].srv = "stopped"]
            /\ UNCHANGED <<phase, path>>
    /\ UNCHANGED <<lock, clientVars, proto, active>>

CloseConn(d, k) ==
    /\ link[k].to = d
    /\ link[k].srv = "stopped"
    /\ link' = ServerClosed(k, link[k].reply)
    /\ UNCHANGED <<lock, path, clientVars, daemonVars>>

\* l.Accept returns an error the listener's end has no part in, as when the
\* process is out of descriptors: the loop ends, and with it the daemon.
AcceptFails(d) ==
    /\ "accept" \in Faults
    /\ phase[d] = "serving"
    /\ phase' = [phase EXCEPT ![d] = "broken"]
    /\ UNCHANGED <<lock, path, clientVars, proto, active, link>>

\* The main goroutine, out of its accept loop, closes the other listeners;
\* each close removes the file of that name.
Shut(d, from, s, to) ==
    /\ phase[d] = from
    /\ phase' = [phase EXCEPT ![d] = to]
    /\ path' = [path EXCEPT ![s] = None]
    /\ UNCHANGED <<lock, clientVars, proto, active, link>>

ShutRO(d) == Shut(d, "closing", "ro", "closeRW") \/ Shut(d, "broken", "ro", "brokenRW")
ShutRW(d) == Shut(d, "closeRW", "rw", "exit") \/ Shut(d, "brokenRW", "rw", "brokenM")

\* ... and the management listener, which no stop has closed.
ShutManagement(d) ==
    /\ phase[d] = "brokenM"
    /\ phase' = [phase EXCEPT ![d] = "exit"]
    /\ CloseManagement
    /\ link' = Reset(d)
    /\ UNCHANGED <<lock, clientVars, proto, active>>

Exit(d) ==
    /\ phase[d] = "exit"
    /\ Dies(d)
    /\ link' = Hangup(d)
    /\ UNCHANGED <<lock, path, clientVars>>

Crash(d) ==
    /\ "crash" \in Faults
    /\ Alive(d)
    /\ Dies(d)
    /\ link' = Hangup(d)
    /\ UNCHANGED <<lock, path, clientVars>>

-----------------------------------------------------------------------------

ClientStep(c) ==
    \/ Lock(c) \/ DialFails(c) \/ Dial(c) \/ GetReply(c) \/ ConnReset(c)
    \/ TokenFails(c) \/ RemoveSockets(c) \/ SpawnFails(c) \/ Spawn(c)
    \/ HandOff(c) \/ HandOffFails(c) \/ PollDeadline(c) \/ AwaitEOF(c)
    \/ SessionLost(c)

UserStep(c) ==
    \/ \E o \in Ops, v \in Protocols : Begin(c, o, v)
    \/ EndSession(c) \/ Kill(c) \/ ProbeTimeout(c) \/ StopTimeout(c)

DaemonStep(d) ==
    \/ ListenRO(d) \/ ListenRW(d) \/ ListenManagement(d)
    \/ ShutRO(d) \/ ShutRW(d) \/ ShutManagement(d) \/ Exit(d)

HandlerStep(d, k) ==
    \/ Accept(d, k) \/ Handle(d, k) \/ Detach(d, k)
    \/ CloseListener(d, k) \/ CloseConn(d, k)

Next ==
    \/ \E c \in Clients : ClientStep(c) \/ UserStep(c)
    \/ \E d \in Daemons : DaemonStep(d) \/ Crash(d) \/ AcceptFails(d)
    \/ \E d \in Daemons, k \in Conns : HandlerStep(d, k)

Spec == Init /\ [][Next]_vars

\* Processes and goroutines that can run do run; users, crashes, deadlines and
\* failures owe nothing.  No fairness among the waiters of a flock.
Fairness ==
    /\ \A c \in Clients : WF_vars(ClientStep(c))
    /\ \A d \in Daemons : WF_vars(DaemonStep(d))
    /\ \A d \in Daemons, k \in Conns : WF_vars(HandlerStep(d, k))

LiveSpec == Spec /\ Fairness

-----------------------------------------------------------------------------
(* The instance seen from outside. *)

\* Connections to d whose handler is in one of the states.
Handlers(d, states) == {k \in Conns : link[k].to = d /\ link[k].srv \in states}
Stops(d, verb) == {k \in Handlers(d, {"stopping", "stopped"}) : link[k].verb = verb}

Mode(d) == CASE phase[d] = "serving" -> "on"
             [] phase[d] \in {"broken", "brokenRW", "brokenM"} -> "broken"
             [] phase[d] \in {"closing", "closeRW", "exit"} -> "closing"
             [] OTHER -> "off"

Outside(d) == INSTANCE Instance WITH
    MayBreak <- "accept" \in Faults,
    mode <- Mode(d),
    sessions <- Handlers(d, {"attached"}),
    plain <- Stops(d, "stop"),
    forced <- Stops(d, "forceStop")

-----------------------------------------------------------------------------
(* Properties. *)

\* Types: every variable stays in its set.
TypeOK ==
    /\ lock \in Clients \cup {None}
    /\ path \in [Sockets -> Daemons \cup {None}]
    /\ pc \in [Clients -> ClientStates]
    /\ op \in [Clients -> AllOps]
    /\ bin \in [Clients -> Nat]
    /\ conn \in [Clients -> Conns \cup {None}]
    /\ child \in [Clients -> Daemons \cup {None}]
    /\ phase \in [Daemons -> DaemonPhases]
    /\ proto \in [Daemons -> Nat]
    /\ active \in [Daemons -> Int]
    /\ link \in [Conns -> Link]

\* What only the holder of the lock may be in the middle of.
Holding(c) ==
    \/ pc[c] \in {"remove", "spawn", "handoff", "poll", "polling",
                  "attach", "attaching", "drain"}
    \/ pc[c] \in {"probe", "probing"} /\ op[c] # "list"

\* Starting, stopping and attaching exclude each other (lockInstance and its
\* deferred Close): a client inside any of them holds the lock, and the lock
\* is never left behind by one that returned or was killed.
LockDiscipline == \A c \in Clients : Holding(c) <=> lock = c

\* resp.Active, what stop decides by: the count is exactly the number of
\* handlers in an attachment, through hangups, kills and lost answers...
CountExact ==
    \A d \in Daemons :
        active[d] = Cardinality({k \in Conns : link[k].to = d /\ link[k].srv = "attached"})

\* ... and a live session is one of them until its daemon is gone, so the
\* count never misses a session.
SessionCounted ==
    \A c \in Clients : pc[c] = "attached" =>
        /\ link[conn[c]].open
        /\ link[conn[c]].from = c
        /\ link[conn[c]].srv \in {"attached", "gone"}
        /\ link[conn[c]].srv = "gone" => ~\E d \in Daemons : Alive(d) /\ link[conn[c]].to = d

\* The code implements the promises: no plain stop is accepted with a session
\* attached, a daemon closes because of a stop or of a failed accept and of
\* nothing else, and no stop is reported by a daemon that still takes requests,
\* whoever is killed, late or in between.
Implements ==
    /\ \A d \in Daemons : Outside(d)!Init
    /\ [][\A d \in Daemons : UNCHANGED Outside(d)!vars \/ Outside(d)!Next]_vars

\* README.md:259: a plain stop that the daemon accepted finds no session, and
\* none gets in before the listener is closed.
PlainStopSparesSessions ==
    \A k \in Conns, c \in Clients :
        link[k].srv \in {"stopping", "stopped"} /\ link[k].verb = "stop" /\ pc[c] = "attached"
            => link[conn[c]].to # link[k].to

\* supervisor.go:111: no other daemon holds the ingress sockets a session
\* relays to while the session's own daemon serves.
NoSilentTakeover ==
    \A c \in Clients :
        pc[c] = "attached" /\ Listening(link[conn[c]].to) =>
            \A s \in {"ro", "rw"} : path[s] \in {link[conn[c]].to, None}

\* instance_test.go:112-113: what answers a health probe has its ingress
\* sockets in place.
HealthyHasIngress ==
    \A d \in Daemons : phase[d] = "serving" /\ path["management"] = d =>
        path["ro"] = d /\ path["rw"] = d

\* Whoever has the lock gives it up: no command hangs on a daemon that died,
\* was stopped or does not answer.
LockReleased == \A c \in Clients : lock = c ~> lock # c

\* A daemon that accepted a stop is gone in the end, though its main goroutine
\* and the stop handler race to it.
StopTakesEffect ==
    \A d \in Daemons, k \in Conns :
        (link[k].to = d /\ link[k].srv = "stopping") ~> ~Alive(d)

=============================================================================
