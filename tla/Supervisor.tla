----------------------------- MODULE Supervisor ------------------------------
(***************************************************************************)
(* The supervisor of one session (src/supervisor.go) and the stubs that    *)
(* ask it to run commands (src/stub.go): start-up, one handler goroutine   *)
(* per control connection, the job table, and the shutdown that either     *)
(* pi's exit or the loss of the gateway attachment starts.                 *)
(*                                                                         *)
(* A request is a slot: a stub process, its control connection, the        *)
(* handler of that connection and the command it launches.  A slot is used *)
(* again once all four are gone.  Permissions are those of src/config.go:  *)
(* a profile decides a command's network class and home.                   *)
(***************************************************************************)
EXTENDS Configuration

CONSTANTS Reqs,      \* slots of requests
          Profiles,  \* configured profiles: name -> settings
          Requests,  \* what stubs ask
          Faults,    \* steps that may fail
          None       \* no request

Names == DOMAIN Profiles

\* Unknown: a name the configuration does not have.
Asks == [profile : Names \cup {"unknown"}, token : BOOLEAN, fds : {0, 3}, frame : {"whole", "parts", "bad"}]

ASSUME ConstantsAssumption ==
    /\ "unknown" \notin Names
    /\ \A n \in Names : Profiles[n] \in Settings
    /\ Requests \subseteq Asks
    /\ Faults \subseteq {"worker", "mkdir", "exec"}
    /\ None \notin Asks

\* The policy of a command; the project directory is the command stage's.
Class(p) == CommandPolicy(Profiles[p]).class
Throwaway(p) == CommandPolicy(Profiles[p]).throwawayHome

\* One network worker for every class some profile uses.
Workers == {Class(p) : p \in Names}

VARIABLES
    stage,       \* how far the supervisor is: start-up, up, shutdown
    pi,          \* pi: not yet started, running, exited
    attachment,  \* the gateway attachment: live, lost, closed by shutdown
    socket,      \* control.sock is there to be dialled
    worker,      \* each class's network worker and namespace handle
    stub,        \* each stub process
    ask,         \* what it asked
    handler,     \* where the connection's handler goroutine is
    armed,       \* a read deadline is set on the connection
    home,        \* the command's home directory
    job,         \* the command
    tracked,     \* s.jobs
    answer       \* the launchResponse sent

sessionVars == <<stage, pi, attachment, socket, worker>>
requestVars == <<stub, ask, handler, armed, home, job, tracked, answer>>
vars == <<sessionVars, requestVars>>

Stages == {"start", "up", "closed", "workers", "socket", "done", "exited"}

TypeOK ==
    /\ stage \in Stages
    /\ pi \in {"none", "running", "exited"}
    /\ attachment \in {"live", "lost", "closed"}
    /\ socket \in BOOLEAN
    /\ worker \in [Workers -> {"none", "ready", "dead"}]
    /\ stub \in [Reqs -> {"none", "waiting", "killed"}]
    /\ ask \in [Reqs -> Requests \cup {None}]
    /\ handler \in [Reqs -> {"none", "receive", "home", "launch", "add", "select",
                             "cleanup", "closed"}]
    /\ armed \in [Reqs -> BOOLEAN]
    /\ home \in [Reqs -> {"none", "shared", "temp"}]
    /\ job \in [Reqs -> {"none", "running", "exited", "killed"}]
    /\ tracked \subseteq Reqs
    /\ answer \in [Reqs -> {"none", "exited", "killed", "denied", "failed"}]

Init ==
    /\ stage = "start"
    /\ pi = "none"
    /\ attachment = "live"
    /\ socket = FALSE
    /\ worker = [w \in Workers |-> "none"]
    /\ stub = [r \in Reqs |-> "none"]
    /\ ask = [r \in Reqs |-> None]
    /\ handler = [r \in Reqs |-> "none"]
    /\ armed = [r \in Reqs |-> FALSE]
    /\ home = [r \in Reqs |-> "none"]
    /\ job = [r \in Reqs |-> "none"]
    /\ tracked = {}
    /\ answer = [r \in Reqs |-> "none"]

-----------------------------------------------------------------------------
(* Start-up: the workers in turn, then the control socket, then pi. *)

StartWorker(w) ==
    /\ stage = "start"
    /\ worker[w] = "none"
    /\ worker' = [worker EXCEPT ![w] = "ready"]
    /\ UNCHANGED <<stage, pi, attachment, socket, requestVars>>

\* A worker that does not report ready in ten seconds is killed and the
\* session given up: start() fails and its caller shuts down.
WorkerFails(w) ==
    /\ "worker" \in Faults
    /\ stage = "start"
    /\ worker[w] = "none"
    /\ stage' = "closed"
    /\ pi' = "exited"
    /\ UNCHANGED <<attachment, socket, worker, requestVars>>

ListenControl ==
    /\ stage = "start"
    /\ \A w \in Workers : worker[w] = "ready"
    /\ stage' = "up"
    /\ socket' = TRUE
    /\ pi' = "running"
    /\ UNCHANGED <<attachment, worker, requestVars>>

-----------------------------------------------------------------------------
(* A stub. *)

\* Without a control socket the stub fails and nothing changes.
Submit(r, q) ==
    /\ pi = "running"
    /\ socket
    /\ handler[r] = "none" /\ stub[r] = "none"
    /\ stub' = [stub EXCEPT ![r] = "waiting"]
    /\ ask' = [ask EXCEPT ![r] = q]
    /\ handler' = [handler EXCEPT ![r] = "receive"]
    /\ UNCHANGED <<sessionVars, armed, home, job, tracked, answer>>

\* pi cancels the tool call or its timeout passes: it kills the stub.
Cancel(r) ==
    /\ stub[r] = "waiting"
    /\ stub' = [stub EXCEPT ![r] = "killed"]
    /\ UNCHANGED <<sessionVars, ask, handler, armed, home, job, tracked, answer>>

\* The stub reads its answer, or end of file ("launcher did not respond").
StubEnds(r) ==
    /\ stub[r] = "waiting"
    /\ answer[r] # "none" \/ handler[r] = "closed"
    /\ stub' = [stub EXCEPT ![r] = "none"]
    /\ UNCHANGED <<sessionVars, ask, handler, armed, home, job, tracked, answer>>

\* Stub and handler are gone: the slot is free.
Free(r) ==
    /\ handler[r] = "closed"
    /\ stub[r] # "waiting"
    /\ stub' = [stub EXCEPT ![r] = "none"]
    /\ ask' = [ask EXCEPT ![r] = None]
    /\ handler' = [handler EXCEPT ![r] = "none"]
    /\ armed' = [armed EXCEPT ![r] = FALSE]
    /\ home' = [home EXCEPT ![r] = "none"]
    /\ job' = [job EXCEPT ![r] = "none"]
    /\ answer' = [answer EXCEPT ![r] = "none"]
    /\ UNCHANGED <<sessionVars, tracked>>

-----------------------------------------------------------------------------
(* handleControl. *)

To(r, h) == handler' = [handler EXCEPT ![r] = h]

\* Only a descriptor list of three, a configured profile and, where that
\* writes to GitHub, the session's write token get any further.
Denied(q) ==
    \/ q.fds # 3
    \/ q.profile \notin Names
    \/ Profiles[q.profile].github = "rw" /\ ~q.token

\* Defect: a deadline is set before the first read.
DeadlineOn(q) == TRUE

\* A frame that comes in several reads sets a five-second read deadline on
\* the connection for each read but the first; nothing resets it.
Arms(q) == q.frame = "parts"

Receive(r) ==
    /\ handler[r] = "receive"
    /\ armed' = [armed EXCEPT ![r] = Arms(ask[r])]
    /\ IF ask[r].frame = "bad"
       THEN To(r, "closed") /\ UNCHANGED answer
       ELSE IF Denied(ask[r])
       THEN To(r, "closed") /\ answer' = [answer EXCEPT ![r] = "denied"]
       ELSE To(r, "home") /\ UNCHANGED answer
    /\ UNCHANGED <<sessionVars, stub, ask, home, job, tracked>>

\* A failure to make the temporary home is not an error: the command gets the
\* session's home instead.
PrepareHome(r) ==
    /\ handler[r] = "home"
    /\ home' = [home EXCEPT ![r] = IF Throwaway(ask[r].profile) THEN "temp" ELSE "shared"]
    /\ To(r, "launch")
    /\ UNCHANGED <<sessionVars, stub, ask, armed, job, tracked, answer>>

MkdirFails(r) ==
    /\ "mkdir" \in Faults
    /\ handler[r] = "home"
    /\ Throwaway(ask[r].profile)
    /\ home' = [home EXCEPT ![r] = "shared"]
    /\ To(r, "launch")
    /\ UNCHANGED <<sessionVars, stub, ask, armed, job, tracked, answer>>

\* The command needs the namespace handle, which shutdown closes.
Launch(r) ==
    /\ handler[r] = "launch"
    /\ worker[Class(ask[r].profile)] = "ready"
    /\ job' = [job EXCEPT ![r] = "running"]
    /\ To(r, "add")
    /\ UNCHANGED <<sessionVars, stub, ask, armed, home, tracked, answer>>

LaunchFails(r) ==
    /\ handler[r] = "launch"
    /\ worker[Class(ask[r].profile)] # "ready" \/ "exec" \in Faults
    /\ answer' = [answer EXCEPT ![r] = "failed"]
    /\ To(r, "cleanup")
    /\ UNCHANGED <<sessionVars, stub, ask, armed, home, job, tracked>>

\* Defect: the job is not entered in the table.
AddNothing(r) ==
    /\ handler[r] = "add"
    /\ To(r, "select")
    /\ UNCHANGED <<sessionVars, stub, ask, armed, home, job, tracked, answer>>

Add(r) ==
    /\ handler[r] = "add"
    /\ tracked' = tracked \cup {r}
    /\ To(r, "select")
    /\ UNCHANGED <<sessionVars, stub, ask, armed, home, job, answer>>

\* What a kill leaves of a command.
Killed(r) == IF job[r] = "running" THEN "killed" ELSE job[r]

\* Defect: the answer does not wait for the command.
CodeUnwaited(r) == IF job[r] = "running" THEN "running" ELSE job[r]

\* The exit that cmd.Wait reports after a kill.
Code(r) == Killed(r)

\* Defect: a cancelled command runs on.
SelectCancelLate(r) ==
    /\ handler[r] = "select"
    /\ stub[r] = "killed"
    /\ job[r] # "running"
    /\ To(r, "cleanup")
    /\ UNCHANGED <<sessionVars, stub, ask, armed, home, job, tracked, answer>>

\* The three branches of the select.  Of several that are ready, Go takes any.
SelectExit(r) ==
    /\ handler[r] = "select"
    /\ job[r] # "running"
    /\ answer' = [answer EXCEPT ![r] = job[r]]
    /\ To(r, "cleanup")
    /\ UNCHANGED <<sessionVars, stub, ask, armed, home, job, tracked>>

\* watchClose reports the end of the connection, and so a read that times out.
SelectCancel(r) ==
    /\ handler[r] = "select"
    /\ stub[r] # "waiting" \/ armed[r]
    /\ job' = [job EXCEPT ![r] = Killed(r)]
    /\ answer' = [answer EXCEPT ![r] = Code(r)]
    /\ To(r, "cleanup")
    /\ UNCHANGED <<sessionVars, stub, ask, armed, home, tracked>>

\* Defect: shutdown is left to killAll.
SelectClosedNever(r) == FALSE /\ UNCHANGED vars

SelectClosed(r) ==
    /\ handler[r] = "select"
    /\ stage \notin {"start", "up"}
    /\ job' = [job EXCEPT ![r] = Killed(r)]
    /\ To(r, "cleanup")
    /\ UNCHANGED <<sessionVars, stub, ask, armed, home, tracked, answer>>

\* The deferred calls: the table entry, the temporary home, the descriptors,
\* the connection.
Cleanup(r) ==
    /\ handler[r] = "cleanup"
    /\ tracked' = tracked \ {r}
    /\ home' = [home EXCEPT ![r] = "none"]
    /\ To(r, "closed")
    /\ UNCHANGED <<sessionVars, stub, ask, armed, job, answer>>

JobExits(r) ==
    /\ job[r] = "running"
    /\ job' = [job EXCEPT ![r] = "exited"]
    /\ UNCHANGED <<sessionVars, stub, ask, handler, armed, home, tracked, answer>>

-----------------------------------------------------------------------------
(* The end of the session. *)

\* The gateway daemon exits or dies.
LoseAttachment ==
    /\ attachment = "live"
    /\ attachment' = "lost"
    /\ UNCHANGED <<stage, pi, socket, worker, requestVars>>

PiExits ==
    /\ pi = "running"
    /\ pi' = "exited"
    /\ UNCHANGED <<stage, attachment, socket, worker, requestVars>>

\* stopOnce: whichever comes first closes s.closed; the other waits in Do.
Shutdown ==
    /\ stage = "up"
    /\ attachment = "lost" \/ pi = "exited"
    /\ stage' = "closed"
    /\ UNCHANGED <<pi, attachment, socket, worker, requestVars>>

KillAll ==
    /\ stage = "closed"
    /\ job' = [r \in Reqs |-> IF r \in tracked THEN Killed(r) ELSE job[r]]
    /\ stage' = "workers"
    /\ UNCHANGED <<pi, attachment, socket, worker, stub, ask, handler, armed, home,
                   tracked, answer>>

StopWorker(w) ==
    /\ stage = "workers"
    /\ worker[w] = "ready"
    /\ worker' = [worker EXCEPT ![w] = "dead"]
    /\ UNCHANGED <<stage, pi, attachment, socket, requestVars>>

\* Defect: the attachment is closed first.
CloseAttachmentEarly ==
    /\ stage = "workers"
    /\ attachment' = "closed"
    /\ stage' = IF \E w \in Workers : worker[w] = "ready" THEN stage ELSE "socket"
    /\ UNCHANGED <<pi, socket, worker, requestVars>>

CloseAttachment ==
    /\ stage = "workers"
    /\ \A w \in Workers : worker[w] # "ready"
    /\ attachment' = "closed"
    /\ stage' = "socket"
    /\ UNCHANGED <<pi, socket, worker, requestVars>>

RemoveSocket ==
    /\ stage = "socket"
    /\ socket' = FALSE
    /\ stage' = "done"
    /\ UNCHANGED <<pi, attachment, worker, requestVars>>

\* stage() returns once pi is gone and the shutdown done.  It is process 1 of
\* its namespace, so stubs and commands end with it.
Exit ==
    /\ stage = "done"
    /\ pi = "exited"
    /\ stage' = "exited"
    /\ stub' = [r \in Reqs |-> "none"]
    /\ handler' = [r \in Reqs |-> "closed"]
    /\ job' = [r \in Reqs |-> Killed(r)]
    /\ home' = [r \in Reqs |-> "none"]
    /\ tracked' = {}
    /\ UNCHANGED <<pi, attachment, socket, worker, ask, armed, answer>>

-----------------------------------------------------------------------------

HandlerStep(r) ==
    /\ stage # "exited"
    /\ \/ Receive(r) \/ PrepareHome(r) \/ MkdirFails(r) \/ Launch(r) \/ LaunchFails(r)
       \/ Add(r) \/ SelectExit(r) \/ SelectCancel(r) \/ SelectClosed(r) \/ Cleanup(r)

StubStep(r) == StubEnds(r) \/ (Free(r) /\ stage # "exited")

SessionStep ==
    \/ \E w \in Workers : StartWorker(w) \/ StopWorker(w)
    \/ ListenControl \/ Shutdown \/ KillAll \/ CloseAttachment \/ RemoveSocket \/ Exit

\* What nothing obliges to happen.
EnvironmentStep ==
    \/ \E r \in Reqs, q \in Requests : Submit(r, q)
    \/ \E r \in Reqs : Cancel(r) \/ JobExits(r)
    \/ \E w \in Workers : WorkerFails(w)
    \/ LoseAttachment \/ PiExits

Next ==
    \/ \E r \in Reqs : HandlerStep(r) \/ StubStep(r)
    \/ SessionStep
    \/ EnvironmentStep

\* The goroutines of the supervisor and the stubs run when they can.
Fairness ==
    /\ \A r \in Reqs : WF_vars(HandlerStep(r)) /\ WF_vars(StubStep(r))
    /\ WF_vars(SessionStep)

Spec == Init /\ [][Next]_vars /\ Fairness

-----------------------------------------------------------------------------
(* Properties. *)

Ending == stage \notin {"start", "up"}

\* supervisor.go:111: while a network frontend can still relay to the ingress
\* sockets, the daemon behind them counts this session: a plain stop and a
\* new start cannot put another daemon there.
FrontendsDieFirst == attachment = "closed" => \A w \in Workers : worker[w] # "ready"

\* Every command that runs is in the table or in the hands of a handler that
\* will select on s.closed: none is out of shutdown's reach, though killAll
\* and the launch of a command race.
NoLostJob ==
    \A r \in Reqs : job[r] = "running" =>
        handler[r] = "add" \/ (handler[r] = "select" /\ r \in tracked)

\* supervisor.go:552: a command is killed because its stub went away or the
\* session ends, and for nothing else.
KilledForReason ==
    \A r \in Reqs : job[r] = "killed" => stub[r] # "waiting" \/ Ending

\* Once the session ends, every command comes to an end, those too that were
\* being launched while killAll ran, no other is started and no stub is left
\* waiting for an answer; pi may run on.
ShutdownEndsJobs ==
    (stage = "closed") ~> [](\A r \in Reqs : job[r] # "running" /\ stub[r] # "waiting")

\* A cancelled command does not run on, wherever its request was.
CancelEndsJob == \A r \in Reqs : (stub[r] = "killed") ~> job[r] # "running"

=============================================================================
