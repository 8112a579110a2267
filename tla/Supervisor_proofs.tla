--------------------------- MODULE Supervisor_proofs ---------------------------
(* Supervisor, for any configuration, any number of requests and any faults.  *)
EXTENDS Supervisor, TLAPS

\* The attachment outlives the network workers, and no worker starts after.
ClosedLast ==
    attachment = "closed" =>
        /\ stage \in {"socket", "done", "exited"}
        /\ \A w \in Workers : worker[w] # "ready"

\* A handler waits for a command of the table, and a slot without a handler
\* has no command left.
HandlerOwns(r) ==
    /\ handler[r] = "select" => r \in tracked
    /\ handler[r] = "none" => job[r] = "none"
    /\ handler[r] \notin {"none", "closed"} => ask[r] \in Requests
    /\ job[r] = "running" => handler[r] \in {"add", "select"}

IInv == TypeOK /\ ClosedLast /\ \A r \in Reqs : HandlerOwns(r)

LEMMA InitInv == Init => IInv
<1> SUFFICES ASSUME Init PROVE IInv
  OBVIOUS
<1>1. TypeOK
  BY DEF Init, TypeOK, Stages
<1>2. ClosedLast /\ \A r \in Reqs : HandlerOwns(r)
  BY DEF Init, ClosedLast, HandlerOwns
<1> QED BY <1>1, <1>2 DEF IInv

-----------------------------------------------------------------------------
(* Types. *)

LEMMA HandlerTypes ==
    ASSUME TypeOK, NEW r \in Reqs, HandlerStep(r)
    PROVE  TypeOK'
<1> USE DEF TypeOK, sessionVars, To
<1>1. CASE Receive(r)
  <2>1. handler' \in [Reqs -> {"none", "receive", "home", "launch", "add", "select", "cleanup", "closed"}]
    BY <1>1 DEF Receive
  <2>2. answer' \in [Reqs -> {"none", "exited", "killed", "denied", "failed"}]
    BY <1>1 DEF Receive
  <2>3. Arms(ask[r]) \in BOOLEAN
    BY DEF Arms
  <2> QED BY <1>1, <2>1, <2>2, <2>3 DEF Receive
<1>2. CASE PrepareHome(r) \/ MkdirFails(r)
  BY <1>2 DEF PrepareHome, MkdirFails
<1>3. CASE Launch(r)
  BY <1>3 DEF Launch
<1>4. CASE LaunchFails(r)
  BY <1>4 DEF LaunchFails
<1>5. CASE Add(r) \/ Cleanup(r)
  BY <1>5 DEF Add, Cleanup
<1>6. CASE SelectExit(r)
  BY <1>6 DEF SelectExit
<1>7. CASE SelectCancel(r) \/ SelectClosed(r)
  <2>1. Killed(r) \in {"none", "exited", "killed"}
    BY DEF Killed
  <2>2. job' = [job EXCEPT ![r] = Killed(r)] /\ handler' = [handler EXCEPT ![r] = "cleanup"]
    BY <1>7 DEF SelectCancel, SelectClosed
  <2>3. answer' = answer \/ answer' = [answer EXCEPT ![r] = Killed(r)]
    BY <1>7 DEF SelectCancel, SelectClosed, Code
  <2>4. UNCHANGED <<sessionVars, stub, ask, armed, home, tracked>>
    BY <1>7 DEF SelectCancel, SelectClosed
  <2> QED BY <2>1, <2>2, <2>3, <2>4
<1> QED BY <1>1, <1>2, <1>3, <1>4, <1>5, <1>6, <1>7 DEF HandlerStep

LEMMA SessionTypes ==
    ASSUME TypeOK, SessionStep
    PROVE  TypeOK'
<1> USE DEF TypeOK, requestVars, Stages
<1>1. CASE \E w \in Workers : StartWorker(w) \/ StopWorker(w)
  BY <1>1 DEF StartWorker, StopWorker
<1>2. CASE ListenControl \/ Shutdown \/ CloseAttachment \/ RemoveSocket
  BY <1>2 DEF ListenControl, Shutdown, CloseAttachment, RemoveSocket
<1>3. CASE KillAll
  BY <1>3 DEF KillAll, Killed
<1>4. CASE Exit
  BY <1>4 DEF Exit, Killed
<1> QED BY <1>1, <1>2, <1>3, <1>4 DEF SessionStep

LEMMA OtherTypes ==
    ASSUME TypeOK, EnvironmentStep \/ \E r \in Reqs : StubStep(r)
    PROVE  TypeOK'
<1> USE DEF TypeOK, sessionVars, requestVars
<1>1. ASSUME NEW r \in Reqs, NEW q \in Requests, Submit(r, q) PROVE TypeOK'
  BY <1>1 DEF Submit
<1>2. ASSUME NEW r \in Reqs, Cancel(r) \/ StubEnds(r) PROVE TypeOK'
  BY <1>2 DEF Cancel, StubEnds
<1>3. ASSUME NEW r \in Reqs, JobExits(r) PROVE TypeOK'
  BY <1>3 DEF JobExits
<1>4. ASSUME NEW r \in Reqs, Free(r) PROVE TypeOK'
  BY <1>4 DEF Free
<1>5. CASE LoseAttachment \/ PiExits \/ \E w \in Workers : WorkerFails(w)
  BY <1>5 DEF LoseAttachment, PiExits, WorkerFails, Stages
<1> QED BY <1>1, <1>2, <1>3, <1>4, <1>5 DEF EnvironmentStep, StubStep

LEMMA StepTypes == TypeOK /\ [Next]_vars => TypeOK'
<1>1. TypeOK /\ UNCHANGED vars => TypeOK'
  BY DEF TypeOK, vars, sessionVars, requestVars
<1> QED BY <1>1, HandlerTypes, SessionTypes, OtherTypes DEF Next

-----------------------------------------------------------------------------
(* The rest of the invariant. *)

LEMMA StepClosed == IInv /\ [Next]_vars => ClosedLast'
<1> SUFFICES ASSUME IInv, [Next]_vars PROVE ClosedLast'
  OBVIOUS
<1> USE DEF IInv, TypeOK, ClosedLast
<1>1. CASE UNCHANGED <<stage, attachment, worker>>
  BY <1>1
<1>2. CASE SessionStep
  BY <1>2 DEF SessionStep, StartWorker, StopWorker, ListenControl, Shutdown, KillAll,
              CloseAttachment, RemoveSocket, Exit
<1>3. CASE LoseAttachment \/ \E w \in Workers : WorkerFails(w)
  BY <1>3 DEF LoseAttachment, WorkerFails
<1>4. UNCHANGED <<stage, attachment, worker>> \/ SessionStep \/ LoseAttachment
         \/ \E w \in Workers : WorkerFails(w)
  BY DEF Next, HandlerStep, StubStep, EnvironmentStep, Receive, PrepareHome, MkdirFails, Launch,
         LaunchFails, Add, SelectExit, SelectCancel, SelectClosed, Cleanup, StubEnds, Free,
         Submit, Cancel, JobExits, PiExits, vars, sessionVars
<1> QED BY <1>1, <1>2, <1>3, <1>4

\* What leaves a request alone keeps its part of the invariant.
LEMMA OthersKeep ==
    ASSUME NEW r \in Reqs, HandlerOwns(r),
           UNCHANGED <<handler[r], job[r], ask[r]>>, r \in tracked => r \in tracked'
    PROVE  HandlerOwns(r)'
BY DEF HandlerOwns

LEMMA HandlerOwnsStep ==
    ASSUME IInv, NEW r \in Reqs,
           \/ HandlerStep(r) \/ StubStep(r) \/ Cancel(r) \/ JobExits(r)
           \/ \E q \in Requests : Submit(r, q)
    PROVE  HandlerOwns(r)'
<1> USE DEF IInv, TypeOK, HandlerOwns, To
<1>1. CASE Receive(r)
  BY <1>1 DEF Receive
<1>2. CASE PrepareHome(r) \/ MkdirFails(r) \/ Launch(r) \/ LaunchFails(r)
  BY <1>2 DEF PrepareHome, MkdirFails, Launch, LaunchFails
<1>3. CASE Add(r)
  BY <1>3 DEF Add
<1>4. CASE SelectExit(r) \/ SelectCancel(r) \/ SelectClosed(r)
  BY <1>4 DEF SelectExit, SelectCancel, SelectClosed, Killed
<1>5. CASE Cleanup(r)
  BY <1>5 DEF Cleanup
<1>6. CASE StubEnds(r) \/ Free(r) \/ Cancel(r) \/ JobExits(r)
  BY <1>6 DEF StubEnds, Free, Cancel, JobExits
<1>7. ASSUME NEW q \in Requests, Submit(r, q) PROVE HandlerOwns(r)'
  BY <1>7 DEF Submit
<1> QED BY <1>1, <1>2, <1>3, <1>4, <1>5, <1>6, <1>7 DEF HandlerStep, StubStep

LEMMA StepInv == IInv /\ [Next]_vars => IInv'
<1> SUFFICES ASSUME IInv, [Next]_vars PROVE IInv'
  OBVIOUS
<1>1. TypeOK' /\ ClosedLast'
  BY StepTypes, StepClosed DEF IInv
<1>2. ASSUME NEW r \in Reqs,
             \/ HandlerStep(r) \/ StubStep(r) \/ Cancel(r) \/ JobExits(r)
             \/ \E q \in Requests : Submit(r, q)
      PROVE  \A m \in Reqs : HandlerOwns(m)'
  <2>1. ASSUME NEW m \in Reqs, m # r PROVE HandlerOwns(m)'
    <3>1. UNCHANGED <<handler[m], job[m], ask[m]>> /\ (m \in tracked => m \in tracked')
      BY <1>2, <2>1 DEF IInv, TypeOK, To, HandlerStep, StubStep, Receive, PrepareHome, MkdirFails,
             Launch, LaunchFails, Add, SelectExit, SelectCancel, SelectClosed, Cleanup, StubEnds,
             Free, Submit, Cancel, JobExits
    <3> QED BY <3>1, OthersKeep DEF IInv
  <2> QED BY <1>2, <2>1, HandlerOwnsStep
<1>3. CASE KillAll \/ Exit
  <2>1. ASSUME NEW m \in Reqs PROVE HandlerOwns(m)'
    BY <1>3 DEF KillAll, Exit, Killed, IInv, TypeOK, HandlerOwns
  <2> QED BY <1>1, <2>1 DEF IInv
<1>4. CASE UNCHANGED requestVars
  BY <1>1, <1>4, OthersKeep DEF IInv, requestVars
<1>5. UNCHANGED requestVars \/ KillAll \/ Exit
         \/ \E r \in Reqs : \/ HandlerStep(r) \/ StubStep(r) \/ Cancel(r) \/ JobExits(r)
                            \/ \E q \in Requests : Submit(r, q)
  BY DEF Next, SessionStep, EnvironmentStep, StartWorker, StopWorker, ListenControl, Shutdown,
         CloseAttachment, RemoveSocket, WorkerFails, LoseAttachment, PiExits, vars
<1> QED BY <1>1, <1>2, <1>3, <1>4, <1>5 DEF IInv

-----------------------------------------------------------------------------
(* Theorems. *)

\* The inductive invariant.
THEOREM Invariance == Spec => []IInv
<1> QED BY InitInv, StepInv, PTL DEF Spec

\* Types.
THEOREM Typing == Spec => []TypeOK
<1>1. IInv => TypeOK
  BY DEF IInv
<1> QED BY <1>1, Invariance, PTL

\* supervisor.go:392: the attachment is closed after every network worker, on
\* every path out of a session, a failed start included.
THEOREM FrontendsFirst == Spec => []FrontendsDieFirst
<1>1. IInv => FrontendsDieFirst
  BY DEF IInv, ClosedLast, FrontendsDieFirst
<1> QED BY <1>1, Invariance, PTL

\* supervisor.go:274: between its start and its reaping a command is always
\* within the reach of shutdown, through the table or through its handler.
THEOREM JobsFound == Spec => []NoLostJob
<1>1. IInv => NoLostJob
  BY DEF IInv, HandlerOwns, NoLostJob
<1> QED BY <1>1, Invariance, PTL

-----------------------------------------------------------------------------
(* Why a command is killed. *)

\* No request leaves a deadline behind, and a killed command has a reason.
NoDeadline == \A r \in Reqs : armed[r] = FALSE
Quietly == IInv /\ NoDeadline /\ KilledForReason

LEMMA QuietStep ==
    ASSUME \A q \in Requests : q.frame # "parts", Quietly, [Next]_vars
    PROVE  Quietly'
<1>1. IInv'
  BY StepInv DEF Quietly
<1>2. NoDeadline'
  <2>1. CASE UNCHANGED armed
    BY <2>1 DEF Quietly, NoDeadline
  <2>2. ASSUME NEW r \in Reqs, Receive(r) PROVE NoDeadline'
    <3>1. ask[r] \in Requests
      BY <2>2 DEF Quietly, IInv, HandlerOwns, Receive
    <3>2. Arms(ask[r]) = FALSE
      BY <3>1 DEF Arms
    <3> QED BY <2>2, <3>2 DEF Receive, Quietly, NoDeadline, IInv, TypeOK
  <2>3. ASSUME NEW r \in Reqs, Free(r) PROVE NoDeadline'
    BY <2>3 DEF Free, Quietly, NoDeadline, IInv, TypeOK
  <2>4. UNCHANGED armed \/ \E r \in Reqs : Receive(r) \/ Free(r)
    BY DEF Next, HandlerStep, StubStep, SessionStep, EnvironmentStep, PrepareHome, MkdirFails,
           Launch, LaunchFails, Add, SelectExit, SelectCancel, SelectClosed, Cleanup, StubEnds,
           Submit, Cancel, JobExits, StartWorker, StopWorker, ListenControl, Shutdown, KillAll,
           CloseAttachment, RemoveSocket, Exit, WorkerFails, LoseAttachment, PiExits, vars,
           requestVars
  <2> QED BY <2>1, <2>2, <2>3, <2>4
<1>3. KilledForReason'
  <2> SUFFICES ASSUME NEW r \in Reqs, job'[r] = "killed", stub'[r] = "waiting", ~Ending'
               PROVE  FALSE
    BY DEF KilledForReason
  <2>1. ~Ending
    BY DEF Ending, Next, HandlerStep, StubStep, SessionStep, EnvironmentStep, Receive, PrepareHome,
           MkdirFails, Launch, LaunchFails, Add, SelectExit, SelectCancel, SelectClosed, Cleanup,
           StubEnds, Free, Submit, Cancel, JobExits, StartWorker, StopWorker, ListenControl,
           Shutdown, KillAll, CloseAttachment, RemoveSocket, Exit, WorkerFails, LoseAttachment,
           PiExits, vars, sessionVars, Quietly, IInv, TypeOK, Stages
  <2>2. ~KillAll /\ ~Exit /\ \A m \in Reqs : ~SelectClosed(m)
    BY <2>1 DEF Ending, KillAll, Exit, SelectClosed
  <2>3. CASE job[r] = "killed"
    <3>1. stub[r] # "waiting" /\ handler[r] # "none"
      BY <2>1, <2>3 DEF Quietly, KilledForReason, IInv, HandlerOwns
    <3> QED BY <2>2, <3>1 DEF Next, HandlerStep, StubStep, SessionStep, EnvironmentStep, Receive,
           PrepareHome, MkdirFails, Launch, LaunchFails, Add, SelectExit, SelectCancel, Cleanup,
           StubEnds, Free, Submit, Cancel, JobExits, StartWorker, StopWorker, ListenControl,
           Shutdown, CloseAttachment, RemoveSocket, WorkerFails, LoseAttachment, PiExits, vars,
           requestVars, Quietly, IInv, TypeOK
  <2>4. CASE job[r] # "killed"
    <3>1. SelectCancel(r)
      BY <2>2, <2>4 DEF Next, HandlerStep, StubStep, SessionStep, EnvironmentStep, Receive,
           PrepareHome, MkdirFails, Launch, LaunchFails, Add, SelectExit, SelectCancel, Cleanup,
           StubEnds, Free, Submit, Cancel, JobExits, StartWorker, StopWorker, ListenControl,
           Shutdown, CloseAttachment, RemoveSocket, WorkerFails, LoseAttachment, PiExits, vars,
           requestVars, Quietly, IInv, TypeOK
    <3> QED BY <3>1 DEF SelectCancel, Quietly, NoDeadline
  <2> QED BY <2>3, <2>4
<1> QED BY <1>1, <1>2, <1>3 DEF Quietly

\* supervisor.go:552: where every request comes in one read, a command is
\* killed because its stub went away or the session ends, and for nothing
\* else.
THEOREM NoCauselessKill ==
    ASSUME \A q \in Requests : q.frame # "parts"
    PROVE  Spec => []KilledForReason
<1>1. Init => Quietly
  BY InitInv DEF Init, Quietly, NoDeadline, KilledForReason
<1>2. Quietly /\ [Next]_vars => Quietly'
  BY QuietStep
<1>3. Quietly => KilledForReason
  BY DEF Quietly
<1> QED BY <1>1, <1>2, <1>3, PTL DEF Spec

=============================================================================
