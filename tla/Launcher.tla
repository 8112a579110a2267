------------------------------- MODULE Launcher -------------------------------
(***************************************************************************)
(* The sessions of one project on one host (src/main.go, src/sandbox.go    *)
(* and the stages of src/supervisor.go): each has a launcher process, the  *)
(* stage it starts in new namespaces, pi and one command at a time.  They  *)
(* share the project's FFF database slots, one flock each; a launcher and  *)
(* its stage share the attachment to the gateway.                          *)
(*                                                                         *)
(* A mount namespace is a view: what is found at each of a few points of   *)
(* the file system.  Every path bound is bound to itself but for the FFF   *)
(* slot and the instance's directory.                                      *)
(***************************************************************************)
EXTENDS Naturals

CONSTANTS Sessions, \* launchers that may run at a time
          Slots,    \* how many slots a project has: 8
          Layouts,  \* where the project directory may lie
          Faults,   \* "kill": launchers get a SIGKILL; "fail": a step fails
          None,     \* no session
          Other     \* a session of the project that the model does not follow

\* control: the supervisor's socket; ingress: the instance's.
Points == {"system", "tmp", "home", "pi", "fff", "runtime", "ingress", "control", "project"}

\* inside: the points beneath the project; under: the mounts it is beneath.
\* A project in the database directory itself, or above the instance's, is left out.
Layout == [inside : SUBSET {"home", "pi", "fff"}, under : SUBSET {"tmp", "pi", "runtime"}]

ASSUME LaunchAssumption ==
    /\ Slots \in Nat \ {0} /\ Layouts \subseteq Layout /\ Layouts # {}
    /\ Faults \subseteq {"kill", "fail"}
    /\ None \notin Sessions /\ Other \notin Sessions /\ None # Other

VARIABLES
    layout, \* where this project lies
    pc,     \* where each launcher's run() is
    try,    \* the slot it tries or has
    lock,   \* who holds the flock of each slot
    root,   \* its temporary directory is there
    held,   \* the processes that hold its attachment open
    up,     \* the gateway has not closed the attachment
    stage,  \* how far its stage is
    view,   \* the mounts of its stage and of pi
    cmd     \* its command: NoCommand, or what that sees

vars == <<layout, pc, try, lock, root, held, up, stage, view, cmd>>
stageVars == <<stage, view, cmd>>

PCs == {"idle", "claim", "root", "start", "write", "wait", "unroot", "unlock", "detach", "killed"}

\* secrets, fed: before and after the secrets are in its pipe; cut: pi runs on
\* after shutdown.
Stages == {"none", "secrets", "fed", "pi", "cut", "dead"}

-----------------------------------------------------------------------------
(* Mounts. *)

Slot == 0 .. (Slots - 1)
Places == [from : {"nothing", "host", "tmpfs", "instance", "session"}, rw : BOOLEAN]
             \cup [from : {"slot"}, of : Slot, rw : BOOLEAN]
View == [Points -> Places]

Nothing == [from |-> "nothing", rw |-> FALSE]
Host(rw) == [from |-> "host", rw |-> rw]
Fresh == [from |-> "tmpfs", rw |-> TRUE]
Database(s) == [from |-> "slot", of |-> s, rw |-> TRUE]

\* What a mount over point x hides.
Beneath(x) ==
    CASE x = "project" -> {"project"} \cup layout.inside
      [] x = "pi" /\ x \in layout.under -> {"pi", "fff", "project"}
      [] x = "pi" -> {"pi", "fff"}
      [] x \in layout.under -> {x, "project"}
      [] OTHER -> {x}

Mount(v, x, place) == [p \in Points |-> IF p \in Beneath(x) THEN place ELSE v[p]]

\* Defect: the database is bound before the project directory.
RootViewEarly(s) ==
    LET base == Mount([p \in Points |-> Nothing], "system", Host(FALSE))
        fresh == Mount(Mount(base, "tmp", Fresh), "ingress", [from |-> "instance", rw |-> FALSE])
        state == Mount(Mount(fresh, "pi", Host(TRUE)), "home", Host(FALSE))
        runtime == Mount(state, "runtime", Fresh)
        database == Mount(runtime, "fff", Database(s))
    IN Mount(Mount(database, "project", Host(TRUE)), "control", [from |-> "session", rw |-> TRUE])

\* setupRestrictedRoot, and the socket that start() makes in that root.
RootView(s) ==
    LET base == Mount([p \in Points |-> Nothing], "system", Host(FALSE))
        fresh == Mount(Mount(base, "tmp", Fresh), "ingress", [from |-> "instance", rw |-> FALSE])
        state == Mount(Mount(fresh, "pi", Host(TRUE)), "home", Host(FALSE))
        runtime == Mount(state, "runtime", Fresh)
        workdir == Mount(runtime, "project", Host(TRUE))
        database == Mount(workdir, "fff", Database(s))
    IN Mount(database, "control", [from |-> "session", rw |-> TRUE])

\* Defect: protectWorkdir's attribute is not set recursively.
ProtectTop(v) == [v EXCEPT !["project"].rw = FALSE]

\* protectWorkdir: whatever is mounted beneath the project too.
Protect(v) == [p \in Points |-> IF p \in Beneath("project") THEN [v[p] EXCEPT !.rw = FALSE] ELSE v[p]]

\* An empty file system with no permissions, hidePath's /dev/null.
Masked(v, x) == Mount(v, x, Nothing)

\* setupCommandSandbox.
CommandView(v, ro) ==
    Masked(Masked(IF ro THEN Protect(v) ELSE v, "ingress"), "control")

NoCommand == [runs |-> FALSE]
Command == [runs : {TRUE}, ro : BOOLEAN, view : View]

Init ==
    /\ layout \in Layouts
    /\ pc = [l \in Sessions |-> "idle"]
    /\ try = [l \in Sessions |-> 0]
    /\ lock \in [Slot -> {None, Other}]
    /\ root = [l \in Sessions |-> FALSE]
    /\ held = [l \in Sessions |-> {}]
    /\ up = [l \in Sessions |-> FALSE]
    /\ stage = [l \in Sessions |-> "none"]
    /\ view = [l \in Sessions |-> [p \in Points |-> Nothing]]
    /\ cmd = [l \in Sessions |-> NoCommand]

-----------------------------------------------------------------------------
(* run(): the launcher. *)

Go(l, p) == pc' = [pc EXCEPT ![l] = p]

\* attachInstance succeeded; the launcher has the connection and a duplicate.
Attached(l) ==
    /\ pc[l] = "idle" /\ stage[l] = "none"
    /\ Go(l, "claim")
    /\ try' = [try EXCEPT ![l] = 0]
    /\ held' = [held EXCEPT ![l] = {"launcher"}]
    /\ up' = [up EXCEPT ![l] = TRUE]
    /\ UNCHANGED <<layout, lock, root, stageVars>>

\* Defect: the last slot is not the end.
NextSlotEndless(l) == try' = [try EXCEPT ![l] = @ + 1] /\ UNCHANGED pc

\* The slot is busy: on to the next, or the session is refused.
NextSlot(l) ==
    IF try[l] + 1 < Slots
    THEN try' = [try EXCEPT ![l] = @ + 1] /\ UNCHANGED pc
    ELSE Go(l, "detach") /\ UNCHANGED try

\* claimFFF, one LOCK_NB at a time.
Claim(l) ==
    /\ pc[l] = "claim"
    /\ IF lock[try[l]] = None
       THEN lock' = [lock EXCEPT ![try[l]] = l] /\ Go(l, "root") /\ UNCHANGED try
       ELSE NextSlot(l) /\ UNCHANGED lock
    /\ UNCHANGED <<layout, root, held, up, stageVars>>

MakeRoot(l) ==
    /\ pc[l] = "root"
    /\ Go(l, "start")
    /\ root' = [root EXCEPT ![l] = TRUE]
    /\ UNCHANGED <<layout, try, lock, held, up, stageVars>>

\* cmd.Start, and the parent's end for reading is closed.
StartStage(l) ==
    /\ pc[l] = "start"
    /\ Go(l, "write")
    /\ stage' = [stage EXCEPT ![l] = "secrets"]
    /\ held' = [held EXCEPT ![l] = @ \cup {"stage"}]
    /\ UNCHANGED <<layout, try, lock, root, up, view, cmd>>

\* A directory, lock file, token or process could not be made: run() returns
\* through the deferred calls that are due by then.
LaunchFails(l) ==
    /\ "fail" \in Faults
    /\ \/ pc[l] = "claim" /\ Go(l, "detach")
       \/ pc[l] = "root" /\ Go(l, "unlock")
       \/ pc[l] = "start" /\ Go(l, "unroot")
    /\ UNCHANGED <<layout, try, lock, root, held, up, stageVars>>

\* Defect: the launcher keeps the reading end; a payload larger than the pipe
\* waits for a stage that is gone.
WriteToReader(l) ==
    /\ pc[l] = "write" /\ stage[l] = "secrets"
    /\ Go(l, "wait")
    /\ stage' = [stage EXCEPT ![l] = "fed"]
    /\ UNCHANGED <<layout, try, lock, root, held, up, view, cmd>>

\* The secrets, to a stage that reads them; one that is gone is EPIPE, and
\* the error is ignored.
WriteSecrets(l) ==
    /\ pc[l] = "write"
    /\ Go(l, "wait")
    /\ stage' = [stage EXCEPT ![l] = IF @ = "secrets" THEN "fed" ELSE @]
    /\ UNCHANGED <<layout, try, lock, root, held, up, view, cmd>>

Waited(l) ==
    /\ pc[l] = "wait" /\ stage[l] = "dead"
    /\ Go(l, "unroot")
    /\ UNCHANGED <<layout, try, lock, root, held, up, stageVars>>

\* The deferred calls, last first.
RemoveRoot(l) ==
    /\ pc[l] = "unroot"
    /\ Go(l, "unlock")
    /\ root' = [root EXCEPT ![l] = FALSE]
    /\ UNCHANGED <<layout, try, lock, held, up, stageVars>>

Unlock(l) ==
    /\ pc[l] = "unlock"
    /\ Go(l, "detach")
    /\ lock' = [lock EXCEPT ![try[l]] = None]
    /\ UNCHANGED <<layout, try, root, held, up, stageVars>>

Free(l) ==
    /\ view' = [view EXCEPT ![l] = [p \in Points |-> Nothing]]
    /\ stage' = [stage EXCEPT ![l] = "none"]
    /\ up' = [up EXCEPT ![l] = FALSE]
    /\ Go(l, "idle")

Detach(l) ==
    /\ pc[l] = "detach"
    /\ Free(l)
    /\ held' = [held EXCEPT ![l] = @ \ {"launcher"}]
    /\ UNCHANGED <<layout, try, lock, root, cmd>>

\* The kernel closes what a killed launcher had, the lock file and its two
\* descriptors of the attachment; its directory stays.
Kill(l) ==
    /\ "kill" \in Faults
    /\ pc[l] \notin {"idle", "killed"}
    /\ Go(l, "killed")
    /\ lock' = [s \in Slot |-> IF lock[s] = l THEN None ELSE lock[s]]
    /\ held' = [held EXCEPT ![l] = @ \ {"launcher"}]
    /\ UNCHANGED <<layout, try, root, up, stageVars>>

\* Nothing is left of a killed session but the directory, which stays on the
\* host: the next launch makes one of its own.
Forget(l) ==
    /\ pc[l] = "killed" /\ stage[l] \in {"none", "dead"}
    /\ Free(l)
    /\ root' = [root EXCEPT ![l] = FALSE]
    /\ UNCHANGED <<layout, try, lock, held, cmd>>

\* The other sessions of the project come and go.
OtherClaims(s) ==
    /\ lock[s] = None
    /\ lock' = [lock EXCEPT ![s] = Other]
    /\ UNCHANGED <<layout, pc, try, root, held, up, stageVars>>

OtherReleases(s) ==
    /\ lock[s] = Other
    /\ lock' = [lock EXCEPT ![s] = None]
    /\ UNCHANGED <<layout, pc, try, root, held, up, stageVars>>

-----------------------------------------------------------------------------
(* stage(), pi and a command. *)

\* The stage is process 1 of its namespace: all in it ends with it.
Ends(l) ==
    /\ stage' = [stage EXCEPT ![l] = "dead"]
    /\ cmd' = [cmd EXCEPT ![l] = NoCommand]
    /\ held' = [held EXCEPT ![l] = @ \ {"stage"}]
    /\ UNCHANGED <<layout, pc, try, lock, root, up, view>>

\* readSecrets, setupRestrictedRoot with the slot the launcher named, start.
Setup(l) ==
    /\ stage[l] = "fed"
    /\ stage' = [stage EXCEPT ![l] = "pi"]
    /\ view' = [view EXCEPT ![l] = RootView(try[l])]
    /\ UNCHANGED <<layout, pc, try, lock, root, held, up, cmd>>

\* The secrets do not come, or a step of the setup fails: no pi.
SetupFails(l) ==
    /\ \/ stage[l] = "secrets" /\ pc[l] = "killed"
       \/ stage[l] \in {"secrets", "fed"} /\ "fail" \in Faults
    /\ Ends(l)

PiExits(l) == stage[l] \in {"pi", "cut"} /\ Ends(l)

\* The launcher's death is a SIGKILL to the stage (Pdeathsig).
ParentDied(l) == pc[l] = "killed" /\ stage[l] \notin {"none", "dead"} /\ Ends(l)

\* The daemon is stopped or dies.
GatewayCloses(l) ==
    /\ up[l]
    /\ up' = [up EXCEPT ![l] = FALSE]
    /\ UNCHANGED <<layout, pc, try, lock, root, held, stageVars>>

\* The goroutine that reads the attachment: shutdown.
Shutdown(l) ==
    /\ stage[l] = "pi" /\ ~up[l]
    /\ stage' = [stage EXCEPT ![l] = "cut"]
    /\ cmd' = [cmd EXCEPT ![l] = NoCommand]
    /\ held' = [held EXCEPT ![l] = @ \ {"stage"}]
    /\ UNCHANGED <<layout, pc, try, lock, root, up, view>>

\* commandStage: exec only where every step of its sandbox succeeded.
RunCommand(l, ro) ==
    /\ stage[l] = "pi" /\ cmd[l] = NoCommand
    /\ cmd' = [cmd EXCEPT ![l] = [runs |-> TRUE, ro |-> ro, view |-> CommandView(view[l], ro)]]
    /\ UNCHANGED <<layout, pc, try, lock, root, held, up, stage, view>>

CommandExits(l) ==
    /\ cmd[l].runs
    /\ cmd' = [cmd EXCEPT ![l] = NoCommand]
    /\ UNCHANGED <<layout, pc, try, lock, root, held, up, stage, view>>

-----------------------------------------------------------------------------

LauncherStep(l) ==
    \/ Claim(l) \/ MakeRoot(l) \/ StartStage(l) \/ WriteSecrets(l) \/ Waited(l)
    \/ RemoveRoot(l) \/ Unlock(l) \/ Detach(l) \/ Forget(l)

\* What follows of itself once the launcher or the gateway is gone.
StageStep(l) == Setup(l) \/ ParentDied(l) \/ Shutdown(l)

EnvironmentStep(l) ==
    \/ Attached(l) \/ LaunchFails(l) \/ Kill(l) \/ SetupFails(l) \/ PiExits(l) \/ GatewayCloses(l)
    \/ CommandExits(l) \/ \E ro \in BOOLEAN : RunCommand(l, ro)

Next ==
    \/ \E l \in Sessions : LauncherStep(l) \/ StageStep(l) \/ EnvironmentStep(l)
    \/ \E s \in Slot : OtherClaims(s) \/ OtherReleases(s)

Spec == Init /\ [][Next]_vars

\* Processes run; pi, commands and the gateway owe nothing.
LiveSpec == Spec /\ \A l \in Sessions : WF_vars(LauncherStep(l)) /\ WF_vars(StageStep(l))

-----------------------------------------------------------------------------
(* Properties. *)

\* Types: every variable stays in its set.
TypeOK ==
    /\ layout \in Layouts
    /\ pc \in [Sessions -> PCs]
    /\ try \in [Sessions -> Slot]
    /\ lock \in [Slot -> Sessions \cup {None, Other}]
    /\ root \in [Sessions -> BOOLEAN] /\ up \in [Sessions -> BOOLEAN]
    /\ held \in [Sessions -> SUBSET {"launcher", "stage"}]
    /\ stage \in [Sessions -> Stages]
    /\ view \in [Sessions -> View]
    /\ cmd \in [Sessions -> {NoCommand} \cup Command]

PiRuns(l) == stage[l] \in {"pi", "cut"}

\* main.go:204 and sandbox.go:81: wherever the project lies, pi finds the
\* project and, at ~/.pi/agent/fff, the slot its launcher claimed; no other
\* session of the project finds that one, unless the launcher of one of them
\* was killed and its stage is about to be.
OwnDatabase ==
    \A l \in Sessions : PiRuns(l) =>
        /\ view[l]["project"] = Host(TRUE)
        /\ view[l]["fff"] = Database(try[l])
        /\ \A m \in Sessions \ {l} :
              PiRuns(m) /\ view[m]["fff"] = view[l]["fff"] => "killed" \in {pc[l], pc[m]}

\* sandbox.go:140 and README.md:109: a command reaches neither the control
\* socket nor the ingress; one of a read-only profile can write nothing that
\* lies beneath the project, its database included, and one of a read-write
\* profile can write the project.
CommandConfined ==
    \A l \in Sessions : cmd[l].runs =>
        /\ \A p \in {"ingress", "control"} : cmd[l].view[p] = Nothing
        /\ \A p \in {"project"} \cup layout.inside : cmd[l].view[p].rw = ~cmd[l].ro

\* However a session ends, a step of the launch fails, the stage dies before
\* it reads its secrets or the launcher is killed: the gateway sees the end
\* of its attachment and its slot is free; its directory stays only where the
\* launcher was killed.
EverythingReturned ==
    \A l \in Sessions :
        (stage[l] = "dead" \/ pc[l] \in {"killed", "detach"})
            ~> /\ held[l] = {}
               /\ \A s \in Slot : lock[s] # l
               /\ root[l] => pc[l] = "killed"

===============================================================================
