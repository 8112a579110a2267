---------------------------- MODULE Launcher_proofs ----------------------------
(* Launcher for any number of sessions and slots, every place a project may   *)
(* lie and any faults.                                                        *)
EXTENDS Launcher, TLAPS

\* A launcher that is past its claim and not killed has the flock of its slot.
HasSlot(l) ==
    pc[l] \in {"root", "start", "write", "wait", "unroot", "unlock"} => lock[try[l]] = l

\* A stage runs only while its launcher writes to it or waits, or is killed.
StageHasParent(l) ==
    stage[l] \in {"secrets", "fed", "pi", "cut"} => pc[l] \in {"write", "wait", "killed"}

\* pi has the mounts of its slot, a command those of pi made narrower.
SeesOwn(l) ==
    /\ PiRuns(l) => view[l] = RootView(try[l])
    /\ cmd[l].runs => stage[l] = "pi" /\ cmd[l].view = CommandView(view[l], cmd[l].ro)

SessionInv(l) == HasSlot(l) /\ StageHasParent(l) /\ SeesOwn(l)

IInv == TypeOK /\ \A l \in Sessions : SessionInv(l)

-----------------------------------------------------------------------------
(* Mounts. *)

LEMMA SlotsExist == 0 \in Slot /\ \A s \in Slot : s + 1 < Slots => s + 1 \in Slot
BY LaunchAssumption DEF Slot

\* What a mount at some points hides, wherever the project lies.
LEMMA Hidden ==
    ASSUME layout \in Layouts
    PROVE  /\ layout.inside \subseteq {"home", "pi", "fff"}
           /\ Beneath("project") = {"project"} \cup layout.inside
           /\ \A x \in {"fff", "control", "ingress"} : Beneath(x) = {x}
<1>1. layout.inside \subseteq {"home", "pi", "fff"} /\ layout.under \subseteq {"tmp", "pi", "runtime"}
  BY LaunchAssumption DEF Layout
<1>2. \A x \in {"fff", "control", "ingress"} : Beneath(x) = {x}
  BY <1>1 DEF Beneath
<1> QED BY <1>1, <1>2 DEF Beneath

LEMMA MountPlaces ==
    ASSUME NEW v \in View, NEW x, NEW place \in Places
    PROVE  Mount(v, x, place) \in View
BY DEF Mount, View

LEMMA RootIsView ==
    ASSUME NEW s \in Slot
    PROVE  RootView(s) \in View
<1>1. /\ Nothing \in Places /\ Host(TRUE) \in Places /\ Host(FALSE) \in Places
      /\ Fresh \in Places /\ Database(s) \in Places
      /\ [from |-> "instance", rw |-> FALSE] \in Places
      /\ [from |-> "session", rw |-> TRUE] \in Places
  BY DEF Places, Nothing, Host, Fresh, Database
<1>2. [p \in Points |-> Nothing] \in View
  BY <1>1 DEF View
<1> DEFINE base == Mount([p \in Points |-> Nothing], "system", Host(FALSE))
           temp == Mount(base, "tmp", Fresh)
           fresh == Mount(temp, "ingress", [from |-> "instance", rw |-> FALSE])
           pistate == Mount(fresh, "pi", Host(TRUE))
           state == Mount(pistate, "home", Host(FALSE))
           runtime == Mount(state, "runtime", Fresh)
           workdir == Mount(runtime, "project", Host(TRUE))
           database == Mount(workdir, "fff", Database(s))
<1>3. fresh \in View
  BY <1>1, <1>2, MountPlaces
<1>4. runtime \in View
  <2> HIDE DEF fresh
  <2> QED BY <1>1, <1>3, MountPlaces
<1>5. Mount(database, "control", [from |-> "session", rw |-> TRUE]) \in View
  <2> HIDE DEF runtime
  <2> QED BY <1>1, <1>4, MountPlaces
<1> QED BY <1>5 DEF RootView

\* The last three mounts of the root decide what is found at the project, at
\* the database and, inside the project, at everything else.
LEMMA RootPlaces ==
    ASSUME layout \in Layouts, NEW s \in Slot
    PROVE  /\ RootView(s)["project"] = Host(TRUE)
           /\ RootView(s)["fff"] = Database(s)
           /\ \A p \in layout.inside : RootView(s)[p].rw
<1> DEFINE base == Mount([p \in Points |-> Nothing], "system", Host(FALSE))
           fresh == Mount(Mount(base, "tmp", Fresh), "ingress", [from |-> "instance", rw |-> FALSE])
           state == Mount(Mount(fresh, "pi", Host(TRUE)), "home", Host(FALSE))
           runtime == Mount(state, "runtime", Fresh)
           workdir == Mount(runtime, "project", Host(TRUE))
           database == Mount(workdir, "fff", Database(s))
           root1 == Mount(database, "control", [from |-> "session", rw |-> TRUE])
<1>1. \A p \in Points : workdir[p] = IF p \in Beneath("project") THEN Host(TRUE) ELSE runtime[p]
  <2> HIDE DEF runtime
  <2> QED BY DEF Mount
<1>2. \A p \in Points : database[p] = IF p \in Beneath("fff") THEN Database(s) ELSE workdir[p]
  <2> HIDE DEF workdir
  <2> QED BY DEF Mount
<1>3. \A p \in Points :
        root1[p] = IF p \in Beneath("control") THEN [from |-> "session", rw |-> TRUE] ELSE database[p]
  <2> HIDE DEF database
  <2> QED BY DEF Mount
<1>4. root1 = RootView(s)
  BY DEF RootView
<1> HIDE DEF workdir, database, root1
<1>5. /\ {"project", "fff"} \cup layout.inside \subseteq Points
      /\ Host(TRUE).rw /\ Database(s).rw
  BY Hidden DEF Points, Host, Database
<1>6. \A p \in {"project", "fff"} \cup layout.inside : p # "control"
  BY Hidden
<1>7. \A p \in {"project", "fff"} \cup layout.inside :
        root1[p] = IF p = "fff" THEN Database(s) ELSE workdir[p]
  BY <1>2, <1>3, <1>5, <1>6, Hidden
<1>8. \A p \in {"project"} \cup layout.inside : workdir[p] = Host(TRUE)
  BY <1>1, <1>5, Hidden
<1> QED BY <1>4, <1>5, <1>7, <1>8

LEMMA CommandIsView ==
    ASSUME NEW v \in View, NEW ro \in BOOLEAN
    PROVE  CommandView(v, ro) \in View
<1> DEFINE w == IF ro THEN Protect(v) ELSE v
<1>1. w \in View
  <2>1. \A q \in Places : [q EXCEPT !.rw = FALSE] \in Places
    BY DEF Places
  <2> QED BY <2>1 DEF Protect, View
<1>2. Nothing \in Places
  BY DEF Nothing, Places
<1> HIDE DEF w
<1>3. Mount(Mount(w, "ingress", Nothing), "control", Nothing) \in View
  BY <1>1, <1>2, MountPlaces
<1> QED BY <1>3 DEF CommandView, Masked, w

\* The sandbox of a command, on mounts in which the project is writable.
LEMMA CommandPlaces ==
    ASSUME layout \in Layouts, NEW v \in View, NEW ro \in BOOLEAN,
           \A p \in {"project"} \cup layout.inside : v[p].rw
    PROVE  /\ \A p \in {"ingress", "control"} : CommandView(v, ro)[p] = Nothing
           /\ \A p \in {"project"} \cup layout.inside : CommandView(v, ro)[p].rw = ~ro
<1> DEFINE w == IF ro THEN Protect(v) ELSE v
           m == Mount(w, "ingress", Nothing)
           n == Mount(m, "control", Nothing)
<1>1. \A p \in Points : m[p] = IF p = "ingress" THEN Nothing ELSE w[p]
  <2> HIDE DEF w
  <2> QED BY Hidden DEF Mount
<1>2. \A p \in Points : n[p] = IF p = "control" THEN Nothing ELSE m[p]
  <2> HIDE DEF m
  <2> QED BY Hidden DEF Mount
<1>3. n = CommandView(v, ro)
  BY DEF CommandView, Masked
<1>4. \A p \in {"project"} \cup layout.inside :
         p \in Points /\ p # "control" /\ p # "ingress"
  BY Hidden DEF Points
<1>5. \A p \in {"project"} \cup layout.inside : w[p].rw = ~ro
  <2>1. CASE ~ro
    <3>1. \A q \in Places : q.rw \in BOOLEAN
      BY DEF Places
    <3>2. \A p \in {"project"} \cup layout.inside : v[p].rw = TRUE
      BY <1>4, <3>1 DEF View
    <3>3. ro = FALSE /\ w = v
      BY <2>1
    <3> QED BY <3>2, <3>3, Zenon
  <2>2. CASE ro
    <3>1. \A p \in {"project"} \cup layout.inside : w[p] = [v[p] EXCEPT !.rw = FALSE]
      BY <2>2, <1>4, Hidden DEF Protect
    <3>2. \A p \in Points : v[p] \in Places
      BY DEF View
    <3>3. \A q \in Places : [q EXCEPT !.rw = FALSE].rw = FALSE
      BY DEF Places
    <3>4. ro = TRUE /\ \A p \in {"project"} \cup layout.inside : w[p].rw = FALSE
      BY <3>1, <3>2, <3>3, <2>2, <1>4
    <3> QED BY <3>4
  <2> QED BY <2>1, <2>2
<1>6. "ingress" \in Points /\ "control" \in Points
  BY DEF Points
<1> HIDE DEF w, m, n
<1>7. \A p \in {"ingress", "control"} : n[p] = Nothing
  BY <1>1, <1>2, <1>6
<1>8. \A p \in {"project"} \cup layout.inside : n[p].rw = ~ro
  BY <1>1, <1>2, <1>4, <1>5
<1> QED BY <1>3, <1>7, <1>8

-----------------------------------------------------------------------------
(* The invariant. *)

LEMMA InitInv == Init => IInv
<1> SUFFICES ASSUME Init PROVE IInv
  OBVIOUS
<1>1. view \in [Sessions -> View]
  BY DEF Init, View, Nothing, Places
<1>2. TypeOK
  BY <1>1, SlotsExist, LaunchAssumption DEF Init, TypeOK, PCs, Stages, NoCommand
<1>3. ASSUME NEW l \in Sessions PROVE SessionInv(l)
  BY DEF Init, SessionInv, HasSlot, StageHasParent, SeesOwn, PiRuns, NoCommand
<1> QED BY <1>2, <1>3 DEF IInv

\* A step of one session, or of no session, touches nobody else's slot: the
\* others keep what they have.
LEMMA OthersKeep ==
    ASSUME NEW l \in Sessions, NEW m \in Sessions, SessionInv(m), m # l,
           UNCHANGED <<pc[m], try[m], stage[m], view[m], cmd[m], layout>>,
           lock[try[m]] = m => lock'[try[m]] = m
    PROVE  SessionInv(m)'
BY DEF SessionInv, HasSlot, StageHasParent, SeesOwn, PiRuns, RootView, CommandView, Protect,
       Masked, Mount, Beneath

LEMMA LauncherTypes ==
    ASSUME TypeOK, NEW l \in Sessions,
           LauncherStep(l) \/ Attached(l) \/ LaunchFails(l) \/ Kill(l)
    PROVE  TypeOK'
<1> USE DEF TypeOK, PCs, Go, stageVars
<1>1. CASE Claim(l)
  BY <1>1, SlotsExist, LaunchAssumption DEF Claim, NextSlot
<1>2. CASE Detach(l) \/ Forget(l)
  <2>1. [p \in Points |-> Nothing] \in View
    BY DEF View, Nothing, Places
  <2>2. Free(l) /\ UNCHANGED <<layout, try, lock, cmd>>
    BY <1>2 DEF Detach, Forget
  <2>3. /\ pc' \in [Sessions -> PCs] /\ stage' \in [Sessions -> Stages]
        /\ view' \in [Sessions -> View] /\ up' \in [Sessions -> BOOLEAN]
    BY <2>1, <2>2 DEF Free, Stages
  <2>4. held' \in [Sessions -> SUBSET {"launcher", "stage"}] /\ root' \in [Sessions -> BOOLEAN]
    BY <1>2 DEF Detach, Forget
  <2> QED BY <2>2, <2>3, <2>4
<1>3. CASE StartStage(l) \/ WriteSecrets(l)
  BY <1>3 DEF StartStage, WriteSecrets, Stages
<1>4. CASE MakeRoot(l) \/ Waited(l) \/ RemoveRoot(l)
  BY <1>4 DEF MakeRoot, Waited, RemoveRoot
<1>5. CASE Unlock(l)
  BY <1>5 DEF Unlock
<1>6. CASE Attached(l)
  BY <1>6, SlotsExist DEF Attached
<1>7. CASE LaunchFails(l)
  <2>1. \E q \in {"detach", "unlock", "unroot"} : pc' = [pc EXCEPT ![l] = q]
    BY <1>7 DEF LaunchFails
  <2>2. UNCHANGED <<layout, try, lock, root, held, up, stage, view, cmd>>
    BY <1>7 DEF LaunchFails
  <2> QED BY <2>1, <2>2
<1>8. CASE Kill(l)
  BY <1>8 DEF Kill
<1> QED BY <1>1, <1>2, <1>3, <1>4, <1>5, <1>6, <1>7, <1>8 DEF LauncherStep

LEMMA StageTypes ==
    ASSUME TypeOK, NEW l \in Sessions,
           \/ StageStep(l) \/ SetupFails(l) \/ PiExits(l) \/ GatewayCloses(l) \/ CommandExits(l)
           \/ \E ro \in BOOLEAN : RunCommand(l, ro)
    PROVE  TypeOK'
<1> USE DEF TypeOK, stageVars
<1>1. CASE Setup(l)
  BY <1>1, RootIsView DEF Setup, Stages
<1>2. CASE ParentDied(l) \/ SetupFails(l) \/ PiExits(l)
  BY <1>2 DEF ParentDied, SetupFails, PiExits, Ends, Stages
<1>3. CASE Shutdown(l)
  BY <1>3 DEF Shutdown, Stages
<1>4. CASE GatewayCloses(l)
  BY <1>4 DEF GatewayCloses
<1>5. CASE CommandExits(l)
  BY <1>5 DEF CommandExits
<1>6. ASSUME NEW ro \in BOOLEAN, RunCommand(l, ro) PROVE TypeOK'
  <2>1. CommandView(view[l], ro) \in View
    BY CommandIsView
  <2>2. [runs |-> TRUE, ro |-> ro, view |-> CommandView(view[l], ro)] \in Command
    BY <2>1 DEF Command
  <2> QED BY <1>6, <2>2 DEF RunCommand
<1> QED BY <1>1, <1>2, <1>3, <1>4, <1>5, <1>6 DEF StageStep

\* Views are fixed once the project's place and the slot are.
LEMMA RootStays ==
    ASSUME NEW l \in Sessions, layout' = layout, try'[l] = try[l]
    PROVE  RootView(try[l])' = RootView(try[l])
BY DEF RootView, Mount, Beneath

LEMMA CommandStays ==
    ASSUME NEW l \in Sessions, layout' = layout, view'[l] = view[l], cmd'[l] = cmd[l]
    PROVE  CommandView(view[l], cmd[l].ro)' = CommandView(view[l], cmd[l].ro)
BY DEF CommandView, Masked, Protect, Mount, Beneath

\* What its own step does to a session.
LEMMA LauncherKeepsOwn ==
    ASSUME IInv, NEW l \in Sessions,
           LauncherStep(l) \/ Attached(l) \/ LaunchFails(l) \/ Kill(l)
    PROVE  SessionInv(l)'
<1> USE DEF IInv, TypeOK, SessionInv, HasSlot, StageHasParent, SeesOwn, PiRuns, Go, stageVars
<1>1. CASE /\ LauncherStep(l) \/ LaunchFails(l) \/ Kill(l)
           /\ ~Claim(l) /\ ~Detach(l) /\ ~Forget(l)
  <2>1. /\ UNCHANGED <<layout, try, view, cmd>>
        /\ PiRuns(l)' = PiRuns(l) /\ (stage[l] = "pi" => stage'[l] = "pi")
    BY <1>1 DEF LauncherStep, MakeRoot, StartStage, WriteSecrets, Waited, RemoveRoot, Unlock,
                LaunchFails, Kill
  <2>2. SeesOwn(l)'
    BY <2>1, RootStays, CommandStays
  <2>3. HasSlot(l)' /\ StageHasParent(l)'
    BY <1>1, <2>1 DEF LauncherStep, MakeRoot, StartStage, WriteSecrets, Waited, RemoveRoot,
                Unlock, LaunchFails, Kill
  <2> QED BY <2>2, <2>3
<1>2. CASE Claim(l)
  <2>1. stage[l] \in {"none", "dead"} /\ ~cmd[l].runs
    BY <1>2 DEF Claim, Stages
  <2> QED BY <1>2, <2>1 DEF Claim, NextSlot
<1>3. CASE Detach(l) \/ Forget(l)
  <2>1. ~cmd[l].runs
    BY <1>3 DEF Detach, Forget, Stages
  <2> QED BY <1>3, <2>1 DEF Detach, Forget, Free
<1>4. CASE Attached(l)
  <2>1. ~cmd[l].runs
    BY <1>4 DEF Attached
  <2> QED BY <1>4, <2>1 DEF Attached
<1> QED BY <1>1, <1>2, <1>3, <1>4 DEF LauncherStep

LEMMA StageKeepsOwn ==
    ASSUME IInv, NEW l \in Sessions,
           \/ StageStep(l) \/ SetupFails(l) \/ PiExits(l) \/ GatewayCloses(l) \/ CommandExits(l)
           \/ \E ro \in BOOLEAN : RunCommand(l, ro)
    PROVE  SessionInv(l)'
<1> USE DEF IInv, TypeOK, SessionInv, HasSlot, StageHasParent, SeesOwn, PiRuns, stageVars
<1>1. UNCHANGED <<layout, pc, try, lock>>
  BY DEF StageStep, Setup, ParentDied, Shutdown, SetupFails, PiExits, Ends, GatewayCloses,
         CommandExits, RunCommand
<1>2. HasSlot(l)'
  BY <1>1
<1>3. RootView(try[l])' = RootView(try[l])
  BY <1>1, RootStays
<1>4. CASE Setup(l)
  <2>1. view'[l] = RootView(try[l]) /\ stage'[l] = "pi" /\ cmd' = cmd
    BY <1>4 DEF Setup
  <2>2. ~cmd[l].runs /\ StageHasParent(l)'
    BY <1>1, <1>4, <2>1 DEF Setup
  <2> QED BY <1>2, <1>3, <2>1, <2>2
<1>5. CASE ParentDied(l) \/ SetupFails(l) \/ PiExits(l)
  <2>1. stage'[l] = "dead" /\ ~cmd'[l].runs
    BY <1>5 DEF ParentDied, SetupFails, PiExits, Ends, NoCommand
  <2> QED BY <1>2, <2>1
<1>6. CASE Shutdown(l)
  <2>1. stage'[l] = "cut" /\ ~cmd'[l].runs /\ view' = view /\ stage[l] = "pi"
    BY <1>6 DEF Shutdown, NoCommand
  <2> QED BY <1>1, <1>2, <1>3, <2>1
<1>7. CASE GatewayCloses(l)
  <2>1. UNCHANGED <<stage, view, cmd>>
    BY <1>7 DEF GatewayCloses
  <2> QED BY <1>1, <1>2, <1>3, <2>1, CommandStays
<1>8. CASE CommandExits(l)
  <2>1. UNCHANGED <<stage, view>> /\ ~cmd'[l].runs
    BY <1>8 DEF CommandExits, NoCommand
  <2> QED BY <1>1, <1>2, <1>3, <2>1
<1>9. ASSUME NEW ro \in BOOLEAN, RunCommand(l, ro) PROVE SessionInv(l)'
  <2>1. /\ UNCHANGED <<stage, view>> /\ stage[l] = "pi"
        /\ cmd'[l].ro = ro /\ cmd'[l].view = CommandView(view[l], ro)
    BY <1>9 DEF RunCommand
  <2>2. CommandView(view[l], cmd[l].ro)' = CommandView(view[l], ro)
    BY <1>1, <2>1 DEF CommandView, Masked, Protect, Mount, Beneath
  <2> QED BY <1>1, <1>2, <1>3, <2>1, <2>2
<1> QED BY <1>4, <1>5, <1>6, <1>7, <1>8, <1>9 DEF StageStep

LEMMA StepInv == IInv /\ [Next]_vars => IInv'
<1> SUFFICES ASSUME IInv, [Next]_vars PROVE IInv'
  OBVIOUS
<1>1. ASSUME NEW l \in Sessions, LauncherStep(l) \/ StageStep(l) \/ EnvironmentStep(l)
      PROVE  IInv'
  <2>1. TypeOK' /\ SessionInv(l)'
    BY <1>1, LauncherTypes, StageTypes, LauncherKeepsOwn, StageKeepsOwn DEF IInv, EnvironmentStep
  <2>2. ASSUME NEW m \in Sessions, m # l PROVE SessionInv(m)'
    <3>1. UNCHANGED <<pc[m], try[m], stage[m], view[m], cmd[m], layout>>
      BY <1>1, <2>2 DEF IInv, TypeOK, LauncherStep, StageStep, EnvironmentStep, Claim, NextSlot,
              MakeRoot, StartStage, WriteSecrets, Waited, RemoveRoot, Unlock, Detach, Forget, Free,
              Setup, ParentDied, Shutdown, Attached, LaunchFails, Kill, SetupFails, PiExits, Ends,
              GatewayCloses, CommandExits, RunCommand, Go, stageVars
    <3>2. lock[try[m]] = m => lock'[try[m]] = m
      <4>1. CASE Claim(l)
        BY <4>1, LaunchAssumption DEF Claim, IInv, TypeOK
      <4>2. CASE Unlock(l)
        BY <4>2, <2>2 DEF Unlock, IInv, TypeOK, SessionInv, HasSlot
      <4>3. CASE Kill(l)
        BY <4>3, <2>2 DEF Kill, IInv, TypeOK
      <4>4. CASE ~Claim(l) /\ ~Unlock(l) /\ ~Kill(l)
        BY <1>1, <4>4 DEF LauncherStep, StageStep, EnvironmentStep, MakeRoot, StartStage,
              WriteSecrets, Waited, RemoveRoot, Detach, Forget, Setup, ParentDied, Shutdown,
              Attached, LaunchFails, SetupFails, PiExits, Ends, GatewayCloses, CommandExits,
              RunCommand
      <4> QED BY <4>1, <4>2, <4>3, <4>4
    <3> QED BY <2>2, <3>1, <3>2, OthersKeep DEF IInv
  <2> QED BY <2>1, <2>2 DEF IInv
<1>2. ASSUME NEW s \in Slot, OtherClaims(s) \/ OtherReleases(s)
      PROVE  IInv'
  <2>1. UNCHANGED <<layout, pc, try, root, held, up, stage, view, cmd>>
    BY <1>2 DEF OtherClaims, OtherReleases, stageVars
  <2>2. TypeOK'
    BY <1>2, <2>1 DEF OtherClaims, OtherReleases, IInv, TypeOK
  <2>3. ASSUME NEW m \in Sessions PROVE SessionInv(m)'
    <3>1. HasSlot(m)'
      BY <1>2, <2>1, LaunchAssumption DEF OtherClaims, OtherReleases, IInv, TypeOK, SessionInv, HasSlot
    <3>2. StageHasParent(m)' /\ SeesOwn(m)'
      BY <2>1, RootStays, CommandStays DEF IInv, SessionInv, StageHasParent, SeesOwn, PiRuns
    <3> QED BY <3>1, <3>2 DEF SessionInv
  <2> QED BY <2>2, <2>3 DEF IInv
<1>3. CASE UNCHANGED vars
  <2>1. TypeOK'
    BY <1>3 DEF vars, stageVars, IInv, TypeOK
  <2>2. ASSUME NEW m \in Sessions PROVE SessionInv(m)'
    <3>1. HasSlot(m)' /\ StageHasParent(m)'
      BY <1>3 DEF vars, IInv, SessionInv, HasSlot, StageHasParent
    <3>2. SeesOwn(m)'
      BY <1>3, RootStays, CommandStays DEF vars, IInv, SessionInv, SeesOwn, PiRuns
    <3> QED BY <3>1, <3>2 DEF SessionInv
  <2> QED BY <2>1, <2>2 DEF IInv
<1> QED BY <1>1, <1>2, <1>3 DEF Next

-----------------------------------------------------------------------------
(* Theorems. *)

\* The inductive invariant: types, the flock of each launcher past its claim,
\* the parent of each stage that runs, and the mounts of pi and its command.
THEOREM Invariance == Spec => []IInv
<1> QED BY InitInv, StepInv, PTL DEF Spec

\* Types.
THEOREM Typing == Spec => []TypeOK
<1>1. IInv => TypeOK
  BY DEF IInv
<1> QED BY <1>1, Invariance, PTL

\* main.go:204: for any number of sessions and slots and wherever the project
\* lies, pi finds the project and the database its launcher claimed, and two
\* sessions find the same one only where a launcher was killed.
THEOREM DatabasesOwned == Spec => []OwnDatabase
<1>1. IInv => OwnDatabase
  <2> SUFFICES ASSUME IInv, NEW l \in Sessions, PiRuns(l)
               PROVE  /\ view[l]["project"] = Host(TRUE)
                      /\ view[l]["fff"] = Database(try[l])
                      /\ \A m \in Sessions \ {l} :
                            PiRuns(m) /\ view[m]["fff"] = view[l]["fff"] => "killed" \in {pc[l], pc[m]}
    BY DEF OwnDatabase
  <2>1. \A m \in Sessions : PiRuns(m) => /\ view[m]["project"] = Host(TRUE)
                                         /\ view[m]["fff"] = Database(try[m])
    <3> SUFFICES ASSUME NEW m \in Sessions, PiRuns(m)
                 PROVE  view[m]["project"] = Host(TRUE) /\ view[m]["fff"] = Database(try[m])
      OBVIOUS
    <3>1. layout \in Layouts /\ try[m] \in Slot
      BY DEF IInv, TypeOK
    <3>2. view[m] = RootView(try[m])
      BY DEF IInv, SessionInv, SeesOwn
    <3> QED BY <3>1, <3>2, RootPlaces
  <2>2. ASSUME NEW m \in Sessions \ {l}, PiRuns(m), view[m]["fff"] = view[l]["fff"]
        PROVE  "killed" \in {pc[l], pc[m]}
    <3>1. try[m] = try[l]
      <4>1. Database(try[m]) = Database(try[l])
        BY <2>1, <2>2
      <4>2. \A s : Database(s).of = s
        BY DEF Database
      <4> QED BY <4>1, <4>2
    <3>2. lock[try[l]] # l \/ lock[try[m]] # m
      BY <2>2, <3>1
    <3>3. \A k \in {l, m} : pc[k] \in {"write", "wait", "killed"}
      BY <2>2 DEF IInv, SessionInv, StageHasParent, PiRuns
    <3> QED BY <2>2, <3>2, <3>3 DEF IInv, SessionInv, HasSlot
  <2> QED BY <2>1, <2>2
<1> QED BY <1>1, Invariance, PTL

\* sandbox.go:140: wherever the project lies, no command reaches the control
\* socket or the ingress, and what it can write beneath the project is what
\* its profile says, the database and a home directory in there included.
THEOREM CommandsConfined == Spec => []CommandConfined
<1>1. IInv => CommandConfined
  <2> SUFFICES ASSUME IInv, NEW l \in Sessions, cmd[l].runs
               PROVE  /\ \A p \in {"ingress", "control"} : cmd[l].view[p] = Nothing
                      /\ \A p \in {"project"} \cup layout.inside : cmd[l].view[p].rw = ~cmd[l].ro
    BY DEF CommandConfined
  <2>1. cmd[l].view = CommandView(view[l], cmd[l].ro) /\ view[l] = RootView(try[l])
    BY DEF IInv, SessionInv, SeesOwn, PiRuns
  <2>2. layout \in Layouts /\ try[l] \in Slot /\ view[l] \in View /\ cmd[l].ro \in BOOLEAN
    <3>1. cmd[l] \in {NoCommand} \cup Command
      BY DEF IInv, TypeOK
    <3>2. cmd[l] # NoCommand
      BY DEF NoCommand
    <3>3. cmd[l].ro \in BOOLEAN
      BY <3>1, <3>2 DEF Command
    <3> QED BY <3>3 DEF IInv, TypeOK
  <2>3. \A p \in {"project"} \cup layout.inside : view[l][p].rw
    BY <2>1, <2>2, RootPlaces DEF Host
  <2> QED BY <2>1, <2>2, <2>3, CommandPlaces
<1> QED BY <1>1, Invariance, PTL

=============================================================================
