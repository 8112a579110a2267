----------------------- MODULE GatewayInstance_proofs ------------------------
(***************************************************************************)
(* Proofs about GatewayInstance, for any number of clients, daemons and    *)
(* connections, any set of commands and any faults.                        *)
(***************************************************************************)
EXTENDS GatewayInstance, FiniteSetTheorems, TLAPS

-----------------------------------------------------------------------------
(* The operators on connections. *)

\* A free slot is a connection record.
LEMMA FreeLinkType == FreeLink \in Link
BY ConstantsAssumption DEF FreeLink, Link, Verbs, Replies

\* Collapse forgets a connection nobody has an end of, and only that.
LEMMA CollapseFacts ==
    ASSUME NEW l \in Link
    PROVE  /\ Collapse(l) \in Link
           /\ Collapse(l).srv = l.srv
           /\ Collapse(l).open = l.open
           /\ l.open \/ l.srv # "gone" => Collapse(l) = l
           /\ ~l.open /\ l.srv = "gone" => Collapse(l) = FreeLink
<1>1. /\ FreeLink.srv = "gone"
      /\ FreeLink.open = FALSE
    BY DEF FreeLink
<1>2. l.open \in BOOLEAN
    BY DEF Link
<1> QED  BY <1>1, <1>2, FreeLinkType DEF Collapse

\* Hanging a daemon's connections up leaves connection records.
LEMMA HangupType ==
    ASSUME TypeOK, NEW d
    PROVE  Hangup(d) \in [Conns -> Link]
<1>1. ASSUME NEW k \in Conns
      PROVE  (IF link[k].to = d THEN Collapse([link[k] EXCEPT !.srv = "gone"]) ELSE link[k]) \in Link
    <2>1. link[k] \in Link
        BY DEF TypeOK
    <2>2. [link[k] EXCEPT !.srv = "gone"] \in Link
        BY <2>1 DEF Link
    <2> QED  BY <2>1, <2>2, CollapseFacts
<1> QED  BY <1>1 DEF Hangup

\* So does closing the listener, which resets its backlog.
LEMMA ResetType ==
    ASSUME TypeOK, NEW d
    PROVE  Reset(d) \in [Conns -> Link]
<1>1. ASSUME NEW k \in Conns
      PROVE  (IF link[k].to = d /\ link[k].srv = "queued"
              THEN Collapse([link[k] EXCEPT !.srv = "gone"]) ELSE link[k]) \in Link
    <2>1. link[k] \in Link
        BY DEF TypeOK
    <2>2. [link[k] EXCEPT !.srv = "gone"] \in Link
        BY <2>1 DEF Link
    <2> QED  BY <2>1, <2>2, CollapseFacts
<1> QED  BY <1>1 DEF Reset

\* Closing it under the main goroutine leaves that in a phase.
LEMMA ClosedPhases ==
    ASSUME NEW p \in OpenPhases
    PROVE  Closed(p) \in {"closing", "closeRW", "exit"}
BY DEF Closed, OpenPhases

\* So does a client's close of its end...
LEMMA ClientClosedType ==
    ASSUME TypeOK, NEW k \in Conns
    PROVE  ClientClosed(k) \in [Conns -> Link]
<1>1. link[k] \in Link
    BY DEF TypeOK
<1>2. [link[k] EXCEPT !.open = FALSE] \in Link
    BY <1>1 DEF Link
<1>3. Collapse([link[k] EXCEPT !.open = FALSE]) \in Link
    BY <1>2, CollapseFacts
<1> QED  BY <1>3 DEF ClientClosed, TypeOK

\* ... and a handler's return.
LEMMA ServerClosedType ==
    ASSUME TypeOK, NEW k \in Conns, NEW r \in Replies
    PROVE  ServerClosed(k, r) \in [Conns -> Link]
<1>1. link[k] \in Link
    BY DEF TypeOK
<1>2. [link[k] EXCEPT !.srv = "gone", !.reply = r] \in Link
    BY <1>1 DEF Link
<1>3. Collapse([link[k] EXCEPT !.srv = "gone", !.reply = r]) \in Link
    BY <1>2, CollapseFacts
<1> QED  BY <1>3 DEF ServerClosed, TypeOK

-----------------------------------------------------------------------------
(* Where a client goes. *)

\* The outcome of a probe leads to a client state.
LEMMA SettledStates ==
    ASSUME NEW c, NEW r
    PROVE  /\ Settled(c, r) \in {"idle", "attach", "attached", "poll", "drain", "remove"}
           /\ Settled(c, r) = "attached" =>
                /\ r = "ok"
                /\ IsAttach(op[c])
                /\ pc[c] \notin {"poll", "polling"}
           /\ Settled(c, r) = "drain" => r = "ok" /\ ~IsAttach(op[c])
           /\ op[c] = "list" /\ pc[c] \in {"probe", "probing"} => Settled(c, r) = "idle"
<1>1. \/ Settled(c, r) = "attach"
      \/ Settled(c, r) = "poll"
      \/ Settled(c, r) = "attached" /\ r = "ok" /\ IsAttach(op[c]) /\ pc[c] \notin {"poll", "polling"}
      \/ Settled(c, r) = "drain" /\ r = "ok" /\ op[c] \in {"stop", "forceStop"}
      \/ Settled(c, r) = "remove"
      \/ Settled(c, r) = "idle"
    BY SMT DEF Settled, MayStart, IsAttach
<1>2. op[c] = "list" /\ pc[c] \in {"probe", "probing"} => Settled(c, r) = "idle"
    BY DEF Settled, IsAttach, MayStart
<1> QED  BY <1>1, <1>2 DEF IsAttach

\* A client that moves keeps the types of its variables.
LEMMA GoType ==
    ASSUME TypeOK, NEW c \in Clients, NEW s \in ClientStates, Go(c, s)
    PROVE  /\ lock' \in Clients \cup {None}
           /\ pc' \in [Clients -> ClientStates]
           /\ op' \in [Clients -> AllOps]
           /\ bin' \in [Clients -> Nat]
           /\ child' \in [Clients -> Daemons \cup {None}]
<1>1. lock' \in Clients \cup {None} /\ pc' \in [Clients -> ClientStates]
    BY DEF TypeOK, Go
<1>2. op' = [op EXCEPT ![c] = op'[c]] /\ op'[c] \in AllOps
    BY DEF TypeOK, Go, AllOps
<1>3. bin' = [bin EXCEPT ![c] = bin'[c]] /\ bin'[c] \in Nat
    BY DEF TypeOK, Go
<1>4. child' = [child EXCEPT ![c] = child'[c]] /\ child'[c] \in Daemons \cup {None}
    BY DEF TypeOK, Go
<1>5. op' \in [Clients -> AllOps]
    BY <1>2 DEF TypeOK
<1>6. bin' \in [Clients -> Nat]
    BY <1>3 DEF TypeOK
<1>7. child' \in [Clients -> Daemons \cup {None}]
    BY <1>4 DEF TypeOK
<1> QED  BY <1>1, <1>5, <1>6, <1>7

\* A client that closes its connection keeps theirs.
LEMMA DropType ==
    ASSUME TypeOK, NEW c \in Clients, Drop(c)
    PROVE  /\ conn' \in [Clients -> Conns \cup {None}]
           /\ link' \in [Conns -> Link]
<1>1. conn[c] # None => ClientClosed(conn[c]) \in [Conns -> Link]
    BY ClientClosedType DEF TypeOK
<1> QED  BY <1>1 DEF Drop, TypeOK

\* A dead daemon's variables keep their types.
LEMMA DiesType ==
    ASSUME TypeOK, NEW d, Dies(d)
    PROVE  /\ phase' \in [Daemons -> DaemonPhases]
           /\ proto' \in [Daemons -> Nat]
           /\ active' \in [Daemons -> Int]
<1>1. "dead" \in DaemonPhases /\ 0 \in Nat /\ 0 \in Int
    BY DEF DaemonPhases
<1>2. phase' \in [Daemons -> DaemonPhases]
    BY <1>1 DEF TypeOK, Dies
<1>3. proto' \in [Daemons -> Nat]
    BY <1>1 DEF TypeOK, Dies
<1>4. active' \in [Daemons -> Int]
    BY <1>1 DEF TypeOK, Dies
<1> QED  BY <1>2, <1>3, <1>4

\* A command that gives up keeps the types.
LEMMA FailType ==
    ASSUME TypeOK, NEW c \in Clients, Fail(c),
           (UNCHANGED daemonVars) \/ Dies(child[c])
    PROVE  TypeOK'
<1>1. "idle" \in ClientStates
    BY DEF ClientStates
<1>2. /\ phase' \in [Daemons -> DaemonPhases]
      /\ proto' \in [Daemons -> Nat]
      /\ active' \in [Daemons -> Int]
    BY DiesType DEF TypeOK, daemonVars
<1> QED  BY <1>1, <1>2, GoType, DropType DEF Fail, TypeOK

\* So does one that got the outcome of its probe.
LEMMA SettleType ==
    ASSUME TypeOK, NEW c \in Clients, NEW r, Settle(c, r)
    PROVE  TypeOK'
<1>1. Settled(c, r) \in ClientStates
    BY SettledStates DEF ClientStates
<1>2. /\ conn' \in [Clients -> Conns \cup {None}]
      /\ link' \in [Conns -> Link]
    BY DropType DEF Settle, TypeOK
<1> QED  BY <1>1, <1>2, GoType DEF Settle, TypeOK, daemonVars

-----------------------------------------------------------------------------
(* Types. *)

\* TypeOK holds when nothing runs yet.
LEMMA InitTypeOK == Init => TypeOK
<1> SUFFICES ASSUME Init PROVE TypeOK
    OBVIOUS
<1> QED  BY FreeLinkType DEF Init, TypeOK, ClientStates, AllOps, DaemonPhases

\* The steps of a client and of its user keep TypeOK.
LEMMA ClientTypeOK ==
    ASSUME TypeOK, NEW c \in Clients, ClientStep(c) \/ UserStep(c)
    PROVE  TypeOK'
<1>1. ASSUME NEW o \in Ops, NEW v \in Protocols, Begin(c, o, v) PROVE TypeOK'
    BY <1>1, ConstantsAssumption DEF Begin, TypeOK, ClientStates, daemonVars
<1>2. CASE Lock(c)
    BY <1>2 DEF Lock, TypeOK, ClientStates, daemonVars
<1>3. CASE DialFails(c) \/ GetReply(c) \/ ConnReset(c) \/ ProbeTimeout(c)
    BY <1>3, SettleType DEF DialFails, GetReply, ConnReset, ProbeTimeout
<1>4. CASE Dial(c)
    <2>1. PICK k \in Conns :
            /\ conn' = [conn EXCEPT ![c] = k]
            /\ link' = [link EXCEPT ![k] = [srv |-> "queued", open |-> TRUE, from |-> c,
                                            to |-> path["management"], version |-> bin[c],
                                            verb |-> Verb(c), reply |-> "none"]]
        BY <1>4 DEF Dial
    <2>2. Verb(c) \in Verbs
        BY DEF Verb, Verbs
    <2>3. [srv |-> "queued", open |-> TRUE, from |-> c, to |-> path["management"],
           version |-> bin[c], verb |-> Verb(c), reply |-> "none"] \in Link
        BY <2>2 DEF Link, TypeOK, Sockets, Replies
    <2>4. link' \in [Conns -> Link] /\ conn' \in [Clients -> Conns \cup {None}]
        BY <2>1, <2>3 DEF TypeOK
    <2>5. pc' \in [Clients -> ClientStates]
        BY <1>4 DEF Dial, Awaiting, TypeOK, ClientStates
    <2> QED  BY <1>4, <2>4, <2>5 DEF Dial, TypeOK, daemonVars
<1>5. CASE TokenFails(c) \/ SpawnFails(c) \/ HandOffFails(c) \/ AwaitEOF(c) \/ StopTimeout(c)
           \/ EndSession(c) \/ SessionLost(c) \/ Kill(c)
    BY <1>5, FailType DEF TokenFails, SpawnFails, HandOffFails, AwaitEOF, StopTimeout,
                          EndSession, SessionLost, Kill
<1>6. CASE RemoveSockets(c)
    BY <1>6 DEF RemoveSockets, TypeOK, ClientStates, daemonVars
<1>7. CASE Spawn(c)
    BY <1>7 DEF Spawn, TypeOK, ClientStates, DaemonPhases
<1>8. CASE HandOff(c)
    BY <1>8 DEF HandOff, TypeOK, ClientStates, DaemonPhases
<1>9. CASE PollDeadline(c)
    <2>1. "idle" \in ClientStates
        BY DEF ClientStates
    <2> QED  BY <1>9, <2>1, GoType, DiesType, HangupType DEF PollDeadline, TypeOK
<1> QED  BY <1>1, <1>2, <1>3, <1>4, <1>5, <1>6, <1>7, <1>8, <1>9 DEF ClientStep, UserStep

\* The steps of a daemon's main goroutine keep TypeOK.
LEMMA DaemonTypeOK ==
    ASSUME TypeOK, NEW d \in Daemons, DaemonStep(d) \/ Crash(d) \/ AcceptFails(d)
    PROVE  TypeOK'
<1>1. ASSUME NEW from, NEW s, NEW to \in DaemonPhases, Listen(d, from, s, to) PROVE TypeOK'
    <2>1. /\ phase' \in [Daemons -> DaemonPhases]
          /\ proto' \in [Daemons -> Nat]
          /\ active' \in [Daemons -> Int]
        BY <1>1, DiesType DEF Listen, TypeOK
    <2> QED  BY <1>1, <2>1 DEF Listen, TypeOK, clientVars
<1>2. ASSUME NEW from, NEW s, NEW to \in DaemonPhases, Shut(d, from, s, to) PROVE TypeOK'
    BY <1>2 DEF Shut, TypeOK, clientVars
<1>3. CASE Exit(d) \/ Crash(d)
    BY <1>3, DiesType, HangupType DEF Exit, Crash, TypeOK, clientVars
<1>4. CASE ShutManagement(d)
    BY <1>4, ResetType DEF ShutManagement, CloseManagement, TypeOK, clientVars, DaemonPhases
<1>5. CASE AcceptFails(d)
    BY <1>5 DEF AcceptFails, TypeOK, clientVars, DaemonPhases
<1>6. {"ro", "rw", "serving", "brokenRW", "brokenM", "closeRW", "exit"} \subseteq DaemonPhases
    BY DEF DaemonPhases
<1> QED  BY <1>1, <1>2, <1>3, <1>4, <1>5, <1>6
         DEF DaemonStep, ListenRO, ListenRW, ListenManagement, ShutRO, ShutRW

\* The steps of a handler goroutine keep TypeOK.
LEMMA HandlerTypeOK ==
    ASSUME TypeOK, NEW d \in Daemons, NEW k \in Conns, HandlerStep(d, k)
    PROVE  TypeOK'
<1>1. link[k] \in Link /\ link[k].reply \in Replies
    BY DEF TypeOK, Link
<1>2. ASSUME NEW s \in {"queued", "reading", "attached", "stopping", "stopped", "gone"},
             NEW r \in Replies
      PROVE  /\ [link EXCEPT ![k].srv = s] \in [Conns -> Link]
             /\ [link EXCEPT ![k].srv = s, ![k].reply = r] \in [Conns -> Link]
    BY <1>1 DEF TypeOK, Link
<1>3. CASE Accept(d, k)
    BY <1>2, <1>3, "none" \in Replies DEF Accept, TypeOK, clientVars, daemonVars, Replies
<1>4. CASE Handle(d, k)
    <2>1. Answer(d, k) \in Replies
        BY DEF Answer, Replies
    <2>2. link' \in [Conns -> Link]
        BY <1>2, <1>4, <2>1, ServerClosedType DEF Handle
    <2>3. active' \in [Daemons -> Int]
        BY <1>4 DEF Handle, TypeOK
    <2> QED  BY <1>4, <2>2, <2>3 DEF Handle, TypeOK, clientVars
<1>5. CASE Detach(d, k)
    BY <1>1, <1>5, ServerClosedType DEF Detach, TypeOK, clientVars
<1>6. CASE CloseListener(d, k)
    <2>1. CASE phase[d] \in OpenPhases
        <3>1. Reset(d) \in [Conns -> Link]
            BY ResetType
        <3>2. link' \in [Conns -> Link]
            BY <1>6, <2>1, <3>1 DEF CloseListener, Link
        <3>3. phase' \in [Daemons -> DaemonPhases]
            BY <1>6, <2>1, ClosedPhases DEF CloseListener, TypeOK, DaemonPhases
        <3> QED  BY <1>6, <2>1, <3>2, <3>3 DEF CloseListener, CloseManagement, TypeOK, clientVars
    <2>2. CASE phase[d] \notin OpenPhases
        <3>1. link' \in [Conns -> Link]
            BY <1>2, <1>6, <2>2, "none" \in Replies DEF CloseListener, Replies
        <3> QED  BY <1>6, <2>2, <3>1 DEF CloseListener, TypeOK, clientVars
    <2> QED  BY <2>1, <2>2
<1>7. CASE CloseConn(d, k)
    BY <1>1, <1>7, ServerClosedType DEF CloseConn, TypeOK, clientVars, daemonVars
<1> QED  BY <1>3, <1>4, <1>5, <1>6, <1>7 DEF HandlerStep

\* Every step keeps TypeOK.
LEMMA NextTypeOK == TypeOK /\ [Next]_vars => TypeOK'
<1> SUFFICES ASSUME TypeOK, [Next]_vars PROVE TypeOK'
    OBVIOUS
<1>1. CASE UNCHANGED vars
    BY <1>1 DEF vars, clientVars, daemonVars, TypeOK
<1> QED  BY <1>1, ClientTypeOK, DaemonTypeOK, HandlerTypeOK DEF Next

\* Type correctness.
THEOREM Typing == Spec => []TypeOK
BY InitTypeOK, NextTypeOK, PTL DEF Spec

-----------------------------------------------------------------------------
(* The lock.  LockDiscipline is inductive once it is known that gateway list *)
(* never waits for the lock: a client that takes it is then in an operation. *)

ListTakesNoLock == \A c \in Clients : pc[c] = "lock" => op[c] # "list"

LockInv == TypeOK /\ LockDiscipline /\ ListTakesNoLock

\* A client that goes where the lock is not needed has released it.
LEMMA GoLockInv ==
    ASSUME LockInv, NEW c \in Clients,
           NEW s \in {"idle", "attach", "attached", "poll", "drain", "remove"},
           s \in {"idle", "attached"} \/ Holding(c),
           Go(c, s)
    PROVE  LockDiscipline' /\ ListTakesNoLock'
<1>1. ASSUME NEW e \in Clients, e # c
      PROVE  /\ pc'[e] = pc[e] /\ op'[e] = op[e]
             /\ lock' = e <=> lock = e
    BY <1>1, ConstantsAssumption DEF Go, LockInv, TypeOK
<1>2. pc'[c] = s
    BY DEF Go, LockInv, TypeOK
<1>3. Holding(c)' <=> lock' = c
    <2>1. CASE s \in {"idle", "attached"}
        BY <1>2, <2>1, ConstantsAssumption DEF Go, Holding
    <2>2. CASE s \notin {"idle", "attached"}
        BY <1>2, <2>2 DEF Go, Holding, LockInv, LockDiscipline
    <2> QED  BY <2>1, <2>2
<1>4. ASSUME NEW e \in Clients
      PROVE  /\ Holding(e)' <=> lock' = e
             /\ pc'[e] = "lock" => op'[e] # "list"
    <2>1. CASE e = c
        BY <1>2, <1>3, <2>1
    <2>2. CASE e # c
        BY <1>1, <2>2 DEF Holding, LockInv, LockDiscipline, ListTakesNoLock
    <2> QED  BY <2>1, <2>2
<1> QED  BY <1>4 DEF LockDiscipline, ListTakesNoLock

\* The steps inside an operation: the client has the lock before and after.
LEMMA StayLockInv ==
    ASSUME LockInv, NEW c \in Clients, NEW s \in ClientStates \ {"lock"},
           pc' = [pc EXCEPT ![c] = s], op' = op, lock' = lock,
           Holding(c)' <=> Holding(c)
    PROVE  LockDiscipline' /\ ListTakesNoLock'
<1>1. ASSUME NEW e \in Clients
      PROVE  /\ Holding(e)' <=> lock' = e
             /\ pc'[e] = "lock" => op'[e] # "list"
    <2>1. CASE e = c
        BY <2>1 DEF LockInv, LockDiscipline, TypeOK
    <2>2. CASE e # c
        BY <2>2 DEF Holding, LockInv, LockDiscipline, ListTakesNoLock, TypeOK
    <2> QED  BY <2>1, <2>2
<1> QED  BY <1>1 DEF LockDiscipline, ListTakesNoLock

\* Nobody holds the lock at first.
LEMMA InitLockInv == Init => LockInv
BY InitTypeOK, ConstantsAssumption
   DEF Init, LockInv, LockDiscipline, ListTakesNoLock, Holding

\* The steps of a client keep the lock with whoever is inside an operation.
LEMMA ClientLockInv ==
    ASSUME LockInv, NEW c \in Clients, ClientStep(c) \/ UserStep(c)
    PROVE  LockDiscipline' /\ ListTakesNoLock'
<1>1. ASSUME NEW o \in Ops, NEW v \in Protocols, Begin(c, o, v)
      PROVE  LockDiscipline' /\ ListTakesNoLock'
    <2>1. pc[c] = "idle" /\ lock' = lock
          /\ pc' = [pc EXCEPT ![c] = IF o = "list" THEN "probe" ELSE "lock"]
          /\ op' = [op EXCEPT ![c] = o]
        BY <1>1 DEF Begin
    <2>2. ASSUME NEW e \in Clients
          PROVE  /\ Holding(e)' <=> lock' = e
                 /\ pc'[e] = "lock" => op'[e] # "list"
        <3>1. CASE e = c
            BY <2>1, <3>1 DEF Holding, LockInv, LockDiscipline, TypeOK
        <3>2. CASE e # c
            BY <2>1, <3>2 DEF Holding, LockInv, LockDiscipline, ListTakesNoLock, TypeOK
        <3> QED  BY <3>1, <3>2
    <2> QED  BY <2>2 DEF LockDiscipline, ListTakesNoLock
<1>2. CASE Lock(c)
    <2>1. pc[c] = "lock" /\ lock = None /\ lock' = c /\ op' = op
          /\ pc' = [pc EXCEPT ![c] = "probe"]
        BY <1>2 DEF Lock
    <2>2. ASSUME NEW e \in Clients
          PROVE  /\ Holding(e)' <=> lock' = e
                 /\ pc'[e] = "lock" => op'[e] # "list"
        <3>1. CASE e = c
            BY <2>1, <3>1 DEF Holding, LockInv, ListTakesNoLock, TypeOK
        <3>2. CASE e # c
            BY <2>1, <3>2, ConstantsAssumption
               DEF Holding, LockInv, LockDiscipline, ListTakesNoLock, TypeOK
        <3> QED  BY <3>1, <3>2
    <2> QED  BY <2>2 DEF LockDiscipline, ListTakesNoLock
<1>3. CASE DialFails(c) \/ GetReply(c) \/ ConnReset(c) \/ ProbeTimeout(c)
    <2>1. PICK r : Settle(c, r)
        BY <1>3 DEF DialFails, GetReply, ConnReset, ProbeTimeout
    <2>2. pc[c] \in {"probe", "poll", "attach", "probing", "polling", "attaching"}
        BY <1>3 DEF DialFails, GetReply, ConnReset, ProbeTimeout, Waiting
    <2>3. Settled(c, r) = "idle" \/ Holding(c)
        BY <2>2, SettledStates DEF Holding
    <2> QED  BY <2>1, <2>3, SettledStates, GoLockInv DEF Settle
<1>4. CASE Dial(c)
    <2>1. pc[c] \in {"probe", "poll", "attach"} /\ pc' = [pc EXCEPT ![c] = Awaiting(pc[c])]
          /\ op' = op /\ lock' = lock
        BY <1>4 DEF Dial
    <2>2. /\ Awaiting(pc[c]) \in {"probing", "polling", "attaching"}
          /\ pc[c] = "probe" <=> Awaiting(pc[c]) = "probing"
        BY <2>1 DEF Awaiting
    <2>3. pc'[c] = Awaiting(pc[c])
        BY <2>1 DEF LockInv, TypeOK
    <2>4. Holding(c)' <=> Holding(c)
        BY <2>1, <2>2, <2>3 DEF Holding
    <2> QED  BY <2>1, <2>2, <2>4, StayLockInv DEF ClientStates
<1>5. CASE TokenFails(c) \/ SpawnFails(c) \/ HandOffFails(c) \/ AwaitEOF(c) \/ StopTimeout(c)
           \/ EndSession(c) \/ SessionLost(c) \/ Kill(c) \/ PollDeadline(c)
    BY <1>5, GoLockInv DEF TokenFails, SpawnFails, HandOffFails, AwaitEOF, StopTimeout,
                           EndSession, SessionLost, Kill, PollDeadline, Fail
<1>6. CASE RemoveSockets(c) \/ Spawn(c) \/ HandOff(c)
    <2>1. PICK s \in {"spawn", "handoff", "poll"} : pc' = [pc EXCEPT ![c] = s]
        BY <1>6 DEF RemoveSockets, Spawn, HandOff
    <2>2. pc[c] \in {"remove", "spawn", "handoff"} /\ op' = op /\ lock' = lock
        BY <1>6 DEF RemoveSockets, Spawn, HandOff
    <2>3. Holding(c) /\ Holding(c)'
        BY <2>1, <2>2 DEF Holding, LockInv, TypeOK
    <2> QED  BY <2>1, <2>2, <2>3, StayLockInv DEF ClientStates
<1> QED  BY <1>1, <1>2, <1>3, <1>4, <1>5, <1>6 DEF ClientStep, UserStep

\* Every step does: daemons never touch the flock.
LEMMA NextLockInv == LockInv /\ [Next]_vars => LockInv'
<1> SUFFICES ASSUME LockInv, [Next]_vars PROVE LockInv'
    OBVIOUS
<1>1. TypeOK'
    BY NextTypeOK DEF LockInv
<1>2. ASSUME NEW d \in Daemons,
             DaemonStep(d) \/ Crash(d) \/ AcceptFails(d) \/ \E k \in Conns : HandlerStep(d, k)
      PROVE  UNCHANGED <<lock, clientVars>>
    BY <1>2 DEF DaemonStep, ListenRO, ListenRW, ListenManagement, Listen, ShutRO, ShutRW, Shut,
                ShutManagement, Exit, Crash, AcceptFails, HandlerStep, Accept, Handle, Detach, CloseListener, CloseConn
<1>3. ASSUME UNCHANGED <<lock, clientVars>> PROVE LockDiscipline' /\ ListTakesNoLock'
    BY <1>3 DEF clientVars, LockInv, LockDiscipline, ListTakesNoLock, Holding
<1> QED  BY <1>1, <1>2, <1>3, ClientLockInv DEF Next, vars, LockInv

\* Starting, stopping and attaching exclude each other, and the lock is never
\* left behind (lockInstance and its deferred Close).
THEOREM LockSafe == Spec => []LockDiscipline
<1>1. LockInv => LockDiscipline
    BY DEF LockInv
<1> QED  BY <1>1, InitLockInv, NextLockInv, PTL DEF Spec

-----------------------------------------------------------------------------
(* Sessions and the count.  What is needed beside the lock: who owns which  *)
(* end of a connection (Own), what an attachment that was granted is on the *)
(* daemon's side (Grant), that only a daemon past its listeners has         *)
(* connections (Served), and that a daemon waiting for its credential has   *)
(* not got that far (ChildWaits).                                           *)

HasConn(c) == pc[c] \in {"probing", "polling", "attaching", "drain", "attached"}

WantsAttach(c) ==
    \/ pc[c] \in {"attaching", "attached"}
    \/ pc[c] = "probing" /\ IsAttach(op[c])

Own(c) ==
    IF HasConn(c)
    THEN /\ conn[c] \in Conns
         /\ link[conn[c]].open
         /\ link[conn[c]].from = c
         /\ WantsAttach(c) => link[conn[c]].verb = "attach"
         /\ pc[c] = "attached" => link[conn[c]].reply = "ok"
    ELSE conn[c] = None

Grant(k) ==
    link[k].open /\ link[k].verb = "attach" /\ link[k].reply = "ok" =>
        /\ link[k].srv \in {"attached", "gone"}
        /\ link[k].srv = "gone" => \A d \in Daemons : link[k].to = d => ~Alive(d)

ServingPhases == OpenPhases \cup {"closing", "closeRW", "exit"}
Serves(d) == phase[d] \in ServingPhases

Served(k) == link[k].srv # "gone" => \A d \in Daemons : link[k].to = d => Serves(d)

ChildWaits ==
    \A c \in Clients : pc[c] = "handoff" =>
        child[c] \in Daemons /\ phase[child[c]] \in {"boot", "dead"}

Attachments(d) == {k \in Conns : link[k].to = d /\ link[k].srv = "attached"}

IInv ==
    /\ LockInv
    /\ \A c \in Clients : Own(c)
    /\ \A k \in Conns : Grant(k) /\ Served(k)
    /\ ChildWaits
    /\ CountExact

-----------------------------------------------------------------------------
(* What closing an end does, connection by connection. *)

\* What closing its end does to a client's connection, and to no other.
LEMMA DropFacts ==
    ASSUME TypeOK, NEW c \in Clients, Drop(c), NEW j \in Conns
    PROVE  /\ j # conn[c] => link'[j] = link[j]
           /\ link'[j].srv = link[j].srv
           /\ link'[j].open => link'[j] = link[j]
           /\ link[j].srv # "gone" => link'[j].to = link[j].to /\ link'[j].verb = link[j].verb
<1>1. CASE conn[c] = None
    BY <1>1 DEF Drop
<1>2. CASE conn[c] # None
    <2> DEFINE l == [link[conn[c]] EXCEPT !.open = FALSE]
    <2>1. conn[c] \in Conns /\ link[conn[c]] \in Link
        BY <1>2 DEF TypeOK
    <2>2. /\ l \in Link /\ l.open = FALSE /\ l.srv = link[conn[c]].srv /\ l.to = link[conn[c]].to
          /\ l.verb = link[conn[c]].verb
        BY <2>1 DEF Link
    <2>3. link' = [link EXCEPT ![conn[c]] = Collapse(l)]
        BY <1>2 DEF Drop, ClientClosed
    <2> HIDE DEF l
    <2>4. /\ Collapse(l).srv = l.srv
          /\ Collapse(l).open = FALSE
          /\ l.srv # "gone" => Collapse(l) = l
        BY <2>2, CollapseFacts
    <2> QED  BY <2>1, <2>2, <2>3, <2>4 DEF TypeOK
<1> QED  BY <1>1, <1>2

\* What a handler's return does to its connection, and to no other.
LEMMA ServerClosedFacts ==
    ASSUME TypeOK, NEW k \in Conns, NEW r \in Replies, link' = ServerClosed(k, r), NEW j \in Conns
    PROVE  /\ j # k => link'[j] = link[j]
           /\ link'[k].srv = "gone"
           /\ link'[j].open = link[j].open
           /\ link[k].open => /\ link'[k].reply = r
                              /\ link'[k].from = link[k].from
                              /\ link'[k].to = link[k].to
                              /\ link'[k].verb = link[k].verb
<1> DEFINE l == [link[k] EXCEPT !.srv = "gone", !.reply = r]
<1>1. link[k] \in Link
    BY DEF TypeOK
<1>2. /\ l \in Link /\ l.srv = "gone" /\ l.open = link[k].open /\ l.reply = r
      /\ l.from = link[k].from /\ l.to = link[k].to /\ l.verb = link[k].verb
    BY <1>1 DEF Link
<1>3. link' = [link EXCEPT ![k] = Collapse(l)]
    BY DEF ServerClosed
<1> HIDE DEF l
<1>4. /\ Collapse(l).srv = "gone"
      /\ Collapse(l).open = l.open
      /\ l.open => Collapse(l) = l
    BY <1>2, CollapseFacts
<1> QED  BY <1>2, <1>3, <1>4 DEF TypeOK

\* What a daemon's death does to its connections, and to no other.
LEMMA HangupFacts ==
    ASSUME TypeOK, NEW d, link' = Hangup(d), NEW j \in Conns
    PROVE  /\ link[j].to # d => link'[j] = link[j]
           /\ link[j].to = d => link'[j].srv = "gone"
           /\ link'[j].open = link[j].open
           /\ link[j].open => /\ link'[j].reply = link[j].reply
                              /\ link'[j].from = link[j].from
                              /\ link'[j].to = link[j].to
                              /\ link'[j].verb = link[j].verb
<1> DEFINE l == [link[j] EXCEPT !.srv = "gone"]
<1>1. link[j] \in Link
    BY DEF TypeOK
<1>2. /\ l \in Link /\ l.srv = "gone" /\ l.open = link[j].open /\ l.reply = link[j].reply
      /\ l.from = link[j].from /\ l.to = link[j].to /\ l.verb = link[j].verb
    BY <1>1 DEF Link
<1>3. link'[j] = IF link[j].to = d THEN Collapse(l) ELSE link[j]
    BY DEF Hangup
<1> HIDE DEF l
<1>4. /\ Collapse(l).srv = "gone"
      /\ Collapse(l).open = l.open
      /\ l.open => Collapse(l) = l
    BY <1>2, CollapseFacts
<1> QED  BY <1>2, <1>3, <1>4

\* An end that hung up leaves no trace of an earlier daemon.
LEMMA HangupClean ==
    ASSUME TypeOK, NEW d, link' = Hangup(d), NEW j \in Conns, NEW e \in Daemons, e # d
    PROVE  link'[j].to = e /\ link'[j].srv = "attached" <=> link[j].to = e /\ link[j].srv = "attached"
BY HangupFacts

\* The management listener is closed by a stop's handler or, where accepting
\* failed, by the main goroutine.
Closes(d) ==
    /\ phase[d] \in OpenPhases
    /\ ShutManagement(d) \/ \E k \in Conns : CloseListener(d, k)

\* What it does to the daemon...
LEMMA ClosesFacts ==
    ASSUME TypeOK, NEW d \in Daemons, Closes(d)
    PROVE  /\ phase[d] \in OpenPhases
           /\ phase'[d] \in {"closing", "closeRW", "exit"}
           /\ \A e \in Daemons \ {d} : phase'[e] = phase[e]
           /\ CloseManagement
           /\ UNCHANGED <<lock, clientVars, proto, active>>
BY ClosedPhases DEF Closes, ShutManagement, CloseListener, TypeOK

\* ... and to connections: it resets the backlog, and the stop is done.
LEMMA ClosesLinks ==
    ASSUME TypeOK, NEW d \in Daemons, Closes(d), NEW j \in Conns
    PROVE  /\ \/ link'[j] = link[j]
              \/ /\ link[j].to = d /\ link[j].srv = "queued" /\ link'[j].srv = "gone"
                 /\ link'[j] = [link[j] EXCEPT !.srv = "gone"] \/ link'[j] = FreeLink
              \/ /\ link[j].to = d /\ link[j].srv = "stopping" /\ link'[j].srv = "stopped"
                 /\ link'[j].to = d /\ link'[j].verb = link[j].verb
                 /\ link'[j].reply = link[j].reply
           /\ link'[j].open = link[j].open
           /\ link[j].open => /\ link'[j].reply = link[j].reply
                              /\ link'[j].from = link[j].from
                              /\ link'[j].to = link[j].to
                              /\ link'[j].verb = link[j].verb
<1> DEFINE l == [link[j] EXCEPT !.srv = "gone"]
           m == [link[j] EXCEPT !.srv = "stopped"]
<1>1. link[j] \in Link /\ Reset(d) \in [Conns -> Link]
    BY ResetType DEF TypeOK
<1>2. /\ l \in Link /\ l.srv = "gone" /\ l.open = link[j].open /\ l.reply = link[j].reply
      /\ l.from = link[j].from /\ l.to = link[j].to /\ l.verb = link[j].verb
      /\ m.srv = "stopped" /\ m.open = link[j].open /\ m.reply = link[j].reply
      /\ m.from = link[j].from /\ m.to = link[j].to /\ m.verb = link[j].verb
    BY <1>1 DEF Link
<1>3. Reset(d)[j] = IF link[j].to = d /\ link[j].srv = "queued" THEN Collapse(l) ELSE link[j]
    BY DEF Reset
<1>4. link'[j] = Reset(d)[j] \/ (link[j].to = d /\ link[j].srv = "stopping" /\ link'[j] = m)
    <2>1. CASE ShutManagement(d)
        BY <2>1 DEF ShutManagement
    <2>2. ASSUME NEW k \in Conns, CloseListener(d, k)
          PROVE  link'[j] = Reset(d)[j] \/ (link[j].to = d /\ link[j].srv = "stopping" /\ link'[j] = m)
        <3>1. /\ link[k].to = d /\ link[k].srv = "stopping"
              /\ link' = [Reset(d) EXCEPT ![k].srv = "stopped"]
            BY <2>2 DEF CloseListener, Closes
        <3>2. j = k => Reset(d)[j] = link[j]
            BY <1>3, <3>1
        <3> HIDE DEF l
        <3> QED  BY <1>1, <3>1, <3>2
    <2> QED  BY <2>1, <2>2 DEF Closes
<1> HIDE DEF l, m
<1>5. /\ Collapse(l).srv = "gone" /\ Collapse(l) \in {l, FreeLink}
      /\ Collapse(l).open = l.open
      /\ l.open => Collapse(l) = l
    BY <1>2, CollapseFacts DEF Collapse
<1>6. CASE link'[j] = m /\ link[j].to = d /\ link[j].srv = "stopping"
    BY <1>2, <1>6
<1>7. CASE link'[j] = link[j]
    BY <1>7
<1>8. CASE link'[j] = Collapse(l) /\ link[j].to = d /\ link[j].srv = "queued"
    BY <1>2, <1>5, <1>8 DEF l
<1> QED  BY <1>3, <1>4, <1>6, <1>7, <1>8

-----------------------------------------------------------------------------
(* Frames: the parts a step leaves alone. *)

\* A step that keeps a connection's ends, its daemon and its client keeps Own.
LEMMA OwnKept ==
    ASSUME NEW e \in Clients, Own(e),
           pc'[e] = pc[e], op'[e] = op[e], conn'[e] = conn[e],
           HasConn(e) =>
               /\ link'[conn[e]].open
               /\ link'[conn[e]].from = link[conn[e]].from
               /\ link'[conn[e]].verb = link[conn[e]].verb
               /\ pc[e] = "attached" => link'[conn[e]].reply = link[conn[e]].reply
    PROVE  Own(e)'
BY DEF Own, HasConn, WantsAttach

\* Two clients never hold the same connection.
LEMMA OwnDistinct ==
    ASSUME NEW c \in Clients, NEW e \in Clients, c # e, Own(c), Own(e), HasConn(e)
    PROVE  conn[e] # conn[c]
<1>1. conn[e] \in Conns /\ link[conn[e]].from = e
    BY DEF Own
<1>2. HasConn(c) => link[conn[c]].from = c
    BY DEF Own
<1>3. ~HasConn(c) => conn[c] = None
    BY DEF Own
<1> QED  BY <1>1, <1>2, <1>3, ConstantsAssumption

\* Only the holder of the lock has a child that waits for its credential.
LEMMA OneHandoff ==
    ASSUME LockInv, NEW c \in Clients, NEW e \in Clients, e # c, Holding(c)
    PROVE  pc[e] # "handoff"
BY DEF LockInv, LockDiscipline, Holding

\* A child that keeps its parent and waits no less keeps ChildWaits.
LEMMA ChildKept ==
    ASSUME ChildWaits,
           \A e \in Clients : pc'[e] = "handoff" => pc[e] = "handoff" /\ child'[e] = child[e],
           \A d \in Daemons : phase[d] \in {"boot", "dead"} => phase'[d] \in {"boot", "dead"}
    PROVE  ChildWaits'
BY DEF ChildWaits

\* A count stays exact while the daemon's attachments stay what they are.
LEMMA CountKept ==
    ASSUME CountExact, NEW d \in Daemons, active'[d] = active[d],
           \A k \in Conns : link'[k].to = d /\ link'[k].srv = "attached"
                              <=> link[k].to = d /\ link[k].srv = "attached"
    PROVE  active'[d] = Cardinality(Attachments(d)')
<1>1. Attachments(d)' = Attachments(d)
    BY DEF Attachments
<1> QED  BY <1>1 DEF CountExact, Attachments

\* A daemon without connections has no attachment to count.
LEMMA CountNone ==
    ASSUME NEW d \in Daemons, active'[d] = 0,
           \A k \in Conns : ~(link'[k].to = d /\ link'[k].srv = "attached")
    PROVE  active'[d] = Cardinality(Attachments(d)')
<1>1. Attachments(d)' = {}
    BY DEF Attachments
<1> QED  BY <1>1, FS_EmptySet

\* CountExact follows from each daemon's count.
LEMMA CountFromEach ==
    ASSUME \A d \in Daemons : active'[d] = Cardinality(Attachments(d)')
    PROVE  CountExact'
BY DEF CountExact, Attachments

-----------------------------------------------------------------------------
(* The steps of a client. *)

Rest ==
    /\ \A c \in Clients : Own(c)
    /\ \A k \in Conns : Grant(k) /\ Served(k)
    /\ ChildWaits
    /\ CountExact

\* The other clients do not move.
OthersStay(c) ==
    \A e \in Clients \ {c} : pc'[e] = pc[e] /\ op'[e] = op[e] /\ child'[e] = child[e]

\* No daemon moves, but for one that dies before it serves.
DaemonsStay ==
    \A d \in Daemons :
        \/ phase'[d] = phase[d] /\ active'[d] = active[d]
        \/ ~Serves(d) /\ phase'[d] = "dead" /\ active'[d] = 0

Connectionless == {"idle", "lock", "probe", "remove", "spawn", "poll", "attach"}

\* Closing its end takes a client out of the picture and changes nothing else.
LEMMA DropRest ==
    ASSUME IInv, NEW c \in Clients, Drop(c), pc'[c] \in Connectionless, OthersStay(c), DaemonsStay
    PROVE  Rest'
<1> USE DEF IInv, OthersStay, DaemonsStay, Connectionless
<1>1. TypeOK
    BY DEF LockInv
<1>2. conn' = [conn EXCEPT ![c] = None]
    BY DEF Drop
<1>3. ASSUME NEW e \in Clients PROVE Own(e)'
    <2>1. CASE e = c
        BY <1>1, <1>2, <2>1 DEF Own, HasConn, TypeOK
    <2>2. CASE e # c
        <3>1. conn'[e] = conn[e]
            BY <1>1, <1>2, <2>2 DEF TypeOK
        <3>2. HasConn(e) => conn[e] \in Conns /\ conn[e] # conn[c]
            BY <2>2, OwnDistinct DEF Own
        <3>3. HasConn(e) => link'[conn[e]] = link[conn[e]]
            BY <1>1, <3>2, DropFacts
        <3>4. HasConn(e) => link[conn[e]].open
            BY DEF Own
        <3> QED  BY <2>2, <3>1, <3>3, <3>4, OwnKept
    <2> QED  BY <2>1, <2>2
<1>4. ASSUME NEW j \in Conns PROVE Grant(j)' /\ Served(j)'
    <2>1. /\ link'[j].srv = link[j].srv
          /\ link'[j].open => link'[j] = link[j]
          /\ link[j].srv # "gone" => link'[j].to = link[j].to
        BY <1>1, DropFacts
    <2>2. Grant(j)'
        BY <2>1 DEF Grant, Alive
    <2>3. Served(j)'
        BY <2>1 DEF Served, Serves
    <2> QED  BY <2>2, <2>3
<1>5. ChildWaits'
    BY ChildKept
<1>6. ASSUME NEW d \in Daemons PROVE active'[d] = Cardinality(Attachments(d)')
    <2>1. ASSUME NEW k \in Conns
          PROVE  link'[k].to = d /\ link'[k].srv = "attached"
                 <=> link[k].to = d /\ link[k].srv = "attached"
        BY <1>1, DropFacts
    <2>2. CASE active'[d] = active[d]
        BY <2>1, <2>2, CountKept
    <2>3. CASE ~Serves(d) /\ active'[d] = 0
        <3>1. \A k \in Conns : ~(link[k].to = d /\ link[k].srv = "attached")
            BY <2>3 DEF Served
        <3> QED  BY <2>1, <2>3, <3>1, CountNone
    <2> QED  BY <2>2, <2>3
<1>7. CountExact'
    BY <1>6, CountFromEach
<1> QED  BY <1>3, <1>4, <1>5, <1>7 DEF Rest

\* What Go says of the others and of the client itself.
LEMMA GoFacts ==
    ASSUME TypeOK, NEW c \in Clients, NEW s, Go(c, s)
    PROVE  /\ pc'[c] = s
           /\ s # "idle" => op'[c] = op[c]
           /\ OthersStay(c)
BY DEF TypeOK, Go, OthersStay

\* A command that gives up keeps the invariant.
LEMMA FailRest ==
    ASSUME IInv, NEW c \in Clients, Fail(c),
           \/ UNCHANGED daemonVars
           \/ pc[c] = "handoff" /\ Dies(child[c])
    PROVE  Rest'
<1> USE DEF IInv
<1>1. TypeOK
    BY DEF LockInv
<1>2. /\ pc'[c] = "idle"
      /\ OthersStay(c)
    BY <1>1, GoFacts DEF Fail
<1>3. DaemonsStay
    <2>1. CASE UNCHANGED daemonVars
        BY <2>1 DEF daemonVars, DaemonsStay, Serves
    <2>2. CASE pc[c] = "handoff" /\ Dies(child[c])
        BY <1>1, <2>2 DEF ChildWaits, Dies, Serves, ServingPhases, OpenPhases, TypeOK, DaemonsStay
    <2> QED  BY <2>1, <2>2
<1>4. Drop(c) /\ pc'[c] \in Connectionless
    BY <1>2 DEF Fail, Connectionless
<1> HIDE DEF IInv
<1> QED  BY <1>2, <1>3, <1>4, DropRest

\* A probe's outcome keeps the invariant.
LEMMA SettleRest ==
    ASSUME IInv, NEW c \in Clients, NEW r, Settle(c, r),
           r = "ok" => Waiting(c) /\ link[conn[c]].reply = r
    PROVE  Rest'
<1> USE DEF IInv
<1> DEFINE s == Settled(c, r)
<1>1. TypeOK
    BY DEF LockInv
<1>2. /\ pc'[c] = s
      /\ s # "idle" => op'[c] = op[c]
      /\ OthersStay(c)
    BY <1>1, GoFacts DEF Settle
<1>3. UNCHANGED <<phase, active>>
    BY DEF Settle, daemonVars
<1>4. CASE s \notin {"drain", "attached"}
    <2>1. Drop(c)
        BY <1>4 DEF Settle
    <2>2. pc'[c] \in Connectionless
        BY <1>2, <1>4, SettledStates DEF Connectionless
    <2>3. DaemonsStay
        BY <1>3 DEF DaemonsStay, Serves
    <2> HIDE DEF IInv, s
    <2> QED  BY <1>2, <2>1, <2>2, <2>3, DropRest
<1>5. CASE s \in {"drain", "attached"}
    <2>1. UNCHANGED <<conn, link>>
        BY <1>5 DEF Settle
    <2>2. r = "ok" /\ HasConn(c)
        BY <1>5, SettledStates DEF HasConn, Waiting
    <2>3. s = "attached" => WantsAttach(c)
        <3>1. s = "attached" => IsAttach(op[c]) /\ pc[c] \notin {"poll", "polling"}
            BY SettledStates
        <3> QED  BY <2>2, <3>1 DEF WantsAttach, Waiting
    <2>4. ASSUME NEW e \in Clients PROVE Own(e)'
        <3>1. CASE e = c
            BY <1>2, <1>5, <2>1, <2>2, <2>3, <3>1 DEF Own, HasConn, WantsAttach
        <3>2. CASE e # c
            BY <1>2, <2>1, <3>2, OwnKept DEF Own, OthersStay
        <3> QED  BY <3>1, <3>2
    <2>5. ASSUME NEW j \in Conns PROVE Grant(j)' /\ Served(j)'
        BY <1>3, <2>1 DEF Grant, Served, Serves, Alive
    <2>6. ChildWaits'
        BY <1>2, <1>3, <1>5, ChildKept DEF OthersStay
    <2>7. CountExact'
        BY <1>3, <2>1 DEF CountExact
    <2> QED  BY <2>4, <2>5, <2>6, <2>7 DEF Rest
<1> QED  BY <1>4, <1>5

\* A step that touches neither connections nor daemons.
LEMMA QuietRest ==
    ASSUME IInv, NEW c \in Clients, NEW s \in Connectionless,
           pc[c] \in Connectionless, pc' = [pc EXCEPT ![c] = s],
           \A e \in Clients \ {c} : op'[e] = op[e],
           UNCHANGED <<conn, child, daemonVars, link>>
    PROVE  Rest'
<1> USE DEF IInv, Connectionless, daemonVars
<1>1. TypeOK
    BY DEF LockInv
<1>2. ASSUME NEW e \in Clients PROVE Own(e)'
    <2>1. CASE e = c
        BY <1>1, <2>1 DEF Own, HasConn, TypeOK
    <2>2. CASE e # c
        BY <1>1, <2>2, OwnKept DEF Own, TypeOK
    <2> QED  BY <2>1, <2>2
<1>3. ASSUME NEW j \in Conns PROVE Grant(j)' /\ Served(j)'
    BY DEF Grant, Served, Serves, Alive
<1>4. ChildWaits'
    <2>1. \A e \in Clients : pc'[e] = "handoff" => pc[e] = "handoff" /\ child'[e] = child[e]
        BY <1>1 DEF TypeOK
    <2> QED  BY <2>1, ChildKept
<1>5. CountExact'
    BY DEF CountExact
<1> QED  BY <1>2, <1>3, <1>4, <1>5 DEF Rest

\* Connecting keeps the invariant.
LEMMA DialRest ==
    ASSUME IInv, NEW c \in Clients, Dial(c)
    PROVE  Rest'
<1> USE DEF IInv
<1>1. TypeOK
    BY DEF LockInv
<1>2. PICK k \in Conns :
        /\ FreeConn(k)
        /\ conn' = [conn EXCEPT ![c] = k]
        /\ link' = [link EXCEPT ![k] = [srv |-> "queued", open |-> TRUE, from |-> c,
                                        to |-> path["management"], version |-> bin[c],
                                        verb |-> Verb(c), reply |-> "none"]]
    BY DEF Dial
<1>3. /\ pc[c] \in {"probe", "poll", "attach"}
      /\ pc' = [pc EXCEPT ![c] = Awaiting(pc[c])]
      /\ path["management"] \in Daemons /\ Serves(path["management"])
      /\ UNCHANGED <<op, child, phase, active>>
    BY <1>1 DEF Dial, Listening, Serves, ServingPhases, TypeOK, Sockets, daemonVars
<1>4. /\ link'[k] = [srv |-> "queued", open |-> TRUE, from |-> c,
                     to |-> path["management"], version |-> bin[c],
                     verb |-> Verb(c), reply |-> "none"]
      /\ \A j \in Conns \ {k} : link'[j] = link[j]
    BY <1>1, <1>2 DEF TypeOK
<1>5. ASSUME NEW e \in Clients PROVE Own(e)'
    <2>1. CASE e = c
        <3>1. conn'[c] = k /\ pc'[c] = Awaiting(pc[c])
            BY <1>1, <1>2, <1>3 DEF TypeOK
        <3>2. pc'[c] \in {"probing", "polling", "attaching"}
            BY <1>3, <3>1 DEF Awaiting
        <3>3. WantsAttach(c)' => Verb(c) = "attach"
            BY <1>3, <3>1 DEF WantsAttach, Awaiting, Verb, IsAttach
        <3> QED  BY <1>4, <2>1, <3>1, <3>2, <3>3 DEF Own, HasConn
    <2>2. CASE e # c
        <3>1. conn'[e] = conn[e] /\ pc'[e] = pc[e]
            BY <1>1, <1>2, <1>3, <2>2 DEF TypeOK
        <3>2. HasConn(e) => conn[e] \in Conns /\ link[conn[e]].open /\ conn[e] # k
            BY <1>2 DEF Own, FreeConn
        <3> QED  BY <1>3, <1>4, <3>1, <3>2, OwnKept
    <2> QED  BY <2>1, <2>2
<1>6. ASSUME NEW j \in Conns PROVE Grant(j)' /\ Served(j)'
    <2>1. CASE j = k
        BY <1>3, <1>4, <2>1 DEF Grant, Served, Serves
    <2>2. CASE j # k
        BY <1>3, <1>4, <2>2 DEF Grant, Served, Serves, Alive
    <2> QED  BY <2>1, <2>2
<1>7. ChildWaits'
    <2>1. \A e \in Clients : pc'[e] = "handoff" => pc[e] = "handoff" /\ child'[e] = child[e]
        BY <1>1, <1>3 DEF TypeOK, Awaiting
    <2> QED  BY <1>3, <2>1, ChildKept
<1>8. CountExact'
    <2>1. ASSUME NEW d \in Daemons PROVE active'[d] = Cardinality(Attachments(d)')
        <3>1. link[k].srv = "gone"
            BY <1>2 DEF FreeConn
        <3> QED  BY <1>3, <1>4, <3>1, CountKept
    <2> QED  BY <2>1, CountFromEach
<1> QED  BY <1>5, <1>6, <1>7, <1>8 DEF Rest

\* Taking a free slot for a new daemon keeps the invariant.
LEMMA SpawnRest ==
    ASSUME IInv, NEW c \in Clients, Spawn(c)
    PROVE  Rest'
<1> USE DEF IInv
<1>1. TypeOK
    BY DEF LockInv
<1>2. PICK d \in Daemons : /\ FreeDaemon(d)
                          /\ phase' = [phase EXCEPT ![d] = "boot"]
                          /\ child' = [child EXCEPT ![c] = d]
    BY DEF Spawn
<1>3. pc[c] = "spawn" /\ pc' = [pc EXCEPT ![c] = "handoff"] /\ UNCHANGED <<op, conn, active, link>>
    BY DEF Spawn
<1>4. ASSUME NEW e \in Clients PROVE Own(e)'
    <2>1. CASE e = c
        BY <1>1, <1>3, <2>1 DEF Own, HasConn, TypeOK
    <2>2. CASE e # c
        BY <1>1, <1>3, <2>2, OwnKept DEF Own, TypeOK
    <2> QED  BY <2>1, <2>2
<1>5. ASSUME NEW j \in Conns PROVE Grant(j)' /\ Served(j)'
    <2>1. link'[j] = link[j] /\ link[j].to # d
        BY <1>2, <1>3 DEF FreeDaemon
    <2>2. \A e \in Daemons : e # d => phase'[e] = phase[e]
        BY <1>1, <1>2 DEF TypeOK
    <2>3. Grant(j)'
        BY <2>1, <2>2 DEF Grant, Alive
    <2>4. Served(j)'
        BY <2>1, <2>2 DEF Served, Serves
    <2> QED  BY <2>3, <2>4
<1>6. ChildWaits'
    <2>1. ASSUME NEW e \in Clients, pc'[e] = "handoff"
          PROVE  child'[e] \in Daemons /\ phase'[child'[e]] \in {"boot", "dead"}
        <3>1. e = c
            BY <1>1, <1>3, <2>1, OneHandoff DEF Holding, TypeOK
        <3> QED  BY <1>1, <1>2, <3>1 DEF TypeOK
    <2> QED  BY <2>1 DEF ChildWaits
<1>7. CountExact'
    BY <1>3 DEF CountExact
<1> QED  BY <1>4, <1>5, <1>6, <1>7 DEF Rest

\* The hand-off of the credential keeps the invariant.
LEMMA HandOffRest ==
    ASSUME IInv, NEW c \in Clients, HandOff(c)
    PROVE  Rest'
<1> USE DEF IInv
<1>1. TypeOK
    BY DEF LockInv
<1>2. /\ pc[c] = "handoff" /\ pc' = [pc EXCEPT ![c] = "poll"]
      /\ phase' = [phase EXCEPT ![child[c]] = "keyed"]
      /\ Alive(child[c])
      /\ UNCHANGED <<op, conn, child, active, link>>
    BY DEF HandOff
<1>3. child[c] \in Daemons /\ phase[child[c]] = "boot"
    BY <1>2 DEF ChildWaits, Alive
<1>4. ASSUME NEW e \in Clients PROVE Own(e)'
    <2>1. CASE e = c
        BY <1>1, <1>2, <2>1 DEF Own, HasConn, TypeOK
    <2>2. CASE e # c
        BY <1>1, <1>2, <2>2, OwnKept DEF Own, TypeOK
    <2> QED  BY <2>1, <2>2
<1>5. ASSUME NEW j \in Conns PROVE Grant(j)' /\ Served(j)'
    <2>1. \A e \in Daemons : Serves(e) => e # child[c] /\ phase'[e] = phase[e]
        BY <1>1, <1>2, <1>3 DEF Serves, ServingPhases, OpenPhases, TypeOK
    <2>2. \A e \in Daemons : ~Alive(e) => ~Alive(e)'
        BY <1>1, <1>2, <1>3 DEF Alive, TypeOK
    <2>3. Grant(j)'
        BY <1>2, <2>2 DEF Grant
    <2>4. Served(j)'
        BY <1>2, <2>1 DEF Served, Serves
    <2> QED  BY <2>3, <2>4
<1>6. ChildWaits'
    <2>1. ASSUME NEW e \in Clients, pc'[e] = "handoff" PROVE FALSE
        BY <1>1, <1>2, <2>1, OneHandoff DEF Holding, TypeOK
    <2> QED  BY <2>1 DEF ChildWaits
<1>7. CountExact'
    BY <1>2 DEF CountExact
<1> QED  BY <1>4, <1>5, <1>6, <1>7 DEF Rest

\* The death of a serving daemon hangs all its connections up.
LEMMA DeathRest ==
    ASSUME IInv, NEW d, Dies(d), link' = Hangup(d),
           \/ UNCHANGED clientVars
           \/ \E c \in Clients : pc[c] = "poll" /\ Go(c, "idle") /\ UNCHANGED conn
    PROVE  Rest'
<1> USE DEF IInv
<1>1. TypeOK
    BY DEF LockInv
<1>2. /\ phase' = [phase EXCEPT ![d] = "dead"]
      /\ active' = [active EXCEPT ![d] = 0]
    BY DEF Dies
<1>3. conn' = conn
    BY DEF clientVars
<1>4. ASSUME NEW e \in Clients
      PROVE  \/ pc'[e] = pc[e] /\ op'[e] = op[e] /\ child'[e] = child[e]
             \/ pc[e] = "poll" /\ pc'[e] = "idle"
    BY <1>1 DEF Go, clientVars, TypeOK
<1>5. ASSUME NEW e \in Clients PROVE Own(e)'
    <2>1. HasConn(e) => conn[e] \in Conns /\ link[conn[e]].open
        BY DEF Own
    <2>2. CASE pc'[e] = pc[e] /\ op'[e] = op[e]
        BY <1>1, <1>3, <2>1, <2>2, HangupFacts, OwnKept
    <2>3. CASE pc[e] = "poll" /\ pc'[e] = "idle"
        BY <1>3, <2>3 DEF Own, HasConn
    <2> QED  BY <1>4, <2>2, <2>3
<1>6. ASSUME NEW j \in Conns PROVE Grant(j)' /\ Served(j)'
    <2>1. /\ link[j].to # d => link'[j] = link[j]
          /\ link[j].to = d => link'[j].srv = "gone"
          /\ link'[j].open = link[j].open
          /\ link[j].open => /\ link'[j].reply = link[j].reply
                             /\ link'[j].to = link[j].to
                             /\ link'[j].verb = link[j].verb
        BY <1>1, HangupFacts
    <2>2. \A e \in Daemons : e # d => phase'[e] = phase[e]
        BY <1>1, <1>2 DEF TypeOK
    <2>3. d \in Daemons => phase'[d] = "dead"
        BY <1>1, <1>2 DEF TypeOK
    <2>4. Grant(j)'
        BY <2>1, <2>2, <2>3 DEF Grant, Alive
    <2>5. Served(j)'
        BY <2>1, <2>2 DEF Served, Serves
    <2> QED  BY <2>4, <2>5
<1>7. ChildWaits'
    <2>1. \A e \in Clients : pc'[e] = "handoff" => pc[e] = "handoff" /\ child'[e] = child[e]
        BY <1>4
    <2>2. \A e \in Daemons : phase[e] \in {"boot", "dead"} => phase'[e] \in {"boot", "dead"}
        BY <1>1, <1>2 DEF TypeOK
    <2> QED  BY <2>1, <2>2, ChildKept
<1>8. CountExact'
    <2>1. ASSUME NEW e \in Daemons PROVE active'[e] = Cardinality(Attachments(e)')
        <3>1. CASE e = d
            <4>1. active'[e] = 0
                BY <1>1, <1>2, <3>1 DEF TypeOK
            <4>2. ASSUME NEW k \in Conns, link'[k].to = e, link'[k].srv = "attached" PROVE FALSE
                BY <1>1, <3>1, <4>2, HangupFacts
            <4> QED  BY <4>1, <4>2, CountNone
        <3>2. CASE e # d
            <4>1. active'[e] = active[e]
                BY <1>1, <1>2, <3>2 DEF TypeOK
            <4>2. ASSUME NEW k \in Conns
                  PROVE  link'[k].to = e /\ link'[k].srv = "attached"
                         <=> link[k].to = e /\ link[k].srv = "attached"
                BY <1>1, <3>2, HangupFacts
            <4> QED  BY <4>1, <4>2, CountKept
        <3> QED  BY <3>1, <3>2
    <2> QED  BY <2>1, CountFromEach
<1> QED  BY <1>5, <1>6, <1>7, <1>8 DEF Rest

\* Every step of a client or of its user keeps the invariant.
LEMMA ClientRest ==
    ASSUME IInv, NEW c \in Clients, ClientStep(c) \/ UserStep(c)
    PROVE  Rest'
<1>1. TypeOK
    BY DEF IInv, LockInv
<1>2. ASSUME NEW o \in Ops, NEW v \in Protocols, Begin(c, o, v) PROVE Rest'
    <2> DEFINE s == IF o = "list" THEN "probe" ELSE "lock"
    <2>1. s \in Connectionless /\ pc[c] \in Connectionless
        BY <1>2 DEF Begin, Connectionless
    <2>2. pc' = [pc EXCEPT ![c] = s]
        BY <1>2 DEF Begin
    <2>3. \A e \in Clients \ {c} : op'[e] = op[e]
        BY <1>1, <1>2 DEF Begin, TypeOK
    <2> HIDE DEF s
    <2> QED  BY <1>2, <2>1, <2>2, <2>3, QuietRest DEF Begin
<1>3. CASE Lock(c) \/ RemoveSockets(c)
    <2>1. PICK s \in Connectionless : pc' = [pc EXCEPT ![c] = s]
        BY <1>3 DEF Lock, RemoveSockets, Connectionless
    <2>2. pc[c] \in Connectionless
        BY <1>3 DEF Lock, RemoveSockets, Connectionless
    <2> QED  BY <1>3, <2>1, <2>2, QuietRest DEF Lock, RemoveSockets
<1>4. CASE DialFails(c) \/ GetReply(c) \/ ConnReset(c) \/ ProbeTimeout(c)
    <2>1. \E r : Settle(c, r) /\ (r = "ok" => Waiting(c) /\ link[conn[c]].reply = r)
        BY <1>4 DEF DialFails, GetReply, ConnReset, ProbeTimeout
    <2> QED  BY <2>1, SettleRest
<1>5. CASE TokenFails(c) \/ SpawnFails(c) \/ HandOffFails(c) \/ AwaitEOF(c) \/ StopTimeout(c)
           \/ EndSession(c) \/ SessionLost(c) \/ Kill(c)
    BY <1>5, FailRest DEF TokenFails, SpawnFails, HandOffFails, AwaitEOF, StopTimeout,
                          EndSession, SessionLost, Kill
<1>6. CASE PollDeadline(c)
    BY <1>6, DeathRest DEF PollDeadline
<1> QED  BY <1>2, <1>3, <1>4, <1>5, <1>6, DialRest, SpawnRest, HandOffRest DEF ClientStep, UserStep

-----------------------------------------------------------------------------
(* The steps of a daemon's main goroutine. *)

\* A step of daemon d that leaves its connections alone and its clients as
\* they are.
LEMMA PhaseRest ==
    ASSUME IInv, NEW d \in Daemons,
           UNCHANGED <<clientVars, link>>,
           phase[d] \notin {"boot", "dead"},
           \A e \in Daemons \ {d} : phase'[e] = phase[e] /\ active'[e] = active[e],
           \/ phase'[d] \in {"ro", "rw"} /\ ~Serves(d) /\ active'[d] = active[d]
           \/ phase'[d] \in ServingPhases /\ active'[d] = active[d]
           \/ phase'[d] = "dead" /\ ~Serves(d) /\ active'[d] = 0
    PROVE  Rest'
<1> USE DEF IInv, clientVars
<1>1. ASSUME NEW e \in Clients PROVE Own(e)'
    BY OwnKept DEF Own
<1>2. ASSUME NEW j \in Conns PROVE Grant(j)' /\ Served(j)'
    <2>1. Grant(j)'
        BY DEF Grant, Alive
    <2>2. Served(j)'
        BY DEF Served, Serves
    <2> QED  BY <2>1, <2>2
<1>3. ChildWaits'
    BY ChildKept
<1>4. CountExact'
    <2>1. ASSUME NEW e \in Daemons PROVE active'[e] = Cardinality(Attachments(e)')
        <3>1. CASE active'[e] = active[e]
            BY <3>1, CountKept
        <3>2. CASE e = d /\ ~Serves(d) /\ active'[d] = 0
            <4>1. \A k \in Conns : ~(link[k].to = d /\ link[k].srv = "attached")
                BY <3>2 DEF Served
            <4> QED  BY <3>2, <4>1, CountNone
        <3> QED  BY <3>1, <3>2
    <2> QED  BY <2>1, CountFromEach
<1> QED  BY <1>1, <1>2, <1>3, <1>4 DEF Rest

\* Closing the management listener, and with it what is in the backlog.
LEMMA ClosesRest ==
    ASSUME IInv, NEW d \in Daemons, Closes(d)
    PROVE  Rest'
<1>1. TypeOK
    BY DEF IInv, LockInv
<1>2. /\ phase[d] \in OpenPhases /\ phase'[d] \in {"closing", "closeRW", "exit"}
      /\ \A e \in Daemons \ {d} : phase'[e] = phase[e]
      /\ UNCHANGED <<pc, op, conn, child, active>>
    BY <1>1, ClosesFacts DEF clientVars
\* Stale: the handler of this end is past its request, or never read it.
<1> DEFINE Stale(j) == link[j].srv \in {"queued", "stopping"} /\ link[j].to = d
<1>3. ASSUME NEW j \in Conns
      PROVE  /\ link'[j] = link[j] \/ Stale(j)
             /\ link'[j].open = link[j].open
             /\ link[j].open => /\ link'[j].from = link[j].from
                                /\ link'[j].verb = link[j].verb
                                /\ link'[j].reply = link[j].reply
             /\ Stale(j) => link'[j].srv # "attached"
             /\ Stale(j) /\ link'[j].srv # "gone" => link'[j].to = d
    BY <1>1, ClosesLinks
<1> HIDE DEF Stale
<1>4. ASSUME NEW e \in Clients PROVE Own(e)'
    <2>1. HasConn(e) => conn[e] \in Conns /\ link[conn[e]].open
        BY DEF IInv, Own
    <2>2. HasConn(e) => /\ link'[conn[e]].open
                        /\ link'[conn[e]].from = link[conn[e]].from
                        /\ link'[conn[e]].verb = link[conn[e]].verb
                        /\ link'[conn[e]].reply = link[conn[e]].reply
        BY <1>3, <2>1
    <2>3. Own(e)
        BY DEF IInv
    <2> QED  BY <1>2, <2>2, <2>3, OwnKept
<1>5. \A e \in Daemons : (Serves(e) => Serves(e)') /\ (~Alive(e) => ~Alive(e)')
    BY <1>2 DEF Serves, ServingPhases, OpenPhases, Alive
<1>6. ASSUME NEW j \in Conns PROVE Grant(j)' /\ Served(j)'
    <2>0. Grant(j) /\ Served(j)
        BY DEF IInv
    <2>1. CASE Stale(j)
        <3>1. Grant(j)'
            BY <1>3, <2>0, <2>1 DEF Grant, Stale
        <3>2. Served(j)'
            BY <1>2, <1>3, <2>1 DEF Served, Serves, ServingPhases
        <3> QED  BY <3>1, <3>2
    <2>2. CASE link'[j] = link[j]
        BY <1>5, <2>0, <2>2 DEF Grant, Served
    <2> QED  BY <1>3, <2>1, <2>2
<1>7. ChildWaits'
    <2>1. \A e \in Daemons : phase[e] \in {"boot", "dead"} => phase'[e] \in {"boot", "dead"}
        BY <1>2 DEF OpenPhases
    <2> QED  BY <1>2, <2>1, ChildKept DEF IInv
<1>8. CountExact'
    <2>1. ASSUME NEW e \in Daemons PROVE active'[e] = Cardinality(Attachments(e)')
        <3>1. ASSUME NEW j \in Conns
              PROVE  link'[j].to = e /\ link'[j].srv = "attached"
                     <=> link[j].to = e /\ link[j].srv = "attached"
            BY <1>3 DEF Stale
        <3> QED  BY <1>2, <3>1, CountKept DEF IInv
    <2> QED  BY <2>1, CountFromEach
<1> QED  BY <1>4, <1>6, <1>7, <1>8 DEF Rest

\* Every step of a daemon's main goroutine keeps the invariant.
LEMMA DaemonRest ==
    ASSUME IInv, NEW d \in Daemons, DaemonStep(d) \/ Crash(d) \/ AcceptFails(d)
    PROVE  Rest'
<1>1. TypeOK
    BY DEF IInv, LockInv
<1>2. ASSUME NEW from \in {"keyed", "ro", "rw"}, NEW s, NEW to \in {"ro", "rw", "serving"},
             Listen(d, from, s, to)
      PROVE  Rest'
    <2>1. ~Serves(d) /\ phase[d] \notin {"boot", "dead"} /\ UNCHANGED <<clientVars, link>>
        BY <1>2 DEF Listen, Serves, ServingPhases, OpenPhases
    <2>2. /\ \A e \in Daemons \ {d} : phase'[e] = phase[e] /\ active'[e] = active[e]
          /\ \/ phase'[d] = to /\ active'[d] = active[d]
             \/ phase'[d] = "dead" /\ active'[d] = 0
        BY <1>1, <1>2 DEF Listen, Dies, TypeOK
    <2> QED  BY <2>1, <2>2, PhaseRest DEF ServingPhases, OpenPhases
<1>3. ASSUME NEW from \in {"closing", "closeRW", "broken", "brokenRW"}, NEW s,
             NEW to \in {"closeRW", "exit", "brokenRW", "brokenM"},
             Shut(d, from, s, to)
      PROVE  Rest'
    <2>1. phase[d] \notin {"boot", "dead"} /\ UNCHANGED <<clientVars, link>>
        BY <1>3 DEF Shut
    <2>2. /\ \A e \in Daemons \ {d} : phase'[e] = phase[e] /\ active'[e] = active[e]
          /\ phase'[d] = to /\ active'[d] = active[d]
        BY <1>1, <1>3 DEF Shut, TypeOK
    <2> QED  BY <2>1, <2>2, PhaseRest DEF ServingPhases, OpenPhases
<1>4. CASE Exit(d) \/ Crash(d)
    BY <1>4, DeathRest DEF Exit, Crash
<1>5. CASE AcceptFails(d)
    <2>1. /\ phase[d] = "serving" /\ phase'[d] = "broken" /\ UNCHANGED <<clientVars, link, active>>
          /\ \A e \in Daemons \ {d} : phase'[e] = phase[e]
        BY <1>1, <1>5 DEF AcceptFails, TypeOK
    <2> QED  BY <2>1, PhaseRest DEF ServingPhases, OpenPhases
<1>6. CASE ShutManagement(d)
    <2>1. Closes(d)
        BY <1>6 DEF ShutManagement, Closes, OpenPhases
    <2> QED  BY <2>1, ClosesRest
<1> QED  BY <1>2, <1>3, <1>4, <1>5, <1>6
         DEF DaemonStep, ListenRO, ListenRW, ListenManagement, ShutRO, ShutRW

-----------------------------------------------------------------------------
(* The steps of a connection's handler. *)

\* A step of connection k's handler, at its daemon d, that does not touch the
\* client's end: it may move the daemon's side on, but not into or out of an
\* attachment, nor back from an end.
LEMMA HandlerRest ==
    ASSUME IInv, NEW d \in Daemons, NEW k \in Conns,
           link[k].to = d, link[k].srv \notin {"attached", "gone"},
           UNCHANGED <<clientVars, phase, active>>,
           \A j \in Conns \ {k} : link'[j] = link[j],
           link'[k].srv \notin {"attached"},
           link'[k].srv # "gone" => link'[k].to = d,
           link'[k].open = link[k].open,
           link[k].open =>
               /\ link'[k].from = link[k].from
               /\ link'[k].verb = link[k].verb
               /\ link'[k].verb = "attach" => link'[k].reply # "ok"
    PROVE  Rest'
<1> USE DEF IInv, clientVars
<1>1. ASSUME NEW e \in Clients PROVE Own(e)'
    <2>1. HasConn(e) => conn[e] \in Conns /\ link[conn[e]].open
        BY DEF Own
    <2>2. HasConn(e) /\ conn[e] = k => pc[e] # "attached"
        <3>1. HasConn(e) /\ conn[e] = k /\ pc[e] = "attached" =>
                link[k].verb = "attach" /\ link[k].reply = "ok" /\ link[k].open
            BY DEF Own, WantsAttach
        <3> QED  BY <3>1 DEF Grant
    <2> QED  BY <2>1, <2>2, OwnKept
<1>2. ASSUME NEW j \in Conns PROVE Grant(j)' /\ Served(j)'
    <2>1. CASE j = k
        BY <2>1 DEF Grant, Served, Serves
    <2>2. CASE j # k
        BY <2>2 DEF Grant, Served, Serves, Alive
    <2> QED  BY <2>1, <2>2
<1>3. ChildWaits'
    BY ChildKept
<1>4. CountExact'
    <2>1. ASSUME NEW e \in Daemons PROVE active'[e] = Cardinality(Attachments(e)')
        BY CountKept
    <2> QED  BY <2>1, CountFromEach
<1> QED  BY <1>1, <1>2, <1>3, <1>4 DEF Rest

\* The attachments of a daemon are finitely many, so they have a count.
LEMMA FiniteAttachments ==
    ASSUME NEW d
    PROVE  IsFiniteSet(Attachments(d))
<1>1. Attachments(d) \subseteq Conns
    BY DEF Attachments
<1> QED  BY <1>1, ConstantsAssumption, FS_Subset

\* The handler grants an attachment and counts it.
LEMMA AttachRest ==
    ASSUME IInv, NEW d \in Daemons, NEW k \in Conns, Handle(d, k),
           Answer(d, k) = "ok", link[k].verb = "attach"
    PROVE  Rest'
<1> USE DEF IInv
<1>1. TypeOK
    BY DEF LockInv
<1>2. /\ link[k].to = d /\ link[k].srv = "reading"
      /\ active' = [active EXCEPT ![d] = @ + 1]
      /\ UNCHANGED <<pc, op, conn, child, phase>>
    BY DEF Handle, clientVars
<1>3. link' = [link EXCEPT ![k].srv = "attached", ![k].reply = "ok"]
    BY DEF Handle
<1>4. /\ link'[k].srv = "attached"
      /\ link'[k].open = link[k].open
      /\ link'[k].to = d /\ link'[k].from = link[k].from /\ link'[k].verb = link[k].verb
      /\ \A j \in Conns \ {k} : link'[j] = link[j]
    BY <1>1, <1>2, <1>3 DEF TypeOK, Link
<1>5. ASSUME NEW e \in Clients PROVE Own(e)'
    <2>1. HasConn(e) => conn[e] \in Conns /\ link[conn[e]].open
        BY DEF Own
    <2>2. HasConn(e) /\ conn[e] = k => pc[e] # "attached"
        <3>1. HasConn(e) /\ conn[e] = k /\ pc[e] = "attached" =>
                link[k].verb = "attach" /\ link[k].reply = "ok" /\ link[k].open
            BY DEF Own, WantsAttach
        <3> QED  BY <1>2, <3>1 DEF Grant
    <2> QED  BY <1>2, <1>4, <2>1, <2>2, OwnKept
<1>6. ASSUME NEW j \in Conns PROVE Grant(j)' /\ Served(j)'
    <2>1. CASE j = k
        BY <1>2, <1>4, <2>1 DEF Grant, Served, Serves
    <2>2. CASE j # k
        BY <1>2, <1>4, <2>2 DEF Grant, Served, Serves, Alive
    <2> QED  BY <2>1, <2>2
<1>7. ChildWaits'
    BY <1>2, ChildKept
<1>8. CountExact'
    <2>1. Attachments(d)' = Attachments(d) \cup {k} /\ k \notin Attachments(d)
        BY <1>2, <1>4 DEF Attachments
    <2>2. Cardinality(Attachments(d)') = Cardinality(Attachments(d)) + 1
        BY <2>1, FiniteAttachments, FS_AddElement
    <2>3. active'[d] = active[d] + 1
        BY <1>1, <1>2 DEF TypeOK
    <2>4. active'[d] = Cardinality(Attachments(d)')
        BY <2>2, <2>3 DEF CountExact, Attachments
    <2>5. ASSUME NEW e \in Daemons, e # d PROVE active'[e] = Cardinality(Attachments(e)')
        <3>1. active'[e] = active[e]
            BY <1>1, <1>2, <2>5 DEF TypeOK
        <3>2. ASSUME NEW j \in Conns
              PROVE  link'[j].to = e /\ link'[j].srv = "attached"
                     <=> link[j].to = e /\ link[j].srv = "attached"
            BY <1>2, <1>4, <2>5
        <3> QED  BY <3>1, <3>2, CountKept
    <2> QED  BY <2>4, <2>5, CountFromEach
<1> QED  BY <1>5, <1>6, <1>7, <1>8 DEF Rest

\* The handler of a client that hung up uncounts it.
LEMMA DetachRest ==
    ASSUME IInv, NEW d \in Daemons, NEW k \in Conns, Detach(d, k)
    PROVE  Rest'
<1> USE DEF IInv
<1>1. TypeOK
    BY DEF LockInv
<1>2. /\ link[k].to = d /\ link[k].srv = "attached" /\ ~link[k].open
      /\ active' = [active EXCEPT ![d] = @ - 1]
      /\ UNCHANGED <<pc, op, conn, child, phase>>
    BY DEF Detach, clientVars
<1>3. link' = ServerClosed(k, link[k].reply) /\ link[k].reply \in Replies
    BY <1>1 DEF Detach, TypeOK, Link
<1>4. /\ \A j \in Conns \ {k} : link'[j] = link[j]
      /\ link'[k].srv = "gone" /\ link'[k].open = link[k].open
    BY <1>1, <1>3, ServerClosedFacts
<1>5. ASSUME NEW e \in Clients PROVE Own(e)'
    <2>1. HasConn(e) => conn[e] \in Conns /\ link[conn[e]].open
        BY DEF Own
    <2> QED  BY <1>2, <1>4, <2>1, OwnKept
<1>6. ASSUME NEW j \in Conns PROVE Grant(j)' /\ Served(j)'
    <2>1. CASE j = k
        BY <1>2, <1>4, <2>1 DEF Grant, Served
    <2>2. CASE j # k
        BY <1>2, <1>4, <2>2 DEF Grant, Served, Serves, Alive
    <2> QED  BY <2>1, <2>2
<1>7. ChildWaits'
    BY <1>2, ChildKept
<1>8. active'[d] = Cardinality(Attachments(d)')
    <2>1. Attachments(d)' = Attachments(d) \ {k} /\ k \in Attachments(d)
        BY <1>2, <1>4 DEF Attachments
    <2>2. Cardinality(Attachments(d)') = Cardinality(Attachments(d)) - 1
        BY <2>1, FiniteAttachments, FS_RemoveElement
    <2>3. active'[d] = active[d] - 1
        BY <1>1, <1>2 DEF TypeOK
    <2> QED  BY <2>2, <2>3 DEF CountExact, Attachments
<1>9. ASSUME NEW e \in Daemons, e # d PROVE active'[e] = Cardinality(Attachments(e)')
    <2>1. active'[e] = active[e]
        BY <1>1, <1>2, <1>9 DEF TypeOK
    <2>2. ASSUME NEW j \in Conns
          PROVE  link'[j].to = e /\ link'[j].srv = "attached"
                 <=> link[j].to = e /\ link[j].srv = "attached"
        BY <1>2, <1>4, <1>9
    <2> QED  BY <2>1, <2>2, CountKept
<1>10. CountExact'
    BY <1>8, <1>9, CountFromEach
<1> QED  BY <1>5, <1>6, <1>7, <1>10 DEF Rest

\* Every step of a handler goroutine keeps the invariant.
LEMMA HandlerStepRest ==
    ASSUME IInv, NEW d \in Daemons, NEW k \in Conns, HandlerStep(d, k)
    PROVE  Rest'
<1>1. TypeOK
    BY DEF IInv, LockInv
<1>2. link[k] \in Link /\ link[k].reply \in Replies
    BY <1>1 DEF TypeOK, Link
<1>3. link[k].open /\ link[k].verb = "attach" /\ link[k].reply = "ok" =>
        link[k].srv \in {"attached", "gone"}
    BY DEF IInv, Grant
<1>4. CASE Accept(d, k)
    <2>1. /\ link[k].to = d /\ link[k].srv = "queued"
          /\ UNCHANGED <<clientVars, phase, active>>
          /\ \A j \in Conns \ {k} : link'[j] = link[j]
          /\ link'[k] = [link[k] EXCEPT !.srv = "reading"]
        BY <1>1, <1>4 DEF Accept, daemonVars, TypeOK
    <2>2. /\ link'[k].srv = "reading" /\ link'[k].to = d /\ link'[k].open = link[k].open
          /\ link'[k].from = link[k].from /\ link'[k].verb = link[k].verb
          /\ link'[k].reply = link[k].reply
        BY <1>2, <2>1 DEF Link
    <2> QED  BY <1>3, <2>1, <2>2, HandlerRest
<1>5. CASE Handle(d, k)
    <2>1. link[k].to = d /\ link[k].srv = "reading" /\ UNCHANGED <<clientVars, phase>>
        BY <1>5 DEF Handle
    <2>2. Answer(d, k) \in Replies
        BY DEF Answer, Replies
    <2>3. CASE Answer(d, k) = "ok" /\ link[k].verb = "attach"
        BY <1>5, <2>3, AttachRest
    <2>4. CASE Answer(d, k) = "ok" /\ link[k].verb \in {"stop", "forceStop"}
        <3>1. /\ active' = active
              /\ link' = [link EXCEPT ![k].srv = "stopping", ![k].reply = "ok"]
            BY <1>5, <2>4 DEF Handle
        <3>2. \A j \in Conns \ {k} : link'[j] = link[j]
            BY <1>1, <3>1 DEF TypeOK
        <3>3. /\ link'[k].srv = "stopping" /\ link'[k].to = d /\ link'[k].open = link[k].open
              /\ link'[k].from = link[k].from /\ link'[k].verb = link[k].verb
            BY <1>1, <1>2, <2>1, <3>1 DEF Link, TypeOK
        <3> QED  BY <2>1, <2>4, <3>1, <3>2, <3>3, HandlerRest
    <2>5. CASE Answer(d, k) # "ok" \/ link[k].verb \notin {"attach", "stop", "forceStop"}
        <3>1. active' = active /\ link' = ServerClosed(k, Answer(d, k))
            BY <1>5, <2>5 DEF Handle
        <3>2. /\ \A j \in Conns \ {k} : link'[j] = link[j]
              /\ link'[k].srv = "gone" /\ link'[k].open = link[k].open
              /\ link[k].open => /\ link'[k].from = link[k].from
                                 /\ link'[k].verb = link[k].verb
                                 /\ link'[k].reply = Answer(d, k)
            BY <1>1, <2>2, <3>1, ServerClosedFacts
        <3> QED  BY <2>1, <2>5, <3>1, <3>2, HandlerRest
    <2> QED  BY <2>3, <2>4, <2>5
<1>6. CASE Detach(d, k)
    BY <1>6, DetachRest
<1>7. CASE CloseListener(d, k)
    <2>1. CASE phase[d] \in OpenPhases
        BY <1>7, <2>1, ClosesRest DEF Closes
    <2>2. CASE phase[d] \notin OpenPhases
        <3>1. /\ link[k].to = d /\ link[k].srv = "stopping"
              /\ UNCHANGED <<clientVars, phase, active>>
              /\ \A j \in Conns \ {k} : link'[j] = link[j]
              /\ link'[k] = [link[k] EXCEPT !.srv = "stopped"]
            BY <1>1, <1>7, <2>2 DEF CloseListener, TypeOK
        <3>2. /\ link'[k].srv = "stopped" /\ link'[k].to = d /\ link'[k].open = link[k].open
              /\ link'[k].from = link[k].from /\ link'[k].verb = link[k].verb
              /\ link'[k].reply = link[k].reply
            BY <1>2, <3>1 DEF Link
        <3> QED  BY <1>3, <3>1, <3>2, HandlerRest
    <2> QED  BY <2>1, <2>2
<1>8. CASE CloseConn(d, k)
    <2>1. /\ link[k].to = d /\ link[k].srv = "stopped"
          /\ UNCHANGED <<clientVars, phase, active>>
          /\ link' = ServerClosed(k, link[k].reply)
        BY <1>8 DEF CloseConn, daemonVars
    <2>2. /\ \A j \in Conns \ {k} : link'[j] = link[j]
          /\ link'[k].srv = "gone" /\ link'[k].open = link[k].open
          /\ link[k].open => /\ link'[k].from = link[k].from
                             /\ link'[k].verb = link[k].verb
                             /\ link'[k].reply = link[k].reply
        BY <1>1, <1>2, <2>1, ServerClosedFacts
    <2> QED  BY <1>3, <2>1, <2>2, HandlerRest
<1> QED  BY <1>4, <1>5, <1>6, <1>7, <1>8 DEF HandlerStep

-----------------------------------------------------------------------------
(* The theorems. *)

\* The invariant holds when nothing runs yet.
LEMMA InitIInv == Init => IInv
<1> SUFFICES ASSUME Init PROVE IInv
    OBVIOUS
<1>1. LockInv
    BY InitLockInv
<1>2. ASSUME NEW c \in Clients PROVE Own(c)
    BY DEF Init, Own, HasConn
<1>3. ASSUME NEW k \in Conns PROVE Grant(k) /\ Served(k)
    BY DEF Init, FreeLink, Grant, Served
<1>4. ChildWaits
    BY DEF Init, ChildWaits
<1>5. CountExact
    <2>1. ASSUME NEW d \in Daemons
          PROVE  active[d] = Cardinality({k \in Conns : link[k].to = d /\ link[k].srv = "attached"})
        <3>1. {k \in Conns : link[k].to = d /\ link[k].srv = "attached"} = {}
            BY DEF Init, FreeLink
        <3> QED  BY <3>1, FS_EmptySet DEF Init
    <2> QED  BY <2>1 DEF CountExact
<1> QED  BY <1>1, <1>2, <1>3, <1>4, <1>5 DEF IInv

\* Every step keeps the invariant.
LEMMA NextIInv == IInv /\ [Next]_vars => IInv'
<1> SUFFICES ASSUME IInv, [Next]_vars PROVE IInv'
    OBVIOUS
<1>1. LockInv'
    BY NextLockInv DEF IInv
<1>2. Rest'
    <2>1. CASE UNCHANGED vars
        BY <2>1 DEF vars, clientVars, daemonVars, IInv, Rest, Own, HasConn, WantsAttach, Grant,
                    Served, Serves, Alive, ChildWaits, CountExact
    <2> QED  BY <2>1, ClientRest, DaemonRest, HandlerStepRest DEF Next
<1> QED  BY <1>1, <1>2 DEF IInv, Rest

\* The strengthening that makes the count of attachments inductive holds in every
\* reachable state (lockInstance, runGatewayDaemon's handlers and their mutex).
THEOREM Invariance == Spec => []IInv
BY InitIInv, NextIInv, PTL DEF Spec

\* The count a plain stop decides by (resp.Active in handleManagement) is the
\* number of attachments the daemon serves, whatever hangs up, dies or is lost.
THEOREM CountsExactly == Spec => []CountExact
<1>1. IInv => CountExact
    BY DEF IInv
<1> QED  BY <1>1, Invariance, PTL

\* No session is missing from that count while its daemon lives.
THEOREM SessionsCounted == Spec => []SessionCounted
<1>1. IInv => SessionCounted
    <2> SUFFICES ASSUME IInv, NEW c \in Clients, pc[c] = "attached"
                 PROVE  /\ link[conn[c]].open
                        /\ link[conn[c]].from = c
                        /\ link[conn[c]].srv \in {"attached", "gone"}
                        /\ link[conn[c]].srv = "gone" =>
                             ~\E d \in Daemons : Alive(d) /\ link[conn[c]].to = d
        BY DEF SessionCounted
    <2>1. /\ conn[c] \in Conns /\ link[conn[c]].open /\ link[conn[c]].from = c
          /\ link[conn[c]].verb = "attach" /\ link[conn[c]].reply = "ok"
        BY DEF IInv, Own, HasConn, WantsAttach
    <2> QED  BY <2>1 DEF IInv, Grant
<1> QED  BY <1>1, Invariance, PTL

-----------------------------------------------------------------------------
(* GatewayInstance implements Instance. *)

\* Where a handler's state is seen from outside.
Seen == {"attached", "stopping", "stopped"}

\* The handlers in a stop were asked for one, and one whose stop is done
\* belongs to a daemon that is closing.
StopInv ==
    \A k \in Conns :
        /\ link[k].srv \in {"stopping", "stopped"} => link[k].verb \in {"stop", "forceStop"}
        /\ link[k].srv = "stopped" =>
               \A d \in Daemons : link[k].to = d => Mode(d) \notin {"on", "broken"}

RInv == IInv /\ StopInv

\* Each daemon takes a step of Instance, or none.
Follows == \A d \in Daemons : UNCHANGED Outside(d)!vars \/ Outside(d)!Next

\* The connections an outsider sees stay what they are.
LinksKept ==
    \A k \in Conns : link[k].srv \in Seen \/ link'[k].srv \in Seen =>
        /\ link'[k].srv = link[k].srv
        /\ link'[k].to = link[k].to
        /\ link'[k].verb = link[k].verb

ModesKept == \A d \in Daemons : Mode(d)' = Mode(d)

\* A daemon whose connections and mode are kept takes no step.
LEMMA KeptStutters ==
    ASSUME NEW d \in Daemons, Mode(d)' = Mode(d),
           \A k \in Conns : (link[k].to = d /\ link[k].srv \in Seen)
                               \/ (link'[k].to = d /\ link'[k].srv \in Seen) =>
               /\ link'[k].srv = link[k].srv
               /\ link'[k].to = link[k].to
               /\ link'[k].verb = link[k].verb
    PROVE  UNCHANGED Outside(d)!vars
<1>1. Handlers(d, {"attached"})' = Handlers(d, {"attached"})
    BY DEF Handlers, Seen
<1>2. Stops(d, "stop")' = Stops(d, "stop") /\ Stops(d, "forceStop")' = Stops(d, "forceStop")
    BY DEF Stops, Handlers, Seen
<1> QED  BY <1>1, <1>2 DEF Outside!vars

LEMMA Quiet ==
    ASSUME StopInv, LinksKept, ModesKept
    PROVE  StopInv' /\ Follows
<1>1. StopInv'
    BY DEF StopInv, LinksKept, ModesKept, Seen
<1>2. Follows
    BY KeptStutters DEF Follows, LinksKept, ModesKept
<1> QED  BY <1>1, <1>2

\* Before it serves and after it is gone nobody sees anything of a daemon.
LEMMA OffIsEmpty ==
    ASSUME IInv, NEW d \in Daemons, ~Serves(d)
    PROVE  /\ Mode(d) = "off"
           /\ \A k \in Conns : link[k].to = d => link[k].srv = "gone"
BY DEF IInv, Served, Serves, ServingPhases, OpenPhases, Mode

\* Where the listener is open the daemon is on or broken, and closed it is
\* neither.
LEMMA ModePhases ==
    ASSUME NEW d \in Daemons
    PROVE  /\ phase[d] \in OpenPhases <=> Mode(d) \in {"on", "broken"}
           /\ phase[d] \in {"closing", "closeRW", "exit"} <=> Mode(d) = "closing"
BY SMT DEF OpenPhases, Mode

\* The death of daemon d, in whatever phase.
LEMMA Death ==
    ASSUME RInv, NEW d, Dies(d), link' = Hangup(d)
    PROVE  StopInv' /\ Follows
<1>1. TypeOK
    BY DEF RInv, IInv, LockInv
<1>2. \A e \in Daemons : phase'[e] = IF e = d THEN "dead" ELSE phase[e]
    BY <1>1 DEF Dies, TypeOK
<1>3. \A e \in Daemons : Mode(e)' = IF e = d THEN "off" ELSE Mode(e)
    BY <1>2 DEF Mode
<1>4. ASSUME NEW j \in Conns
      PROVE  /\ link[j].to # d => link'[j] = link[j]
             /\ link[j].to = d => link'[j].srv = "gone"
    BY <1>1, HangupFacts
<1>5. StopInv'
    BY <1>3, <1>4 DEF RInv, StopInv
<1>6. ASSUME NEW e \in Daemons PROVE UNCHANGED Outside(e)!vars \/ Outside(e)!Next
    <2>1. CASE e # d
        BY <1>3, <1>4, <2>1, KeptStutters DEF Seen
    <2>2. CASE e = d /\ Mode(d) = "off"
        <3>1. ~Serves(d)
            BY <2>2 DEF Mode, Serves, ServingPhases, OpenPhases
        <3>2. \A k \in Conns : link[k].to = d => link[k].srv = "gone"
            BY <2>2, <3>1, OffIsEmpty DEF RInv
        <3> QED  BY <1>3, <1>4, <2>2, <3>2, KeptStutters DEF Seen
    <2>3. CASE e = d /\ Mode(d) # "off"
        <3>1. \A k \in Conns : ~(link'[k].to = d /\ link'[k].srv \in Seen)
            BY <1>4 DEF Seen
        <3>2. Handlers(d, {"attached"})' = {}
            BY <3>1 DEF Handlers, Seen
        <3>3. Stops(d, "stop")' = {} /\ Stops(d, "forceStop")' = {}
            BY <3>1 DEF Handlers, Stops, Seen
        <3>4. Mode(d)' = "off"
            BY <1>3, <2>3
        <3>5. Outside(d)!Gone
            BY <2>3, <3>2, <3>3, <3>4 DEF Outside!Gone
        <3> QED  BY <2>3, <3>5 DEF Outside!Next
    <2> QED  BY <2>1, <2>2, <2>3
<1> QED  BY <1>5, <1>6 DEF Follows

-----------------------------------------------------------------------------
(* Clients. *)

LEMMA DropQuiet ==
    ASSUME RInv, NEW c \in Clients, Drop(c), ModesKept
    PROVE  StopInv' /\ Follows
<1>1. LinksKept
    BY DropFacts DEF RInv, IInv, LockInv, LinksKept, Seen
<1> QED  BY <1>1, Quiet DEF RInv

LEMMA PhaseKept ==
    ASSUME UNCHANGED phase PROVE ModesKept
BY DEF ModesKept, Mode

LEMMA ClientFollows ==
    ASSUME RInv, NEW c \in Clients, ClientStep(c) \/ UserStep(c)
    PROVE  StopInv' /\ Follows
<1>1. TypeOK
    BY DEF RInv, IInv, LockInv
<1>2. ASSUME UNCHANGED <<phase, link>> PROVE StopInv' /\ Follows
    <2>1. LinksKept /\ ModesKept
        BY <1>2, PhaseKept DEF LinksKept
    <2> QED  BY <2>1, Quiet DEF RInv
<1>3. CASE (\E o \in Ops, v \in Protocols : Begin(c, o, v)) \/ Lock(c) \/ RemoveSockets(c)
    BY <1>2, <1>3 DEF Begin, Lock, RemoveSockets, daemonVars
<1>4. CASE DialFails(c) \/ GetReply(c) \/ ConnReset(c) \/ ProbeTimeout(c)
    <2>1. PICK r : Settle(c, r)
        BY <1>4 DEF DialFails, GetReply, ConnReset, ProbeTimeout
    <2>2. UNCHANGED phase /\ (Drop(c) \/ UNCHANGED link)
        BY <2>1 DEF Settle, daemonVars
    <2> QED  BY <1>2, <2>2, DropQuiet, PhaseKept
<1>5. CASE TokenFails(c) \/ SpawnFails(c) \/ HandOffFails(c) \/ AwaitEOF(c) \/ StopTimeout(c)
           \/ EndSession(c) \/ SessionLost(c) \/ Kill(c)
    <2>1. Drop(c)
        BY <1>5 DEF TokenFails, SpawnFails, HandOffFails, AwaitEOF, StopTimeout,
                    EndSession, SessionLost, Kill, Fail
    <2>2. UNCHANGED daemonVars \/ (pc[c] = "handoff" /\ Dies(child[c]))
        BY <1>5 DEF TokenFails, SpawnFails, HandOffFails, AwaitEOF, StopTimeout,
                    EndSession, SessionLost, Kill
    <2>3. CASE UNCHANGED daemonVars
        BY <2>1, <2>3, DropQuiet, PhaseKept DEF daemonVars
    <2>4. CASE pc[c] = "handoff" /\ Dies(child[c])
        <3>1. child[c] \in Daemons /\ phase[child[c]] \in {"boot", "dead"}
            BY <2>4 DEF RInv, IInv, ChildWaits
        <3>2. \A d \in Daemons : phase'[d] = IF d = child[c] THEN "dead" ELSE phase[d]
            BY <1>1, <2>4 DEF Dies, TypeOK
        <3>3. ModesKept
            BY <3>1, <3>2 DEF ModesKept, Mode
        <3> QED  BY <2>1, <3>3, DropQuiet
    <2> QED  BY <2>2, <2>3, <2>4
<1>6. CASE Dial(c)
    <2>1. PICK k \in Conns :
              /\ FreeConn(k)
              /\ \A j \in Conns \ {k} : link'[j] = link[j]
              /\ link'[k].srv = "queued"
        BY <1>1, <1>6 DEF Dial, TypeOK
    <2>2. LinksKept
        BY <2>1 DEF LinksKept, FreeConn, Seen
    <2> QED  BY <1>6, <2>2, Quiet, PhaseKept DEF Dial, daemonVars, RInv
<1>7. CASE Spawn(c)
    <2>1. PICK d \in Daemons : phase[d] = "dead" /\ phase' = [phase EXCEPT ![d] = "boot"]
        BY <1>7 DEF Spawn, FreeDaemon
    <2>2. ModesKept
        BY <1>1, <2>1 DEF ModesKept, Mode, TypeOK
    <2> QED  BY <1>7, <2>2, Quiet DEF Spawn, LinksKept, RInv
<1>8. CASE HandOff(c)
    <2>1. child[c] \in Daemons /\ phase[child[c]] \in {"boot", "dead"}
        BY <1>8 DEF HandOff, RInv, IInv, ChildWaits
    <2>2. \A d \in Daemons : phase'[d] = IF d = child[c] THEN "keyed" ELSE phase[d]
        BY <1>1, <1>8 DEF HandOff, TypeOK
    <2>3. ModesKept
        BY <2>1, <2>2 DEF ModesKept, Mode
    <2> QED  BY <1>8, <2>3, Quiet DEF HandOff, LinksKept, RInv
<1>9. CASE PollDeadline(c)
    BY <1>9, Death DEF PollDeadline
<1> QED  BY <1>3, <1>4, <1>5, <1>6, <1>7, <1>8, <1>9 DEF ClientStep, UserStep

-----------------------------------------------------------------------------
(* Daemons. *)

\* The listener is closed: the daemon was told to, or it is broken.
LEMMA ClosesFollows ==
    ASSUME RInv, NEW d \in Daemons, Closes(d),
           Mode(d) = "broken" \/ Stops(d, "stop") \cup Stops(d, "forceStop") # {}
    PROVE  StopInv' /\ Follows
<1>1. TypeOK
    BY DEF RInv, IInv, LockInv
<1>2. /\ phase[d] \in OpenPhases /\ phase'[d] \in {"closing", "closeRW", "exit"}
      /\ \A e \in Daemons \ {d} : phase'[e] = phase[e]
    BY <1>1, ClosesFacts
<1>3. Mode(d) \in {"on", "broken"} /\ Mode(d)' = "closing"
    <2>1. Mode(d)' = "closing"
        BY <1>2 DEF Mode
    <2> QED  BY <1>2, <2>1, ModePhases
<1>4. \A e \in Daemons : e # d => Mode(e)' = Mode(e)
    BY <1>2 DEF Mode
<1>5. ASSUME NEW j \in Conns
      PROVE  \/ link'[j] = link[j]
             \/ link[j].to = d /\ link[j].srv = "queued" /\ link'[j].srv = "gone"
             \/ /\ link[j].to = d /\ link[j].srv = "stopping" /\ link'[j].srv = "stopped"
                /\ link'[j].to = d /\ link'[j].verb = link[j].verb
    BY <1>1, ClosesLinks
<1>6. StopInv'
    BY <1>3, <1>4, <1>5 DEF RInv, StopInv
<1>7. Handlers(d, {"attached"})' = Handlers(d, {"attached"})
    BY <1>5 DEF Handlers
<1>8. Stops(d, "stop")' = Stops(d, "stop") /\ Stops(d, "forceStop")' = Stops(d, "forceStop")
    BY <1>5 DEF Handlers, Stops
<1>9. Outside(d)!Close
    BY <1>3, <1>7, <1>8 DEF Outside!Close
<1>10. ASSUME NEW e \in Daemons, e # d PROVE UNCHANGED Outside(e)!vars
    <2>1. ASSUME NEW j \in Conns,
                 (link[j].to = e /\ link[j].srv \in Seen) \/ (link'[j].to = e /\ link'[j].srv \in Seen)
          PROVE  link'[j] = link[j]
        BY <1>5, <1>10, <2>1 DEF Seen
    <2> QED  BY <1>4, <1>10, <2>1, KeptStutters
<1> QED  BY <1>6, <1>9, <1>10 DEF Follows, Outside!Next

\* Accepting fails: nothing else changes.
LEMMA BreakFollows ==
    ASSUME RInv, NEW d \in Daemons, AcceptFails(d)
    PROVE  StopInv' /\ Follows
<1>1. TypeOK
    BY DEF RInv, IInv, LockInv
<1>2. /\ "accept" \in Faults /\ UNCHANGED link
      /\ \A e \in Daemons : phase'[e] = IF e = d THEN "broken" ELSE phase[e]
    BY <1>1 DEF AcceptFails, TypeOK
<1>3. /\ Mode(d) = "on" /\ Mode(d)' = "broken"
      /\ \A e \in Daemons : e # d => Mode(e)' = Mode(e)
    BY <1>2 DEF AcceptFails, Mode
<1>4. StopInv'
    BY <1>2, <1>3 DEF RInv, StopInv
<1>5. UNCHANGED <<Handlers(d, {"attached"}), Stops(d, "stop"), Stops(d, "forceStop")>>
    BY <1>2 DEF Handlers, Stops
<1>6. Outside(d)!Break
    BY <1>2, <1>3, <1>5 DEF Outside!Break
<1>7. \A e \in Daemons : e # d => UNCHANGED Outside(e)!vars
    BY <1>2, <1>3, KeptStutters
<1> QED  BY <1>4, <1>6, <1>7 DEF Follows, Outside!Next

\* One more daemon serves: it has no connection yet.
LEMMA OpenFollows ==
    ASSUME RInv, NEW d \in Daemons, ~Serves(d), UNCHANGED link,
           \A e \in Daemons : phase'[e] = IF e = d THEN "serving" ELSE phase[e]
    PROVE  StopInv' /\ Follows
<1>1. Mode(d) = "off" /\ \A k \in Conns : link[k].to = d => link[k].srv = "gone"
    BY OffIsEmpty DEF RInv
<1>2. Mode(d)' = "on" /\ \A e \in Daemons : e # d => Mode(e)' = Mode(e)
    BY DEF Mode
<1>3. StopInv'
    BY <1>1, <1>2 DEF RInv, StopInv
<1>4. ASSUME NEW e \in Daemons, e # d PROVE UNCHANGED Outside(e)!vars
    BY <1>2, <1>4, KeptStutters
<1>5. Outside(d)!Next
    <2>1. UNCHANGED <<Handlers(d, {"attached"}), Stops(d, "stop"), Stops(d, "forceStop")>>
        BY DEF Handlers, Stops
    <2>2. Outside(d)!Open
        BY <1>1, <1>2, <2>1 DEF Outside!Open
    <2> QED  BY <2>2 DEF Outside!Next
<1> QED  BY <1>3, <1>4, <1>5 DEF Follows

LEMMA DaemonFollows ==
    ASSUME RInv, NEW d \in Daemons, DaemonStep(d) \/ Crash(d) \/ AcceptFails(d)
    PROVE  StopInv' /\ Follows
<1>1. TypeOK
    BY DEF RInv, IInv, LockInv
<1>2. ASSUME NEW from \in {"keyed", "ro", "rw"}, NEW s, NEW to \in {"ro", "rw", "serving"},
             Listen(d, from, s, to)
      PROVE  StopInv' /\ Follows
    <2>1. ~Serves(d) /\ phase[d] = from /\ UNCHANGED link
        BY <1>2 DEF Listen, Serves, ServingPhases, OpenPhases
    <2>2. PICK p \in {"ro", "rw", "serving", "dead"} :
              \A e \in Daemons : phase'[e] = IF e = d THEN p ELSE phase[e]
        BY <1>1, <1>2 DEF Listen, Dies, TypeOK
    <2>3. CASE p = "serving"
        BY <2>1, <2>2, <2>3, OpenFollows
    <2>4. CASE p # "serving"
        <3>1. ModesKept
            BY <1>2, <2>1, <2>2, <2>4 DEF ModesKept, Mode, Serves
        <3> QED  BY <2>1, <3>1, Quiet DEF LinksKept, RInv
    <2> QED  BY <2>3, <2>4
<1>3. ASSUME NEW from, NEW s, NEW to, Shut(d, from, s, to),
             \/ from \in {"closing", "closeRW"} /\ to \in {"closeRW", "exit"}
             \/ from \in {"broken", "brokenRW"} /\ to \in {"brokenRW", "brokenM"}
      PROVE  StopInv' /\ Follows
    <2>1. phase[d] = from /\ UNCHANGED link /\ \A e \in Daemons : phase'[e] = IF e = d THEN to ELSE phase[e]
        BY <1>1, <1>3 DEF Shut, TypeOK
    <2>2. ModesKept
        BY <1>3, <2>1 DEF ModesKept, Mode
    <2> QED  BY <2>1, <2>2, Quiet DEF LinksKept, RInv
<1>4. CASE Exit(d) \/ Crash(d)
    BY <1>4, Death DEF Exit, Crash
<1>5. CASE ShutManagement(d)
    <2>1. Closes(d) /\ Mode(d) = "broken"
        BY <1>5 DEF ShutManagement, Closes, OpenPhases, Mode
    <2> QED  BY <2>1, ClosesFollows
<1> QED  BY <1>2, <1>3, <1>4, <1>5, BreakFollows
         DEF DaemonStep, ListenRO, ListenRW, ListenManagement, ShutRO, ShutRW

-----------------------------------------------------------------------------
(* Handlers. *)

\* One connection k of daemon d changes and no daemon's mode does.
LEMMA OneLink ==
    ASSUME RInv, NEW d \in Daemons, NEW k \in Conns, link[k].to = d, ModesKept,
           \A j \in Conns \ {k} : link'[j] = link[j],
           link'[k].srv \in Seen => link'[k].to = d
    PROVE  \A e \in Daemons : e # d => UNCHANGED Outside(e)!vars
BY KeptStutters DEF ModesKept

\* A daemon that is alive in a handler's eyes.
LEMMA HandlerAlive ==
    ASSUME RInv, NEW d \in Daemons, NEW k \in Conns, link[k].to = d, link[k].srv # "gone"
    PROVE  Mode(d) # "off"
BY DEF RInv, IInv, Served, Serves, ServingPhases, OpenPhases, Mode

\* A count of zero is no attachment.
LEMMA NoneAttached ==
    ASSUME RInv, NEW d \in Daemons, active[d] = 0
    PROVE  Handlers(d, {"attached"}) = {}
<1>1. Handlers(d, {"attached"}) = Attachments(d)
    BY DEF Handlers, Attachments
<1>2. Cardinality(Attachments(d)) = 0
    BY DEF RInv, IInv, CountExact, Attachments
<1> QED  BY <1>1, <1>2, FiniteAttachments, FS_EmptySet

LEMMA HandleFollows ==
    ASSUME RInv, NEW d \in Daemons, NEW k \in Conns, Handle(d, k)
    PROVE  StopInv' /\ Follows
<1>1. TypeOK /\ link[k] \in Link /\ link[k].to = d /\ link[k].srv = "reading"
    BY DEF RInv, IInv, LockInv, TypeOK, Handle
<1>2. ModesKept /\ Mode(d) # "off"
    BY <1>1, PhaseKept, HandlerAlive DEF Handle
<1>3. k \notin Handlers(d, {"attached"}) \cup Stops(d, "stop") \cup Stops(d, "forceStop")
    BY <1>1 DEF Handlers, Stops
<1>4. Outside(d)!Asking(k)
    BY <1>2, <1>3 DEF Outside!Asking
<1> DEFINE r == Answer(d, k)
           v == link[k].verb
<1>5. CASE r = "ok" /\ v \in {"attach", "stop", "forceStop"}
    <2> DEFINE s == IF v = "attach" THEN "attached" ELSE "stopping"
    <2>1. link' = [link EXCEPT ![k].srv = s, ![k].reply = "ok"]
        BY <1>5 DEF Handle
    <2>2. /\ \A j \in Conns \ {k} : link'[j] = link[j]
          /\ link'[k].srv = s /\ link'[k].to = d /\ link'[k].verb = v
        BY <1>1, <2>1 DEF TypeOK, Link
    <2>3. StopInv'
        BY <1>2, <1>5, <2>2 DEF RInv, StopInv, ModesKept
    <2>4. \A e \in Daemons : e # d => UNCHANGED Outside(e)!vars
        BY <1>1, <1>2, <2>2, OneLink
    <2>5. Mode(d)' = Mode(d)
        BY <1>2 DEF ModesKept
    <2>6. CASE v = "attach"
        <3>1. Handlers(d, {"attached"})' = Handlers(d, {"attached"}) \cup {k}
            BY <1>1, <2>2, <2>6 DEF Handlers
        <3>2. Stops(d, "stop")' = Stops(d, "stop") /\ Stops(d, "forceStop")' = Stops(d, "forceStop")
            BY <1>1, <2>2, <2>6 DEF Handlers, Stops
        <3>3. Outside(d)!Enter(k)
            BY <1>4, <2>5, <3>1, <3>2 DEF Outside!Enter
        <3> QED  BY <2>3, <2>4, <3>3 DEF Follows, Outside!Next
    <2>7. CASE v = "stop"
        <3>1. Handlers(d, {"attached"})' = Handlers(d, {"attached"})
            BY <1>1, <2>2, <2>7 DEF Handlers
        <3>2. Stops(d, "stop")' = Stops(d, "stop") \cup {k} /\ Stops(d, "forceStop")' = Stops(d, "forceStop")
            BY <1>1, <2>2, <2>7 DEF Handlers, Stops
        <3>3. Handlers(d, {"attached"}) = {}
            BY <1>5, <2>7, NoneAttached DEF Answer
        <3>4. Outside(d)!AcceptPlain(k)
            BY <1>4, <2>5, <3>1, <3>2, <3>3 DEF Outside!AcceptPlain
        <3> QED  BY <2>3, <2>4, <3>4 DEF Follows, Outside!Next
    <2>8. CASE v = "forceStop"
        <3>1. Handlers(d, {"attached"})' = Handlers(d, {"attached"})
            BY <1>1, <2>2, <2>8 DEF Handlers
        <3>2. Stops(d, "stop")' = Stops(d, "stop") /\ Stops(d, "forceStop")' = Stops(d, "forceStop") \cup {k}
            BY <1>1, <2>2, <2>8 DEF Handlers, Stops
        <3>3. Outside(d)!AcceptForced(k)
            BY <1>4, <2>5, <3>1, <3>2 DEF Outside!AcceptForced
        <3> QED  BY <2>3, <2>4, <3>3 DEF Follows, Outside!Next
    <2> QED  BY <1>5, <2>6, <2>7, <2>8
<1>6. CASE ~(r = "ok" /\ v \in {"attach", "stop", "forceStop"})
    <2>1. link' = ServerClosed(k, r) /\ r \in Replies
        BY <1>6 DEF Handle, Answer, Replies
    <2>2. link'[k].srv = "gone" /\ \A j \in Conns \ {k} : link'[j] = link[j]
        BY <1>1, <2>1, ServerClosedFacts
    <2>3. LinksKept
        BY <1>1, <2>2 DEF LinksKept, Seen
    <2> QED  BY <1>2, <2>3, Quiet DEF RInv
<1> QED  BY <1>5, <1>6

LEMMA HandlerFollows ==
    ASSUME RInv, NEW d \in Daemons, NEW k \in Conns, HandlerStep(d, k)
    PROVE  StopInv' /\ Follows
<1>1. TypeOK /\ link[k] \in Link /\ link[k].reply \in Replies
    BY DEF RInv, IInv, LockInv, TypeOK, Link
<1>2. CASE Accept(d, k)
    <2>1. /\ link[k].srv = "queued" /\ link' = [link EXCEPT ![k].srv = "reading"] /\ UNCHANGED phase
        BY <1>2 DEF Accept, daemonVars
    <2>2. link'[k].srv = "reading" /\ \A j \in Conns \ {k} : link'[j] = link[j]
        BY <1>1, <2>1 DEF TypeOK, Link
    <2>3. LinksKept /\ ModesKept
        BY <2>1, <2>2, PhaseKept DEF LinksKept, Seen
    <2> QED  BY <2>3, Quiet DEF RInv
<1>3. CASE Handle(d, k)
    BY <1>3, HandleFollows
<1>4. CASE Detach(d, k)
    <2>1. /\ link[k].to = d /\ link[k].srv = "attached" /\ UNCHANGED phase
          /\ link' = ServerClosed(k, link[k].reply)
        BY <1>4 DEF Detach
    <2>2. link'[k].srv = "gone" /\ \A j \in Conns \ {k} : link'[j] = link[j]
        BY <1>1, <2>1, ServerClosedFacts
    <2>3. ModesKept /\ Mode(d)' = Mode(d)
        BY <2>1, PhaseKept DEF ModesKept
    <2>4. StopInv'
        BY <2>2, <2>3 DEF RInv, StopInv, ModesKept
    <2>5. k \in Handlers(d, {"attached"}) /\ Handlers(d, {"attached"})' = Handlers(d, {"attached"}) \ {k}
        BY <2>1, <2>2 DEF Handlers
    <2>6. Stops(d, "stop")' = Stops(d, "stop") /\ Stops(d, "forceStop")' = Stops(d, "forceStop")
        BY <2>1, <2>2 DEF Handlers, Stops
    <2>7. Outside(d)!Leave(k)
        BY <2>3, <2>5, <2>6 DEF Outside!Leave
    <2>8. \A e \in Daemons : e # d => UNCHANGED Outside(e)!vars
        BY <2>1, <2>2, <2>3, OneLink DEF Seen
    <2> QED  BY <2>4, <2>7, <2>8 DEF Follows, Outside!Next
<1>5. CASE CloseListener(d, k)
    <2>1. link[k].to = d /\ link[k].srv = "stopping" /\ Mode(d) # "off"
        BY <1>5, HandlerAlive DEF CloseListener
    <2>2. link[k].verb \in {"stop", "forceStop"}
        BY <2>1 DEF RInv, StopInv
    <2>3. CASE phase[d] \in OpenPhases
        <3>1. k \in Stops(d, "stop") \cup Stops(d, "forceStop")
            BY <2>1, <2>2 DEF Handlers, Stops
        <3> QED  BY <1>5, <2>3, <3>1, ClosesFollows DEF Closes
    <2>4. CASE phase[d] \notin OpenPhases
        <3>1. link' = [link EXCEPT ![k].srv = "stopped"] /\ UNCHANGED phase
            BY <1>5, <2>4 DEF CloseListener
        <3>2. /\ \A j \in Conns \ {k} : link'[j] = link[j]
              /\ link'[k].srv = "stopped" /\ link'[k].to = d /\ link'[k].verb = link[k].verb
            BY <1>1, <2>1, <3>1 DEF TypeOK, Link
        <3>3. ModesKept /\ Mode(d) \notin {"on", "broken"}
            BY <2>4, <3>1, PhaseKept, ModePhases
        <3>4. StopInv'
            BY <2>2, <3>2, <3>3 DEF RInv, StopInv, ModesKept
        <3>5. UNCHANGED <<Handlers(d, {"attached"}), Stops(d, "stop"), Stops(d, "forceStop")>>
            BY <2>1, <3>2 DEF Handlers, Stops
        <3>6. UNCHANGED Outside(d)!vars
            BY <3>3, <3>5 DEF ModesKept, Outside!vars
        <3>7. \A e \in Daemons : e # d => UNCHANGED Outside(e)!vars
            BY <2>1, <3>2, <3>3, OneLink
        <3> QED  BY <3>4, <3>6, <3>7 DEF Follows
    <2> QED  BY <2>3, <2>4
<1>6. CASE CloseConn(d, k)
    <2>1. /\ link[k].to = d /\ link[k].srv = "stopped" /\ UNCHANGED phase
          /\ link' = ServerClosed(k, link[k].reply)
        BY <1>6 DEF CloseConn, daemonVars
    <2>2. link'[k].srv = "gone" /\ \A j \in Conns \ {k} : link'[j] = link[j]
        BY <1>1, <2>1, ServerClosedFacts
    <2>3. /\ ModesKept /\ Mode(d)' = Mode(d)
          /\ link[k].verb \in {"stop", "forceStop"} /\ Mode(d) = "closing"
        BY <2>1, PhaseKept, HandlerAlive DEF ModesKept, RInv, StopInv, Mode
    <2>4. StopInv'
        BY <2>2, <2>3 DEF RInv, StopInv, ModesKept
    <2>5. Handlers(d, {"attached"})' = Handlers(d, {"attached"})
        BY <2>1, <2>2 DEF Handlers
    <2>6. /\ Stops(d, "stop")' = Stops(d, "stop") \ {k}
          /\ Stops(d, "forceStop")' = Stops(d, "forceStop") \ {k}
          /\ k \in Stops(d, "stop") \cup Stops(d, "forceStop")
        BY <2>1, <2>2, <2>3 DEF Handlers, Stops
    <2>7. Outside(d)!Report(k)
        BY <2>3, <2>5, <2>6 DEF Outside!Report
    <2>8. \A e \in Daemons : e # d => UNCHANGED Outside(e)!vars
        BY <2>1, <2>2, <2>3, OneLink DEF Seen
    <2> QED  BY <2>4, <2>7, <2>8 DEF Follows, Outside!Next
<1> QED  BY <1>2, <1>3, <1>4, <1>5, <1>6 DEF HandlerStep

-----------------------------------------------------------------------------

LEMMA InitFollows == Init => RInv /\ \A d \in Daemons : Outside(d)!Init
<1> SUFFICES ASSUME Init PROVE RInv /\ \A d \in Daemons : Outside(d)!Init
    OBVIOUS
<1>1. RInv
    BY InitIInv DEF RInv, StopInv, Init, FreeLink
<1>2. ASSUME NEW d \in Daemons PROVE Outside(d)!Init
    <2>1. Mode(d) = "off"
        BY DEF Init, Mode
    <2>2. Handlers(d, {"attached"}) = {} /\ Stops(d, "stop") = {} /\ Stops(d, "forceStop") = {}
        BY DEF Init, FreeLink, Handlers, Stops
    <2> QED  BY <2>1, <2>2 DEF Outside!Init
<1> QED  BY <1>1, <1>2

LEMMA NextFollows == RInv /\ [Next]_vars => RInv' /\ Follows
<1> SUFFICES ASSUME RInv, [Next]_vars PROVE RInv' /\ Follows
    OBVIOUS
<1>1. IInv'
    BY NextIInv DEF RInv
<1>2. StopInv' /\ Follows
    <2>1. CASE UNCHANGED vars
        <3>1. LinksKept /\ ModesKept
            BY <2>1, PhaseKept DEF vars, daemonVars, LinksKept
        <3> QED  BY <3>1, Quiet DEF RInv
    <2> QED  BY <2>1, ClientFollows, DaemonFollows, HandlerFollows DEF Next
<1> QED  BY <1>1, <1>2 DEF RInv

\* The sockets, the lock, the handlers and their mutex implement, for every
\* daemon, the promises made to those who attach and stop: it closes because of
\* a stop it accepted or of a failed accept, and of nothing else.
THEOREM Refinement == Spec => Implements
<1>1. RInv /\ [Next]_vars => [\A d \in Daemons : UNCHANGED Outside(d)!vars \/ Outside(d)!Next]_vars
    BY NextFollows DEF Follows
<1> QED  BY <1>1, InitFollows, NextFollows, PTL DEF Spec, Implements

-----------------------------------------------------------------------------
(* Without kills and deadlines a client waits for its answer, and so what a *)
(* daemon is asked is asked by a client that is still there (Requests).     *)

Pending == {"queued", "reading", "stopping", "stopped"}
StopVerbs == {"stop", "forceStop"}

\* A request is answered when its handler leaves the reading state, and only
\* a plain stop is refused.
Told(k) ==
    /\ link[k].srv \in {"queued", "reading"} => link[k].reply = "none"
    /\ link[k].srv \in {"attached", "stopping", "stopped"} => link[k].reply = "ok"
    /\ link[k].srv \in {"stopping", "stopped"} => link[k].verb \in StopVerbs
    /\ link[k].reply = "refused" => link[k].verb = "stop"

\* Somebody waits for what a handler works on.
Asked(k) == link[k].srv \in Pending => link[k].open /\ \E c \in Clients : conn[c] = k

\* A stop is asked by the command of that name, which holds the lock.
StopAsked(c) ==
    HasConn(c) /\ link[conn[c]].verb \in StopVerbs =>
        op[c] = link[conn[c]].verb /\ pc[c] \in {"probing", "drain"}

Requests ==
    /\ \A k \in Conns : Told(k) /\ Asked(k)
    /\ \A c \in Clients : StopAsked(c)

\* No process is killed from outside and no deadline passes.
Orderly == Faults \cap {"kill", "timeout"} = {}

\* What closing an end can make of a connection.
LEMMA DropWhole ==
    ASSUME TypeOK, NEW c \in Clients, Drop(c), NEW j \in Conns
    PROVE  link'[j] = link[j] \/ link'[j] = [link[j] EXCEPT !.open = FALSE] \/ link'[j] = FreeLink
<1>1. CASE conn[c] = None
    BY <1>1 DEF Drop
<1>2. CASE conn[c] # None
    <2>1. conn[c] \in Conns
        BY <1>2 DEF TypeOK
    <2>2. link' = [link EXCEPT ![conn[c]] = Collapse([link[conn[c]] EXCEPT !.open = FALSE])]
        BY <1>2 DEF Drop, ClientClosed
    <2>3. CASE j = conn[c]
        BY <2>1, <2>2, <2>3 DEF TypeOK, Collapse
    <2>4. CASE j # conn[c]
        BY <2>1, <2>2, <2>4 DEF TypeOK
    <2> QED  BY <2>3, <2>4
<1> QED  BY <1>1, <1>2

LEMMA HangupWhole ==
    ASSUME TypeOK, NEW d, link' = Hangup(d), NEW j \in Conns
    PROVE  link'[j] = link[j] \/ link'[j] = [link[j] EXCEPT !.srv = "gone"] \/ link'[j] = FreeLink
BY DEF Hangup, Collapse

\* A connection that is still the same, closed at an end or forgotten has been
\* told what it was told.
LEMMA ToldKept ==
    ASSUME TypeOK, NEW j \in Conns, Told(j),
           \/ link'[j] = link[j] \/ link'[j] = [link[j] EXCEPT !.open = FALSE]
           \/ link'[j] = [link[j] EXCEPT !.srv = "gone"] \/ link'[j] = FreeLink
    PROVE  Told(j)'
<1>1. link[j] \in Link
    BY DEF TypeOK
<1>2. \/ link'[j].srv = link[j].srv /\ link'[j].reply = link[j].reply /\ link'[j].verb = link[j].verb
      \/ link'[j].srv = "gone" /\ link'[j].reply = link[j].reply /\ link'[j].verb = link[j].verb
      \/ link'[j].srv = "gone" /\ link'[j].reply = "none"
    BY <1>1 DEF Link, FreeLink
<1> QED  BY <1>2 DEF Told

\* A client has a connection exactly where it is in a state that has one.
LEMMA Connected ==
    ASSUME NEW c \in Clients, Own(c), NEW k \in Conns, conn[c] = k
    PROVE  HasConn(c) /\ link[k].from = c
BY ConstantsAssumption DEF Own

\* Who closes a connection nobody works on leaves no request behind.
LEMMA DropRequests ==
    ASSUME IInv, Requests, NEW c \in Clients, Drop(c), pc'[c] \in Connectionless, OthersStay(c),
           HasConn(c) => link[conn[c]].srv \notin Pending
    PROVE  Requests'
<1>1. TypeOK
    BY DEF IInv, LockInv
<1>2. /\ conn'[c] = None
      /\ \A e \in Clients \ {c} : conn'[e] = conn[e]
    BY <1>1 DEF Drop, TypeOK
<1>3. ASSUME NEW j \in Conns PROVE Told(j)'
    BY <1>1, DropWhole, ToldKept DEF Requests
<1>4. ASSUME NEW j \in Conns, link'[j].srv \in Pending
      PROVE  link'[j].open /\ \E e \in Clients : conn'[e] = j
    <2>1. link[j].srv \in Pending
        BY <1>1, <1>4, DropFacts
    <2>2. PICK e \in Clients : conn[e] = j /\ link[j].open
        BY <2>1 DEF Requests, Asked
    <2>3. conn[c] # j
        BY <2>1, Connected DEF IInv
    <2>4. e # c /\ link'[j] = link[j]
        BY <1>1, <2>2, <2>3, DropFacts
    <2> QED  BY <1>2, <2>2, <2>4
<1>5. ASSUME NEW e \in Clients PROVE StopAsked(e)'
    <2>1. CASE e = c
        BY <2>1 DEF StopAsked, HasConn, Connectionless
    <2>2. CASE e # c
        <3>1. HasConn(e) => conn[e] \in Conns /\ conn[e] # conn[c]
            BY <2>2, OwnDistinct DEF IInv, Own
        <3>2. HasConn(e) => link'[conn[e]] = link[conn[e]]
            BY <1>1, <3>1, DropFacts
        <3> QED  BY <1>2, <2>2, <3>2 DEF Requests, StopAsked, HasConn, OthersStay
    <2> QED  BY <2>1, <2>2
<1> QED  BY <1>3, <1>4, <1>5 DEF Requests, Asked

\* Where connections and who holds them stay, so do the requests.
LEMMA QuietRequests ==
    ASSUME Requests, UNCHANGED <<conn, link>>,
           \A c \in Clients : \/ pc'[c] = pc[c] /\ op'[c] = op[c]
                              \/ pc'[c] \in Connectionless
                              \/ StopAsked(c)'
    PROVE  Requests'
<1>1. ASSUME NEW c \in Clients PROVE StopAsked(c)'
    BY DEF Requests, StopAsked, HasConn, Connectionless
<1>2. ASSUME NEW k \in Conns PROVE Told(k)' /\ Asked(k)'
    BY DEF Requests, Told, Asked
<1> QED  BY <1>1, <1>2 DEF Requests

\* What the daemon's side does leaves the askers alone.
LEMMA ServedRequests ==
    ASSUME IInv, Requests, UNCHANGED conn,
           \A c \in Clients : (pc'[c] = pc[c] /\ op'[c] = op[c]) \/ pc'[c] \in Connectionless,
           \A k \in Conns :
               /\ Told(k)'
               /\ link'[k].open = link[k].open
               /\ link[k].open => link'[k].verb = link[k].verb
               /\ link'[k].srv \in Pending => link[k].srv \in Pending
    PROVE  Requests'
<1>1. ASSUME NEW c \in Clients PROVE StopAsked(c)'
    <2>1. CASE pc'[c] \in Connectionless
        BY <2>1 DEF StopAsked, HasConn, Connectionless
    <2>2. CASE pc'[c] = pc[c] /\ op'[c] = op[c]
        <3>1. HasConn(c) => conn[c] \in Conns /\ link[conn[c]].open
            BY DEF IInv, Own
        <3> QED  BY <2>2, <3>1 DEF Requests, StopAsked, HasConn
    <2> QED  BY <2>1, <2>2
<1>2. ASSUME NEW k \in Conns PROVE Asked(k)'
    BY DEF Requests, Asked
<1> QED  BY <1>1, <1>2 DEF Requests

\* A session's connection is none a stop is pending on.
LEMMA SessionNotPending ==
    ASSUME IInv, NEW c \in Clients, pc[c] = "attached"
    PROVE  conn[c] \in Conns /\ link[conn[c]].srv \notin Pending
BY DEF IInv, Own, HasConn, WantsAttach, Grant, Pending

\* An answer ends what the handler did for the client, but for a stop, on which
\* the client goes on waiting.
LEMMA AnswerEnds ==
    ASSUME IInv, Requests, NEW c \in Clients, Waiting(c), link[conn[c]].reply # "none",
           Settled(c, link[conn[c]].reply) # "drain"
    PROVE  link[conn[c]].srv \notin Pending
<1> DEFINE k == conn[c]
<1>1. HasConn(c) /\ k \in Conns
    BY DEF Waiting, HasConn, IInv, Own
<1>2. link[k].srv \notin {"queued", "reading"}
    BY <1>1 DEF Requests, Told
<1>3. ASSUME link[k].srv \in {"stopping", "stopped"} PROVE FALSE
    <2>1. link[k].reply = "ok" /\ link[k].verb \in StopVerbs
        BY <1>1, <1>3 DEF Requests, Told
    <2>2. op[c] \in StopVerbs /\ pc[c] = "probing"
        BY <1>1, <2>1 DEF Requests, StopAsked, Waiting
    <2>3. Settled(c, "ok") = "drain"
        BY <2>2 DEF Settled, StopVerbs, IsAttach
    <2> QED  BY <2>1, <2>3
<1> QED  BY <1>2, <1>3 DEF Pending

LEMMA SettleRequests ==
    ASSUME IInv, Requests, NEW c \in Clients, NEW r, Settle(c, r),
           r = "ok" => Waiting(c) /\ link[conn[c]].reply = r,
           Settled(c, r) # "drain" /\ HasConn(c) => link[conn[c]].srv \notin Pending
    PROVE  Requests'
<1> DEFINE s == Settled(c, r)
<1>1. TypeOK
    BY DEF IInv, LockInv
<1>2. /\ pc'[c] = s
      /\ s # "idle" => op'[c] = op[c]
      /\ OthersStay(c)
    BY <1>1, GoFacts DEF Settle
<1>3. CASE s \notin {"drain", "attached"}
    <2>1. Drop(c)
        BY <1>3 DEF Settle
    <2>2. pc'[c] \in Connectionless
        BY <1>2, <1>3, SettledStates DEF Connectionless
    <2> QED  BY <1>2, <1>3, <2>1, <2>2, DropRequests
<1>4. CASE s \in {"drain", "attached"}
    <2>1. UNCHANGED <<conn, link>>
        BY <1>4 DEF Settle
    <2>2. r = "ok" /\ Waiting(c) /\ HasConn(c)
        BY <1>4, SettledStates DEF HasConn, Waiting
    <2>3. StopAsked(c)'
        <3>1. CASE s = "drain"
            BY <1>2, <2>1, <2>2, <3>1 DEF Requests, StopAsked
        <3>2. CASE s = "attached"
            <4>1. IsAttach(op[c]) /\ pc[c] \notin {"poll", "polling"}
                BY <3>2, SettledStates
            <4>2. link[conn[c]].verb = "attach"
                BY <2>2, <4>1 DEF IInv, Own, WantsAttach, Waiting
            <4> QED  BY <2>1, <4>2 DEF StopAsked, StopVerbs
        <3> QED  BY <1>4, <3>1, <3>2
    <2>4. \A e \in Clients \ {c} : pc'[e] = pc[e] /\ op'[e] = op[e]
        BY <1>2 DEF OthersStay
    <2> QED  BY <2>1, <2>3, <2>4, QuietRequests
<1> QED  BY <1>3, <1>4

LEMMA DialRequests ==
    ASSUME IInv, Requests, NEW c \in Clients, Dial(c)
    PROVE  Requests'
<1>1. TypeOK
    BY DEF IInv, LockInv
<1>2. PICK k \in Conns :
        /\ FreeConn(k)
        /\ conn' = [conn EXCEPT ![c] = k]
        /\ link' = [link EXCEPT ![k] = [srv |-> "queued", open |-> TRUE, from |-> c,
                                        to |-> path["management"], version |-> bin[c],
                                        verb |-> Verb(c), reply |-> "none"]]
    BY DEF Dial
<1>3. /\ pc[c] \in {"probe", "poll", "attach"} /\ pc' = [pc EXCEPT ![c] = Awaiting(pc[c])]
      /\ UNCHANGED op
    BY DEF Dial
<1>4. /\ link'[k] = [srv |-> "queued", open |-> TRUE, from |-> c,
                     to |-> path["management"], version |-> bin[c],
                     verb |-> Verb(c), reply |-> "none"]
      /\ \A j \in Conns \ {k} : link'[j] = link[j]
      /\ conn'[c] = k /\ \A e \in Clients \ {c} : conn'[e] = conn[e] /\ pc'[e] = pc[e]
      /\ pc'[c] = Awaiting(pc[c])
    BY <1>1, <1>2, <1>3 DEF TypeOK
<1>5. conn[c] = None /\ link[k].srv = "gone" /\ ~link[k].open
    BY <1>2, <1>3 DEF IInv, Own, HasConn, FreeConn
<1>6. ASSUME NEW j \in Conns PROVE Told(j)' /\ Asked(j)'
    <2>1. CASE j = k
        BY <1>4, <2>1 DEF Told, Asked
    <2>2. CASE j # k
        <3>1. Told(j)'
            BY <1>4, <2>2 DEF Requests, Told
        <3>2. \A e \in Clients : conn[e] = j => conn'[e] = j
            BY <1>4, <1>5, ConstantsAssumption
        <3> QED  BY <1>4, <2>2, <3>1, <3>2 DEF Requests, Asked
    <2> QED  BY <2>1, <2>2
<1>7. ASSUME NEW e \in Clients PROVE StopAsked(e)'
    <2>1. CASE e = c
        BY <1>3, <1>4, <2>1 DEF StopAsked, StopVerbs, Verb, Awaiting
    <2>2. CASE e # c
        <3>1. HasConn(e) => conn[e] # k
            BY <1>5 DEF IInv, Own
        <3>2. HasConn(e) => conn[e] \in Conns
            BY DEF IInv, Own
        <3> QED  BY <1>3, <1>4, <2>2, <3>1, <3>2 DEF Requests, StopAsked, HasConn
    <2> QED  BY <2>1, <2>2
<1> QED  BY <1>6, <1>7 DEF Requests

\* A daemon's death hangs up and answers nothing.
LEMMA DeathRequests ==
    ASSUME IInv, Requests, NEW d, Dies(d), link' = Hangup(d),
           \/ UNCHANGED clientVars
           \/ \E c \in Clients : pc[c] = "poll" /\ Go(c, "idle") /\ UNCHANGED conn
    PROVE  Requests'
<1>1. TypeOK
    BY DEF IInv, LockInv
<1>2. /\ conn' = conn
      /\ \A c \in Clients : (pc'[c] = pc[c] /\ op'[c] = op[c]) \/ pc'[c] \in Connectionless
    BY <1>1 DEF Go, clientVars, TypeOK, Connectionless
<1>3. ASSUME NEW k \in Conns
      PROVE  /\ Told(k)'
             /\ link'[k].open = link[k].open
             /\ link[k].open => link'[k].verb = link[k].verb
             /\ link'[k].srv \in Pending => link[k].srv \in Pending
    <2>1. Told(k)'
        BY <1>1, HangupWhole, ToldKept DEF Requests
    <2> QED  BY <1>1, <2>1, HangupFacts DEF Pending
<1> QED  BY <1>2, <1>3, ServedRequests

\* Closing the listener resets what waits in the backlog and ends the stop.
LEMMA ClosesRequests ==
    ASSUME IInv, Requests, NEW d \in Daemons, Closes(d)
    PROVE  Requests'
<1>1. TypeOK
    BY DEF IInv, LockInv
<1>2. UNCHANGED <<conn, pc, op>>
    BY <1>1, ClosesFacts DEF clientVars
<1>3. ASSUME NEW k \in Conns
      PROVE  /\ Told(k)'
             /\ link'[k].open = link[k].open
             /\ link[k].open => link'[k].verb = link[k].verb
             /\ link'[k].srv \in Pending => link[k].srv \in Pending
    <2>1. Told(k)
        BY DEF Requests
    <2>2. CASE \/ link'[k] = link[k]
               \/ link'[k] = [link[k] EXCEPT !.srv = "gone"] \/ link'[k] = FreeLink
        <3>1. Told(k)'
            BY <1>1, <2>1, <2>2, ToldKept
        <3>2. link'[k] = link[k] \/ link'[k].srv = "gone" \/ link'[k].srv = "stopped"
            BY <1>1, ClosesLinks
        <3>3. link'[k].srv # "stopped" \/ link'[k] = link[k] \/ link[k].srv = "stopping"
            BY <1>1, ClosesLinks
        <3> QED  BY <1>1, <3>1, <3>2, <3>3, ClosesLinks DEF Pending
    <2>3. CASE /\ link[k].srv = "stopping" /\ link'[k].srv = "stopped"
               /\ link'[k].verb = link[k].verb /\ link'[k].reply = link[k].reply
        <3>1. Told(k)'
            BY <2>1, <2>3 DEF Told
        <3> QED  BY <1>1, <2>3, <3>1, ClosesLinks DEF Pending
    <2> QED  BY <1>1, <2>2, <2>3, ClosesLinks
<1> QED  BY <1>2, <1>3, ServedRequests

LEMMA ClientRequests ==
    ASSUME Orderly, IInv, Requests, NEW c \in Clients, ClientStep(c) \/ UserStep(c)
    PROVE  Requests'
<1>1. TypeOK
    BY DEF IInv, LockInv
<1>2. CASE \/ \E o \in Ops, v \in Protocols : Begin(c, o, v)
           \/ Lock(c) \/ RemoveSockets(c) \/ Spawn(c) \/ HandOff(c)
    <2>1. /\ UNCHANGED <<conn, link>> /\ pc'[c] \in Connectionless \cup {"handoff"}
          /\ \A e \in Clients \ {c} : pc'[e] = pc[e] /\ op'[e] = op[e]
        BY <1>1, <1>2 DEF Begin, Lock, RemoveSockets, Spawn, HandOff, TypeOK, Connectionless
    <2>2. StopAsked(c)'
        BY <2>1 DEF StopAsked, HasConn, Connectionless
    <2> QED  BY <2>1, <2>2, QuietRequests
<1>3. CASE DialFails(c) \/ GetReply(c) \/ ConnReset(c)
    <2>1. CASE DialFails(c)
        <3>1. PICK r \in {"absent", "down"} : Settle(c, r)
            BY <2>1 DEF DialFails
        <3>2. ~HasConn(c)
            BY <2>1 DEF DialFails, HasConn
        <3> QED  BY <3>1, <3>2, SettleRequests
    <2>2. CASE GetReply(c)
        BY <2>2, AnswerEnds, SettleRequests DEF GetReply
    <2>3. CASE ConnReset(c)
        BY <2>3, SettleRequests DEF ConnReset, Pending
    <2> QED  BY <1>3, <2>1, <2>2, <2>3
<1>4. CASE \/ TokenFails(c) \/ SpawnFails(c) \/ HandOffFails(c) \/ AwaitEOF(c)
           \/ EndSession(c) \/ SessionLost(c)
    <2>1. Fail(c)
        BY <1>4 DEF TokenFails, SpawnFails, HandOffFails, AwaitEOF, EndSession, SessionLost
    <2>2. Drop(c) /\ pc'[c] = "idle" /\ OthersStay(c)
        BY <1>1, <2>1, GoFacts DEF Fail
    <2>3. HasConn(c) => link[conn[c]].srv \notin Pending
        BY <1>4, SessionNotPending DEF TokenFails, SpawnFails, HandOffFails, AwaitEOF, EndSession,
                                       SessionLost, HasConn, Pending
    <2> QED  BY <2>2, <2>3, DropRequests DEF Connectionless
<1>5. CASE PollDeadline(c)
    BY <1>5, DeathRequests DEF PollDeadline
<1>6. ~(ProbeTimeout(c) \/ StopTimeout(c) \/ Kill(c))
    BY DEF Orderly, ProbeTimeout, StopTimeout, Kill
<1> QED  BY <1>2, <1>3, <1>4, <1>5, <1>6, DialRequests DEF ClientStep, UserStep

LEMMA HandlerRequests ==
    ASSUME IInv, Requests, NEW d \in Daemons, NEW k \in Conns, HandlerStep(d, k)
    PROVE  Requests'
<1>1. TypeOK
    BY DEF IInv, LockInv
<1>2. link[k] \in Link /\ link[k].reply \in Replies /\ Told(k)
    BY <1>1 DEF TypeOK, Link, Requests
<1>3. UNCHANGED <<conn, pc, op>>
    BY DEF HandlerStep, Accept, Handle, Detach, CloseListener, CloseConn, clientVars
\* One connection k moves on, the others are kept.
<1>4. ASSUME \A j \in Conns \ {k} : link'[j] = link[j],
             link'[k].open = link[k].open,
             Told(k)',
             link[k].open => link'[k].verb = link[k].verb,
             link'[k].srv \in Pending => link[k].srv \in Pending
      PROVE  Requests'
    <2>1. \A j \in Conns \ {k} : Told(j)'
        BY <1>4 DEF Requests, Told
    <2> QED  BY <1>3, <1>4, <2>1, ServedRequests
\* A handler that returns.
<1>5. ASSUME NEW r \in Replies, link' = ServerClosed(k, r),
             r = "refused" => link[k].verb = "stop"
      PROVE  Requests'
    <2>1. link'[k] = [link[k] EXCEPT !.srv = "gone", !.reply = r] \/ link'[k] = FreeLink
        BY <1>1, <1>5 DEF ServerClosed, Collapse, TypeOK
    <2>2. Told(k)'
        <3>1. /\ link'[k].srv = "gone"
              /\ (link'[k].reply = r /\ link'[k].verb = link[k].verb) \/ link'[k].reply = "none"
            <4>1. CASE link'[k] = [link[k] EXCEPT !.srv = "gone", !.reply = r]
                BY <1>2, <4>1 DEF Link
            <4>2. CASE link'[k] = FreeLink
                BY <4>2 DEF FreeLink
            <4> QED  BY <2>1, <4>1, <4>2
        <3> QED  BY <1>5, <3>1 DEF Told
    <2> QED  BY <1>1, <1>4, <1>5, <2>2, ServerClosedFacts DEF Pending
<1>6. CASE Accept(d, k)
    <2>1. /\ link[k].srv = "queued" /\ link'[k] = [link[k] EXCEPT !.srv = "reading"]
          /\ \A j \in Conns \ {k} : link'[j] = link[j]
        BY <1>1, <1>6 DEF Accept, TypeOK
    <2>2. /\ link'[k].srv = "reading" /\ link'[k].open = link[k].open
          /\ link'[k].verb = link[k].verb /\ link'[k].reply = link[k].reply
        BY <1>2, <2>1 DEF Link
    <2>3. Told(k)'
        BY <1>2, <2>1, <2>2 DEF Told
    <2> QED  BY <1>4, <2>1, <2>2, <2>3 DEF Pending
<1>7. CASE Handle(d, k)
    <2>1. link[k].srv = "reading"
        BY <1>7 DEF Handle
    <2>2. CASE Answer(d, k) = "ok" /\ link[k].verb \in {"attach", "stop", "forceStop"}
        <3>1. /\ link'[k] = [link[k] EXCEPT
                                  !.reply = "ok",
                                  !.srv = IF link[k].verb = "attach" THEN "attached" ELSE "stopping"]
              /\ \A j \in Conns \ {k} : link'[j] = link[j]
            BY <1>1, <1>2, <1>7, <2>2 DEF Handle, TypeOK, Link
        <3>2. /\ link'[k].srv = IF link[k].verb = "attach" THEN "attached" ELSE "stopping"
              /\ link'[k].open = link[k].open
              /\ link'[k].verb = link[k].verb /\ link'[k].reply = "ok"
            BY <1>2, <3>1 DEF Link
        <3>3. Told(k)'
            BY <2>2, <3>2 DEF Told, StopVerbs
        <3> QED  BY <1>4, <2>1, <3>1, <3>2, <3>3 DEF Pending
    <2>3. CASE Answer(d, k) # "ok" \/ link[k].verb \notin {"attach", "stop", "forceStop"}
        <3>1. link' = ServerClosed(k, Answer(d, k))
            BY <1>7, <2>3 DEF Handle
        <3>2. Answer(d, k) \in Replies /\ (Answer(d, k) = "refused" => link[k].verb = "stop")
            BY DEF Answer, Replies
        <3> QED  BY <1>5, <3>1, <3>2
    <2> QED  BY <2>2, <2>3
<1>8. CASE Detach(d, k) \/ CloseConn(d, k)
    BY <1>2, <1>5, <1>8 DEF Detach, CloseConn, Told
<1>9. CASE CloseListener(d, k) /\ phase[d] \notin OpenPhases
    <2>1. /\ link[k].srv = "stopping" /\ link'[k] = [link[k] EXCEPT !.srv = "stopped"]
          /\ \A j \in Conns \ {k} : link'[j] = link[j]
        BY <1>1, <1>9 DEF CloseListener, TypeOK
    <2>2. /\ link'[k].srv = "stopped" /\ link'[k].open = link[k].open
          /\ link'[k].verb = link[k].verb /\ link'[k].reply = link[k].reply
        BY <1>2, <2>1 DEF Link
    <2>3. Told(k)'
        BY <1>2, <2>1, <2>2 DEF Told
    <2> QED  BY <1>4, <2>1, <2>2, <2>3 DEF Pending
<1>10. CASE CloseListener(d, k) /\ phase[d] \in OpenPhases
    BY <1>10, ClosesRequests DEF Closes
<1> QED  BY <1>6, <1>7, <1>8, <1>9, <1>10 DEF HandlerStep

LEMMA NextRequests ==
    ASSUME Orderly, IInv, Requests, [Next]_vars
    PROVE  Requests'
<1>1. CASE UNCHANGED vars
    BY <1>1, QuietRequests DEF vars, clientVars
<1>2. ASSUME NEW d \in Daemons, DaemonStep(d) \/ Crash(d) \/ AcceptFails(d) PROVE Requests'
    <2>1. CASE Exit(d) \/ Crash(d)
        BY <2>1, DeathRequests DEF Exit, Crash
    <2>2. CASE ListenRO(d) \/ ListenRW(d) \/ ListenManagement(d) \/ ShutRO(d) \/ ShutRW(d)
               \/ AcceptFails(d)
        <3>1. UNCHANGED <<clientVars, link>>
            BY <2>2 DEF ListenRO, ListenRW, ListenManagement, ShutRO, ShutRW, Listen, Shut, AcceptFails
        <3> QED  BY <3>1, QuietRequests DEF clientVars
    <2>3. CASE ShutManagement(d)
        <3>1. Closes(d)
            BY <2>3 DEF ShutManagement, Closes, OpenPhases
        <3> QED  BY <3>1, ClosesRequests
    <2> QED  BY <1>2, <2>1, <2>2, <2>3 DEF DaemonStep
<1> QED  BY <1>1, <1>2, ClientRequests, HandlerRequests DEF Next

\* The stops in progress and the sessions stay what they are, but for a session
\* that starts under the lock.
LEMMA SparedKept ==
    ASSUME IInv, Requests, PlainStopSparesSessions,
           \A k \in Conns : link'[k].srv \in {"stopping", "stopped"} =>
               /\ link[k].srv \in {"stopping", "stopped"}
               /\ link'[k].to = link[k].to /\ link'[k].verb = link[k].verb,
           \A c \in Clients : pc'[c] = "attached" =>
               \/ pc[c] = "attached" /\ link'[conn'[c]].to = link[conn[c]].to
               \/ Holding(c) /\ IsAttach(op[c])
    PROVE  PlainStopSparesSessions'
<1> SUFFICES ASSUME NEW k \in Conns, NEW c \in Clients,
                    link'[k].srv \in {"stopping", "stopped"}, link'[k].verb = "stop",
                    pc'[c] = "attached"
             PROVE  link'[conn'[c]].to # link'[k].to
    BY DEF PlainStopSparesSessions
<1>1. link[k].srv \in {"stopping", "stopped"} /\ link'[k].to = link[k].to /\ link[k].verb = "stop"
    OBVIOUS
<1>2. ASSUME Holding(c), IsAttach(op[c]) PROVE FALSE
    <2>1. PICK e \in Clients : conn[e] = k
        BY <1>1 DEF Requests, Asked, Pending
    <2>2. op[e] = "stop" /\ pc[e] \in {"probing", "drain"}
        BY <1>1, <2>1, Connected DEF IInv, Requests, StopAsked, StopVerbs
    <2>3. Holding(e) /\ e # c
        BY <1>2, <2>2 DEF Holding, IsAttach
    <2> QED  BY <1>2, <2>3 DEF IInv, LockInv, LockDiscipline
<1>3. CASE pc[c] = "attached" /\ link'[conn'[c]].to = link[conn[c]].to
    BY <1>1, <1>3 DEF PlainStopSparesSessions
<1> QED  BY <1>2, <1>3

\* What a client does to its own connection leaves the stops in progress and
\* the other sessions alone.
LEMMA DropSpares ==
    ASSUME IInv, Requests, PlainStopSparesSessions, NEW c \in Clients, Drop(c),
           pc'[c] # "attached", OthersStay(c)
    PROVE  PlainStopSparesSessions'
<1>1. TypeOK
    BY DEF IInv, LockInv
<1>2. ASSUME NEW e \in Clients, pc'[e] = "attached"
      PROVE  pc[e] = "attached" /\ link'[conn'[e]].to = link[conn[e]].to
    <2>1. e # c /\ pc[e] = "attached"
        BY <1>2 DEF OthersStay
    <2>2. conn'[e] = conn[e] /\ HasConn(e)
        BY <1>1, <2>1 DEF Drop, TypeOK, HasConn
    <2>3. conn[e] \in Conns /\ conn[e] # conn[c]
        BY <2>1, <2>2, OwnDistinct DEF IInv, Own
    <2> QED  BY <1>1, <2>1, <2>2, <2>3, DropFacts
<1>3. ASSUME NEW k \in Conns, link'[k].srv \in {"stopping", "stopped"}
      PROVE  link[k].srv \in {"stopping", "stopped"} /\ link'[k].to = link[k].to
             /\ link'[k].verb = link[k].verb
    BY <1>1, <1>3, DropFacts
<1> QED  BY <1>2, <1>3, SparedKept

\* A daemon's death ends stops and moves no session to another daemon.
LEMMA HungUpSpares ==
    ASSUME IInv, Requests, PlainStopSparesSessions, NEW d, link' = Hangup(d), conn' = conn,
           \A c \in Clients : pc'[c] = "attached" => pc[c] = "attached"
    PROVE  PlainStopSparesSessions'
<1>1. TypeOK
    BY DEF IInv, LockInv
<1>2. ASSUME NEW c \in Clients, pc'[c] = "attached"
      PROVE  pc[c] = "attached" /\ link'[conn'[c]].to = link[conn[c]].to
    <2>1. pc[c] = "attached" /\ conn[c] \in Conns /\ link[conn[c]].open
        BY <1>2 DEF IInv, Own, HasConn
    <2> QED  BY <1>1, <2>1, HangupFacts
<1>3. ASSUME NEW k \in Conns, link'[k].srv \in {"stopping", "stopped"} PROVE link'[k] = link[k]
    BY <1>1, <1>3, HangupFacts
<1> QED  BY <1>2, <1>3, SparedKept

\* Closing the listener moves no connection to another daemon and resets none
\* but of its own backlog.
LEMMA ClosesEnds ==
    ASSUME TypeOK, NEW d \in Daemons, Closes(d), NEW j \in Conns
    PROVE  /\ link[j].open => link'[j].to = link[j].to
           /\ link'[j].open = link[j].open
           /\ link'[j].to \in {link[j].to, None}
           /\ link'[j].srv = "gone" => link[j].srv = "gone" \/ link[j].to = d
<1>1. [link[j] EXCEPT !.srv = "gone"].to = link[j].to /\ FreeLink.to = None
    BY DEF TypeOK, Link, FreeLink
<1>2. \/ link'[j] = link[j]
      \/ link[j].to = d /\ link'[j] = [link[j] EXCEPT !.srv = "gone"]
      \/ link[j].to = d /\ link'[j] = FreeLink
      \/ link[j].to = d /\ link'[j].to = d
    BY ClosesLinks
<1>3. /\ link[j].open => link'[j].to = link[j].to
      /\ link'[j].open = link[j].open
    BY ClosesLinks
<1> QED  BY <1>1, <1>2, <1>3

\* The listener that is closed spares the sessions.
LEMMA ClosesSpares ==
    ASSUME IInv, Requests, PlainStopSparesSessions, NEW d \in Daemons, Closes(d)
    PROVE  PlainStopSparesSessions'
<1>1. TypeOK
    BY DEF IInv, LockInv
<1>2. UNCHANGED <<conn, pc>>
    BY <1>1, ClosesFacts DEF clientVars
<1>3. ASSUME NEW c \in Clients, pc'[c] = "attached"
      PROVE  pc[c] = "attached" /\ link'[conn'[c]].to = link[conn[c]].to
    <2>1. pc[c] = "attached" /\ conn[c] \in Conns /\ link[conn[c]].open
        BY <1>2, <1>3 DEF IInv, Own, HasConn
    <2> QED  BY <1>1, <1>2, <2>1, ClosesLinks
<1>4. ASSUME NEW k \in Conns, link'[k].srv \in {"stopping", "stopped"}
      PROVE  link[k].srv \in {"stopping", "stopped"} /\ link'[k].to = link[k].to
             /\ link'[k].verb = link[k].verb
    <2>1. link'[k] = link[k] \/ (link[k].srv = "stopping" /\ link[k].to = d
                                  /\ link'[k].to = d /\ link'[k].verb = link[k].verb)
        BY <1>1, <1>4, ClosesLinks
    <2> QED  BY <1>4, <2>1
<1> QED  BY <1>2, <1>3, <1>4, SparedKept

LEMMA ClientSpares ==
    ASSUME IInv, Requests, PlainStopSparesSessions, NEW c \in Clients, ClientStep(c) \/ UserStep(c)
    PROVE  PlainStopSparesSessions'
<1>1. TypeOK
    BY DEF IInv, LockInv
\* Steps without a connection.
<1>2. CASE \/ \E o \in Ops, v \in Protocols : Begin(c, o, v)
           \/ Lock(c) \/ RemoveSockets(c) \/ Spawn(c) \/ HandOff(c)
    <2>1. /\ UNCHANGED <<conn, link>> /\ pc'[c] # "attached"
          /\ \A e \in Clients \ {c} : pc'[e] = pc[e]
        BY <1>1, <1>2 DEF Begin, Lock, RemoveSockets, Spawn, HandOff, TypeOK
    <2> QED  BY <2>1, SparedKept
<1>3. CASE Dial(c)
    <2>1. PICK k \in Conns :
            /\ FreeConn(k)
            /\ conn' = [conn EXCEPT ![c] = k]
            /\ link' = [link EXCEPT ![k] = [srv |-> "queued", open |-> TRUE, from |-> c,
                                            to |-> path["management"], version |-> bin[c],
                                            verb |-> Verb(c), reply |-> "none"]]
        BY <1>3 DEF Dial
    <2>2. link'[k].srv = "queued" /\ \A j \in Conns \ {k} : link'[j] = link[j]
        BY <1>1, <2>1 DEF TypeOK
    <2>3. /\ pc'[c] # "attached"
          /\ \A e \in Clients \ {c} : pc'[e] = pc[e] /\ conn'[e] = conn[e]
        BY <1>1, <1>3, <2>1 DEF Dial, Awaiting, TypeOK
    <2>4. ASSUME NEW e \in Clients, pc'[e] = "attached"
          PROVE  pc[e] = "attached" /\ link'[conn'[e]].to = link[conn[e]].to
        <3>1. e # c /\ pc[e] = "attached" /\ conn'[e] = conn[e]
            BY <2>3, <2>4
        <3>2. conn[e] \in Conns /\ link[conn[e]].open
            BY <3>1 DEF IInv, Own, HasConn
        <3> QED  BY <2>1, <2>2, <3>1, <3>2 DEF FreeConn
    <2>5. ASSUME NEW j \in Conns, link'[j].srv \in {"stopping", "stopped"} PROVE link'[j] = link[j]
        BY <2>2, <2>5
    <2> QED  BY <2>4, <2>5, SparedKept
<1>4. ASSUME NEW r, Settle(c, r), r = "ok" => Waiting(c)
      PROVE  PlainStopSparesSessions'
    <2>1. pc'[c] = Settled(c, r) /\ OthersStay(c)
        BY <1>1, <1>4, GoFacts DEF Settle
    <2>2. CASE Settled(c, r) \notin {"drain", "attached"}
        BY <1>4, <2>1, <2>2, DropSpares DEF Settle
    <2>3. CASE Settled(c, r) \in {"drain", "attached"}
        <3>1. UNCHANGED <<conn, link>>
            BY <1>4, <2>3 DEF Settle
        <3>2. Settled(c, r) = "attached" => Holding(c) /\ IsAttach(op[c])
            BY <1>4, SettledStates DEF Waiting, Holding, IsAttach
        <3>3. \A e \in Clients : pc'[e] = "attached" =>
                \/ pc[e] = "attached" /\ link'[conn'[e]].to = link[conn[e]].to
                \/ Holding(e) /\ IsAttach(op[e])
            BY <2>1, <3>1, <3>2 DEF OthersStay
        <3> QED  BY <3>1, <3>3, SparedKept
    <2> QED  BY <2>2, <2>3
<1>5. CASE DialFails(c) \/ GetReply(c) \/ ConnReset(c) \/ ProbeTimeout(c)
    <2>1. \E r : Settle(c, r) /\ (r = "ok" => Waiting(c))
        BY <1>5 DEF DialFails, GetReply, ConnReset, ProbeTimeout
    <2> QED  BY <2>1, <1>4
<1>6. CASE \/ TokenFails(c) \/ SpawnFails(c) \/ HandOffFails(c) \/ AwaitEOF(c) \/ StopTimeout(c)
           \/ EndSession(c) \/ SessionLost(c) \/ Kill(c)
    <2>1. Fail(c)
        BY <1>6 DEF TokenFails, SpawnFails, HandOffFails, AwaitEOF, StopTimeout, EndSession,
                    SessionLost, Kill
    <2>2. Drop(c) /\ pc'[c] = "idle" /\ OthersStay(c)
        BY <1>1, <2>1, GoFacts DEF Fail
    <2> QED  BY <2>2, DropSpares
<1>7. CASE PollDeadline(c)
    <2>1. conn' = conn /\ link' = Hangup(child[c]) /\ pc'[c] = "idle" /\ OthersStay(c)
        BY <1>1, <1>7, GoFacts DEF PollDeadline
    <2> QED  BY <2>1, HungUpSpares DEF OthersStay
<1> QED  BY <1>2, <1>3, <1>5, <1>6, <1>7 DEF ClientStep, UserStep

\* A handler's step moves no connection to another daemon and resets none that
\* waits for an answer, but for the backlog of a daemon it closes.
LEMMA HandlerEnds ==
    ASSUME IInv, Requests, NEW d \in Daemons, NEW k \in Conns, HandlerStep(d, k), NEW j \in Conns
    PROVE  /\ link[j].open => link'[j].to = link[j].to
           /\ link'[j].open = link[j].open
           /\ link'[j].to \in {link[j].to, None}
           /\ link'[j].open /\ link'[j].srv = "gone" /\ link'[j].reply = "none" =>
                  \/ link[j].srv = "gone" /\ link[j].reply = "none"
                  \/ link[j].to = d /\ phase'[d] \in {"closing", "closeRW", "exit"}
<1>1. TypeOK /\ link[j] \in Link
    BY DEF IInv, LockInv, TypeOK
<1>2. FreeLink.to = None
    BY DEF FreeLink
<1>3. ASSUME NEW r \in Replies \ {"none"}, link' = ServerClosed(k, r)
      PROVE  /\ link[j].open => link'[j].to = link[j].to
             /\ link'[j].open = link[j].open
             /\ link'[j].to \in {link[j].to, None}
             /\ link'[j].open /\ link'[j].srv = "gone" /\ link'[j].reply = "none" =>
                    link[j].srv = "gone" /\ link[j].reply = "none"
    <2>1. /\ j # k => link'[j] = link[j]
          /\ link'[j].open = link[j].open
          /\ link[k].open => link'[k].reply = r /\ link'[k].to = link[k].to
        BY <1>1, <1>3, ServerClosedFacts
    <2>2. [link[j] EXCEPT !.srv = "gone", !.reply = r].to = link[j].to
        BY <1>1 DEF Link
    <2>3. j = k => link'[j].to \in {link[j].to, None}
        BY <1>1, <1>2, <1>3, <2>2 DEF ServerClosed, Collapse, TypeOK
    <2> QED  BY <2>1, <2>3
<1>4. CASE Accept(d, k) \/ (CloseListener(d, k) /\ phase[d] \notin OpenPhases)
    <2>1. \/ link'[j] = link[j]
          \/ link'[j] = [link[j] EXCEPT !.srv = "reading"]
          \/ link'[j] = [link[j] EXCEPT !.srv = "stopped"]
        BY <1>1, <1>4 DEF Accept, CloseListener, TypeOK
    <2> QED  BY <1>1, <2>1 DEF Link
<1>5. CASE Handle(d, k)
    <2>1. Answer(d, k) \in Replies \ {"none"}
        BY DEF Answer, Replies
    <2>2. CASE link' = ServerClosed(k, Answer(d, k))
        BY <1>3, <2>1, <2>2
    <2>3. CASE link' = [link EXCEPT ![k].srv = IF link[k].verb = "attach" THEN "attached" ELSE "stopping",
                                    ![k].reply = Answer(d, k)]
        BY <1>1, <2>3 DEF TypeOK, Link
    <2> QED  BY <1>5, <2>2, <2>3 DEF Handle
<1>6. CASE Detach(d, k) \/ CloseConn(d, k)
    <2>1. link' = ServerClosed(k, link[k].reply) /\ link[k].reply = "ok"
        BY <1>6 DEF Detach, CloseConn, Requests, Told
    <2> QED  BY <1>3, <2>1 DEF Replies
<1>7. CASE CloseListener(d, k) /\ phase[d] \in OpenPhases
    <2>1. Closes(d)
        BY <1>7 DEF Closes
    <2>2. link[j].srv = "gone" => link'[j] = link[j]
        BY <1>1, <2>1, ClosesLinks
    <2> QED  BY <1>1, <2>1, <2>2, ClosesEnds, ClosesFacts
<1> QED  BY <1>4, <1>5, <1>6, <1>7 DEF HandlerStep

LEMMA HandlerSpares ==
    ASSUME IInv, Requests, PlainStopSparesSessions, NEW d \in Daemons, NEW k \in Conns,
           HandlerStep(d, k)
    PROVE  PlainStopSparesSessions'
<1>1. TypeOK
    BY DEF IInv, LockInv
<1>2. UNCHANGED <<conn, pc>>
    BY DEF HandlerStep, Accept, Handle, Detach, CloseListener, CloseConn, clientVars
<1>3. \A j \in Conns : link[j].open => link'[j].to = link[j].to
    BY HandlerEnds
<1>4. \A c \in Clients : pc'[c] = "attached" =>
        pc[c] = "attached" /\ link'[conn'[c]].to = link[conn[c]].to
    BY <1>2, <1>3 DEF IInv, Own, HasConn
<1>5. CASE ~Handle(d, k) /\ ~Closes(d)
    <2>1. ASSUME NEW j \in Conns, link'[j].srv \in {"stopping", "stopped"}
          PROVE  link[j].srv \in {"stopping", "stopped"} /\ link'[j].to = link[j].to
                 /\ link'[j].verb = link[j].verb
        <3>1. link[j] \in Link
            BY <1>1 DEF TypeOK
        <3>2. CASE Accept(d, k)
            BY <1>1, <2>1, <3>1, <3>2 DEF Accept, TypeOK, Link
        <3>3. CASE Detach(d, k) \/ CloseConn(d, k)
            <4>1. link' = ServerClosed(k, link[k].reply) /\ link[k].reply \in Replies
                BY <1>1, <3>3 DEF Detach, CloseConn, TypeOK, Link
            <4> QED  BY <1>1, <2>1, <4>1, ServerClosedFacts
        <3>4. CASE CloseListener(d, k)
            <4>1. link' = [link EXCEPT ![k].srv = "stopped"] /\ link[k].srv = "stopping"
                BY <1>5, <3>4 DEF CloseListener, Closes
            <4> QED  BY <1>1, <2>1, <3>1, <4>1 DEF TypeOK, Link
        <3> QED  BY <1>5, <3>2, <3>3, <3>4 DEF HandlerStep
    <2> QED  BY <1>4, <2>1, SparedKept
<1>6. CASE Handle(d, k)
    <2> SUFFICES ASSUME NEW j \in Conns, NEW c \in Clients,
                        link'[j].srv \in {"stopping", "stopped"}, link'[j].verb = "stop",
                        pc'[c] = "attached"
                 PROVE  link'[conn'[c]].to # link'[j].to
        BY DEF PlainStopSparesSessions
    <2>1. pc[c] = "attached" /\ link'[conn'[c]].to = link[conn[c]].to
        BY <1>4
    <2>2. Answer(d, k) \in Replies
        BY DEF Answer, Replies
    <2>3. CASE j # k
        <3>1. link'[j] = link[j]
            <4>1. CASE link' = ServerClosed(k, Answer(d, k))
                BY <1>1, <2>2, <2>3, <4>1, ServerClosedFacts
            <4>2. CASE \E s : link' = [link EXCEPT ![k].srv = s, ![k].reply = Answer(d, k)]
                BY <1>1, <2>3, <4>2 DEF TypeOK
            <4> QED  BY <1>6, <4>1, <4>2 DEF Handle
        <3> QED  BY <2>1, <3>1 DEF PlainStopSparesSessions
    <2>4. CASE j = k
        <3>1. link[k].to = d /\ link[k].srv = "reading"
            BY <1>6 DEF Handle
        <3>2. link' # ServerClosed(k, Answer(d, k))
            BY <1>1, <2>2, <2>4, ServerClosedFacts
        <3>3. Answer(d, k) = "ok" /\ link'[k].verb = link[k].verb /\ link'[k].to = d
            <4>1. link[k] \in Link
                BY <1>1 DEF TypeOK
            <4> QED  BY <1>1, <1>6, <3>1, <3>2, <4>1 DEF Handle, TypeOK, Link
        <3>4. active[d] = 0
            BY <2>4, <3>3 DEF Answer
        <3>5. Attachments(d) = {}
            BY <3>4, FiniteAttachments, FS_EmptySet DEF IInv, CountExact, Attachments
        <3>6. Alive(d)
            BY <3>1 DEF IInv, Served, Serves, ServingPhases, OpenPhases, Alive
        <3>7. /\ conn[c] \in Conns /\ link[conn[c]].open /\ link[conn[c]].verb = "attach"
              /\ link[conn[c]].reply = "ok"
            BY <2>1 DEF IInv, Own, HasConn, WantsAttach
        <3>8. /\ link[conn[c]].srv \in {"attached", "gone"}
              /\ link[conn[c]].srv = "gone" => link[conn[c]].to # d
            BY <3>6, <3>7 DEF IInv, Grant
        <3> QED  BY <2>1, <2>4, <3>3, <3>5, <3>7, <3>8 DEF Attachments
    <2> QED  BY <2>3, <2>4
<1> QED  BY <1>5, <1>6, ClosesSpares

LEMMA NextSpares ==
    ASSUME IInv, Requests, PlainStopSparesSessions, [Next]_vars
    PROVE  PlainStopSparesSessions'
<1>1. TypeOK
    BY DEF IInv, LockInv
<1>2. CASE UNCHANGED vars
    BY <1>2 DEF vars, clientVars, PlainStopSparesSessions
<1>3. ASSUME NEW d \in Daemons, DaemonStep(d) \/ Crash(d) \/ AcceptFails(d)
      PROVE  PlainStopSparesSessions'
    <2>1. CASE Exit(d) \/ Crash(d)
        BY <2>1, HungUpSpares DEF Exit, Crash, clientVars
    <2>2. CASE ListenRO(d) \/ ListenRW(d) \/ ListenManagement(d) \/ ShutRO(d) \/ ShutRW(d)
               \/ AcceptFails(d)
        <3>1. UNCHANGED <<clientVars, link>>
            BY <2>2 DEF ListenRO, ListenRW, ListenManagement, ShutRO, ShutRW, Listen, Shut, AcceptFails
        <3> QED  BY <3>1 DEF clientVars, PlainStopSparesSessions
    <2>3. CASE ShutManagement(d)
        <3>1. Closes(d)
            BY <2>3 DEF ShutManagement, Closes, OpenPhases
        <3> QED  BY <3>1, ClosesSpares
    <2> QED  BY <1>3, <2>1, <2>2, <2>3 DEF DaemonStep
<1> QED  BY <1>2, <1>3, ClientSpares, HandlerSpares DEF Next

LEMMA InitRequests == Init => Requests /\ PlainStopSparesSessions
BY DEF Init, FreeLink, Requests, Told, Asked, Pending, StopAsked, HasConn, PlainStopSparesSessions

\* README.md:259: where no process is killed and no deadline passes, a plain
\* stop that a daemon accepted finds no session of it, and none gets in before
\* the listener is closed: the client that asked still holds the lock.
THEOREM StopSparesSessions ==
    ASSUME Faults \cap {"kill", "timeout"} = {}
    PROVE  Spec => []PlainStopSparesSessions
<1> DEFINE J == IInv /\ Requests /\ PlainStopSparesSessions
<1>1. Init => J
    BY InitIInv, InitRequests
<1>2. J /\ [Next]_vars => J'
    BY NextIInv, NextRequests, NextSpares DEF Orderly
<1>3. J => PlainStopSparesSessions
    OBVIOUS
<1> QED  BY <1>1, <1>2, <1>3, PTL DEF Spec

-----------------------------------------------------------------------------
(* Without kills and deadlines there is one daemon at a time that starts or *)
(* serves: the one whose starter holds the lock, or else the one behind the *)
(* management socket (Succession).                                          *)

Starting(d) == phase[d] \in {"boot", "keyed", "ro", "rw"}
\* Its listener is open, whether it accepts or not.
Serving(d) == phase[d] \in OpenPhases

\* A daemon that starts has its parent, which waits for it...
Parented(d) ==
    Starting(d) => \E c \in Clients : child[c] = d /\ pc[c] \in {"handoff", "poll", "polling"}

\* ... and one that serves is reached by the name of its socket...
Named(d) == Serving(d) => path["management"] = d

\* ... and owns, or finds removed, the ingress sockets it has opened.
Ingress(d) ==
    /\ phase[d] \in {"ro", "rw"} \cup OpenPhases => path["ro"] \in {d, None}
    /\ phase[d] \in {"rw"} \cup OpenPhases => path["rw"] \in {d, None}

\* A starter finds nobody serving before its child does.
Succeeds(c) ==
    /\ pc[c] \in {"remove", "spawn", "handoff"} => \A d \in Daemons : ~Serving(d)
    /\ pc[c] \in {"poll", "polling"} =>
           child[c] \in Daemons /\ \A d \in Daemons : Serving(d) => d = child[c]
    /\ pc[c] = "polling" => link[conn[c]].to = child[c]
    /\ pc[c] = "probing" /\ op[c] # "list" =>
           \A d \in Daemons : Serving(d) => link[conn[c]].to = d

\* A daemon has no connection before it serves, and one that serves resets none.
Reached(k) ==
    /\ \A d \in Daemons : link[k].to = d => ~Starting(d)
    /\ link[k].open /\ link[k].srv = "gone" /\ link[k].reply = "none" =>
           \A d \in Daemons : link[k].to = d => ~Serving(d)

Succession ==
    /\ \A d \in Daemons : Parented(d) /\ Named(d) /\ Ingress(d)
    /\ \A c \in Clients : Succeeds(c)
    /\ \A k \in Conns : Reached(k)

\* The steps that start no daemon: some clients move, and may only move where
\* Succeeds allows and away from a child that starts no more.
LEMMA SuccessionKept ==
    ASSUME IInv, Succession, NEW M \in SUBSET Clients,
           \A e \in Clients \ M : /\ pc'[e] = pc[e] /\ op'[e] = op[e] /\ child'[e] = child[e]
                                  /\ conn'[e] = conn[e]
                                  /\ HasConn(e) => link'[conn[e]].to = link[conn[e]].to,
           \A c \in M : /\ Succeeds(c)'
                        /\ pc[c] \in {"handoff", "poll", "polling"} =>
                               \/ pc'[c] \in {"handoff", "poll", "polling"} /\ child'[c] = child[c]
                               \/ \A d \in Daemons : child[c] = d => ~Starting(d)',
           \A d \in Daemons : \/ phase'[d] = phase[d]
                              \/ phase'[d] \in {"dead", "closing", "closeRW", "exit"}
                              \/ phase[d] \in OpenPhases /\ phase'[d] \in OpenPhases,
           \A s \in {"ro", "rw"} : path'[s] \in {path[s], None},
           path'["management"] = path["management"] \/ \A d \in Daemons : ~Serving(d)',
           \A k \in Conns : link'[k].to \in {link[k].to, None},
           \A k \in Conns : link'[k].open /\ link'[k].srv = "gone" /\ link'[k].reply = "none" =>
               \A d \in Daemons : link'[k].to = d => ~Serving(d)'
    PROVE  Succession'
<1>1. \A d \in Daemons : (Serving(d)' => Serving(d)) /\ (Starting(d)' => Starting(d))
    BY DEF Serving, OpenPhases, Starting
<1>2. ASSUME NEW d \in Daemons PROVE Parented(d)'
    <2> SUFFICES ASSUME Starting(d)'
                 PROVE  \E c \in Clients : child'[c] = d /\ pc'[c] \in {"handoff", "poll", "polling"}
        BY DEF Parented
    <2>1. PICK c \in Clients : child[c] = d /\ pc[c] \in {"handoff", "poll", "polling"}
        BY <1>1 DEF Succession, Parented
    <2> QED  BY <2>1
<1>3. ASSUME NEW d \in Daemons PROVE Named(d)'
    BY <1>1 DEF Succession, Named
<1>4. ASSUME NEW d \in Daemons PROVE Ingress(d)'
    BY DEF Succession, Ingress, OpenPhases
<1>5. ASSUME NEW c \in Clients PROVE Succeeds(c)'
    <2>1. CASE c \notin M
        <3>1. pc[c] \in {"polling", "probing"} => link'[conn'[c]].to = link[conn[c]].to
            BY <2>1 DEF HasConn
        <3> QED  BY <1>1, <2>1, <3>1 DEF Succession, Succeeds
    <2>2. CASE c \in M
        BY <2>2, Zenon
    <2> QED  BY <2>1, <2>2
<1>6. ASSUME NEW k \in Conns PROVE Reached(k)'
    BY <1>1, ConstantsAssumption DEF Succession, Reached
<1> QED  BY <1>2, <1>3, <1>4, <1>5, <1>6 DEF Succession

\* While a daemon opens its sockets its parent has the lock and polls, and
\* there is no other daemon that starts or serves.
LEMMA OneStarter ==
    ASSUME IInv, Succession, NEW d \in Daemons, phase[d] \in {"keyed", "ro", "rw"}
    PROVE  /\ \E c \in Clients : lock = c /\ child[c] = d /\ pc[c] \in {"poll", "polling"}
           /\ \A e \in Daemons : Starting(e) \/ Serving(e) => e = d
<1>1. PICK c \in Clients : child[c] = d /\ pc[c] \in {"handoff", "poll", "polling"}
    BY DEF Succession, Parented, Starting
<1>2. pc[c] \in {"poll", "polling"}
    BY <1>1 DEF IInv, ChildWaits
<1>3. lock = c
    BY <1>2 DEF IInv, LockInv, LockDiscipline, Holding
<1>4. ASSUME NEW e \in Daemons, Starting(e) PROVE e = d
    <2>1. PICK b \in Clients : child[b] = e /\ pc[b] \in {"handoff", "poll", "polling"}
        BY <1>4 DEF Succession, Parented
    <2>2. lock = b
        BY <2>1 DEF IInv, LockInv, LockDiscipline, Holding
    <2> QED  BY <1>1, <1>3, <2>1, <2>2
<1>5. ASSUME NEW e \in Daemons, Serving(e) PROVE e = d
    BY <1>1, <1>2, <1>5 DEF Succession, Succeeds
<1> QED  BY <1>1, <1>2, <1>3, <1>4, <1>5

\* Who holds the lock and has no child that starts knows that nobody starts.
LEMMA NobodyStarts ==
    ASSUME IInv, Succession, NEW c \in Clients, Holding(c),
           pc[c] \notin {"handoff", "poll", "polling"}, NEW d \in Daemons
    PROVE  ~Starting(d)
<1> SUFFICES ASSUME Starting(d) PROVE FALSE
    OBVIOUS
<1>1. PICK b \in Clients : child[b] = d /\ pc[b] \in {"handoff", "poll", "polling"}
    BY DEF Succession, Parented
<1>2. Holding(b)
    BY <1>1 DEF Holding
<1> QED  BY <1>1, <1>2 DEF IInv, LockInv, LockDiscipline

\* Opening a socket: the daemon is the only one there.
LEMMA ListenSuccession ==
    ASSUME IInv, Succession, NEW d \in Daemons,
           ListenRO(d) \/ ListenRW(d) \/ ListenManagement(d)
    PROVE  Succession'
<1>1. TypeOK
    BY DEF IInv, LockInv
<1>2. /\ phase[d] \in {"keyed", "ro", "rw"}
      /\ UNCHANGED <<pc, op, conn, child, link>>
      /\ \A e \in Daemons \ {d} : phase'[e] = phase[e]
    BY <1>1 DEF ListenRO, ListenRW, ListenManagement, Listen, Dies, clientVars, TypeOK
<1>3. PICK p \in Clients : lock = p /\ child[p] = d /\ pc[p] \in {"poll", "polling"}
    BY <1>2, OneStarter
<1>4. \A e \in Daemons \ {d} : ~Starting(e) /\ ~Serving(e) /\ ~Starting(e)' /\ ~Serving(e)'
    BY <1>2, OneStarter DEF Starting, Serving
<1>5. CASE phase'[d] = "dead"
    <2>1. path' = path
        BY <1>1, <1>2, <1>5 DEF ListenRO, ListenRW, ListenManagement, Listen, TypeOK
    <2>2. ASSUME NEW k \in Conns, link'[k].open, link'[k].srv = "gone", link'[k].reply = "none",
                 NEW e \in Daemons, link'[k].to = e
          PROVE  ~Serving(e)'
        BY <1>4, <1>5 DEF Serving, OpenPhases
    <2>3. {} \in SUBSET Clients
        OBVIOUS
    <2> QED  BY <1>2, <1>5, <2>1, <2>2, <2>3, SuccessionKept
<1>6. CASE phase'[d] # "dead"
    <2>1. \/ phase[d] = "keyed" /\ phase'[d] = "ro" /\ path' = [path EXCEPT !["ro"] = d]
          \/ phase[d] = "ro" /\ phase'[d] = "rw" /\ path' = [path EXCEPT !["rw"] = d]
          \/ phase[d] = "rw" /\ phase'[d] = "serving" /\ path' = [path EXCEPT !["management"] = d]
        BY <1>1, <1>6 DEF ListenRO, ListenRW, ListenManagement, Listen, Dies, TypeOK
    <2>2. ASSUME NEW e \in Daemons PROVE Parented(e)' /\ Named(e)' /\ Ingress(e)'
        <3>1. CASE e = d
            <4>1. Parented(e)'
                BY <1>2, <1>3, <3>1 DEF Parented
            <4>2. Named(e)'
                BY <1>1, <2>1, <3>1 DEF Named, Serving, OpenPhases, TypeOK, Sockets
            <4>3. Ingress(e)'
                BY <1>1, <2>1, <3>1 DEF Succession, Ingress, OpenPhases, TypeOK, Sockets
            <4> QED  BY <4>1, <4>2, <4>3
        <3>2. CASE e # d
            BY <1>4, <3>2 DEF Parented, Named, Ingress, Starting, Serving
        <3> QED  BY <3>1, <3>2
    <2>3. ASSUME NEW c \in Clients PROVE Succeeds(c)'
        <3>1. CASE c = p
            BY <1>2, <1>3, <1>4, <3>1 DEF Succession, Succeeds
        <3>2. CASE c # p
            <4>1. ~Holding(c)
                BY <1>3, <3>2 DEF IInv, LockInv, LockDiscipline
            <4> QED  BY <1>2, <4>1 DEF Succeeds, Holding
        <3> QED  BY <3>1, <3>2
    <2>4. ASSUME NEW k \in Conns PROVE Reached(k)'
        <3>1. link[k].to # d
            BY <1>2 DEF Succession, Reached, Starting
        <3> QED  BY <1>2, <1>4, <3>1 DEF Reached
    <2> QED  BY <2>2, <2>3, <2>4 DEF Succession
<1> QED  BY <1>5, <1>6

\* Closing the ingress sockets and dying.
LEMMA DeathSuccession ==
    ASSUME IInv, Succession, NEW d \in Daemons, Dies(d), link' = Hangup(d), UNCHANGED path,
           \/ UNCHANGED clientVars
           \/ \E c \in Clients : child[c] = d /\ pc[c] = "poll" /\ Go(c, "idle") /\ UNCHANGED conn
    PROVE  Succession'
<1>1. TypeOK
    BY DEF IInv, LockInv
<1>2. phase'[d] = "dead" /\ \A e \in Daemons \ {d} : phase'[e] = phase[e]
    BY <1>1 DEF Dies, TypeOK
<1>3. \A k \in Conns : link'[k].to \in {link[k].to, None}
    <2>1. \A l \in Link : [l EXCEPT !.srv = "gone"].to = l.to
        BY DEF Link
    <2>2. FreeLink.to = None
        BY DEF FreeLink
    <2> QED  BY <1>1, <2>1, <2>2, HangupWhole DEF TypeOK
<1>4. ASSUME NEW k \in Conns, link'[k].open, link'[k].srv = "gone", link'[k].reply = "none",
             NEW e \in Daemons, link'[k].to = e
      PROVE  ~Serving(e)'
    <2>1. CASE e = d
        BY <1>2, <2>1 DEF Serving, OpenPhases
    <2>2. CASE e # d
        <3>1. link'[k] = link[k]
            BY <1>1, <1>4, <2>2, HangupFacts
        <3> QED  BY <1>2, <1>4, <2>2, <3>1 DEF Succession, Reached, Serving
    <2> QED  BY <2>1, <2>2
<1>5. \A e \in Clients : HasConn(e) => link'[conn[e]].to = link[conn[e]].to
    BY <1>1, HangupFacts DEF IInv, Own
<1>6. CASE UNCHANGED clientVars
    <2>1. {} \in SUBSET Clients
        OBVIOUS
    <2> QED  BY <1>2, <1>3, <1>4, <1>5, <1>6, <2>1, SuccessionKept DEF clientVars
<1>7. ASSUME NEW c \in Clients, child[c] = d, pc[c] = "poll", Go(c, "idle"), UNCHANGED conn
      PROVE  Succession'
    <2>1. pc'[c] = "idle" /\ OthersStay(c)
        BY <1>1, <1>7, GoFacts
    <2>2. Succeeds(c)' /\ ~Starting(d)'
        BY <1>2, <2>1 DEF Succeeds, Starting
    <2>3. {c} \in SUBSET Clients
        OBVIOUS
    <2>4. \A e \in Clients \ {c} :
            /\ pc'[e] = pc[e] /\ op'[e] = op[e] /\ child'[e] = child[e]
            /\ conn'[e] = conn[e]
            /\ HasConn(e) => link'[conn[e]].to = link[conn[e]].to
        BY <1>5, <1>7, <2>1 DEF OthersStay
    <2>5. \A b \in {c} :
            /\ Succeeds(b)'
            /\ pc[b] \in {"handoff", "poll", "polling"} =>
                   \/ pc'[b] \in {"handoff", "poll", "polling"} /\ child'[b] = child[b]
                   \/ \A e \in Daemons : child[b] = e => ~Starting(e)'
        BY <1>7, <2>2
    <2>6. /\ \A e \in Daemons : phase'[e] = phase[e]
                                \/ phase'[e] \in {"dead", "closing", "closeRW", "exit"}
          /\ \A s \in {"ro", "rw"} : path'[s] \in {path[s], None}
          /\ path'["management"] = path["management"]
        BY <1>2
    <2>7. \A k \in Conns : link'[k].open /\ link'[k].srv = "gone" /\ link'[k].reply = "none" =>
               \A e \in Daemons : link'[k].to = e => ~Serving(e)'
        BY <1>4
    <2> QED  BY <1>3, <2>3, <2>4, <2>5, <2>6, <2>7, SuccessionKept
<1> QED  BY <1>6, <1>7

\* Failing to accept and closing an ingress socket: whoever's file is removed
\* may not be there.
LEMMA ShutSuccession ==
    ASSUME IInv, Succession, NEW d \in Daemons, ShutRO(d) \/ ShutRW(d) \/ AcceptFails(d)
    PROVE  Succession'
<1>1. TypeOK
    BY DEF IInv, LockInv
<1>2. /\ UNCHANGED <<pc, op, conn, child, link>>
      /\ \/ phase'[d] \in {"closeRW", "exit"}
         \/ phase[d] \in OpenPhases /\ phase'[d] \in OpenPhases
      /\ \A e \in Daemons \ {d} : phase'[e] = phase[e]
      /\ \A s \in {"ro", "rw"} : path'[s] \in {path[s], None}
      /\ path'["management"] = path["management"]
    BY <1>1 DEF ShutRO, ShutRW, Shut, AcceptFails, clientVars, TypeOK, Sockets, OpenPhases
<1>3. \A e \in Daemons : Serving(e)' => Serving(e)
    BY <1>2 DEF Serving, OpenPhases
<1>4. \A k \in Conns : link'[k].open /\ link'[k].srv = "gone" /\ link'[k].reply = "none" =>
           \A e \in Daemons : link'[k].to = e => ~Serving(e)'
    BY <1>2, <1>3 DEF Succession, Reached
<1>5. {} \in SUBSET Clients
    OBVIOUS
<1> QED  BY <1>2, <1>4, <1>5, SuccessionKept

\* Closing the management listener: it is the daemon's own, which does not serve
\* any more.
LEMMA ClosesSuccession ==
    ASSUME IInv, Succession, NEW d \in Daemons, Closes(d)
    PROVE  Succession'
<1>1. TypeOK
    BY DEF IInv, LockInv
<1>2. /\ UNCHANGED <<pc, op, conn, child>>
      /\ phase[d] \in OpenPhases /\ phase'[d] \in {"closing", "closeRW", "exit"}
      /\ \A e \in Daemons \ {d} : phase'[e] = phase[e]
      /\ path' = [path EXCEPT !["management"] = None]
    BY <1>1, ClosesFacts DEF clientVars, CloseManagement
<1>3. \A e \in Daemons : ~Serving(e)'
    BY <1>2 DEF Succession, Named, Serving, OpenPhases
<1>4. \A s \in {"ro", "rw"} : path'[s] \in {path[s], None}
    BY <1>1, <1>2 DEF TypeOK, Sockets
<1>5. \A j \in Conns : link'[j].to \in {link[j].to, None}
    BY <1>1, ClosesEnds
<1>6. \A e \in Clients : HasConn(e) => link'[conn[e]].to = link[conn[e]].to
    BY <1>1, ClosesEnds DEF IInv, Own
<1>7. {} \in SUBSET Clients
    OBVIOUS
<1> QED  BY <1>2, <1>3, <1>4, <1>5, <1>6, <1>7, SuccessionKept

\* The handlers' other steps.
LEMMA HandlerSuccession ==
    ASSUME IInv, Requests, Succession, NEW d \in Daemons, NEW k \in Conns, HandlerStep(d, k)
    PROVE  Succession'
<1>1. CASE Closes(d)
    BY <1>1, ClosesSuccession
<1>2. CASE ~Closes(d)
    <2>1. UNCHANGED <<pc, op, conn, child, phase, path>>
        BY <1>2 DEF HandlerStep, Accept, Handle, Detach, CloseListener, CloseConn, Closes,
                    clientVars, daemonVars
    <2>2. \A j \in Conns : link'[j].to \in {link[j].to, None}
        BY HandlerEnds
    <2>3. ASSUME NEW j \in Conns, link'[j].open, link'[j].srv = "gone", link'[j].reply = "none",
                 NEW e \in Daemons, link'[j].to = e
          PROVE  ~Serving(e)'
        <3>1. link[j].open /\ link[j].to = e
            BY <2>3, HandlerEnds
        <3>2. CASE link[j].srv = "gone" /\ link[j].reply = "none"
            BY <2>1, <3>1, <3>2 DEF Succession, Reached, Serving
        <3>3. CASE link[j].to = d /\ phase'[d] \in {"closing", "closeRW", "exit"}
            BY <3>1, <3>3 DEF Serving, OpenPhases
        <3> QED  BY <2>3, <3>2, <3>3, HandlerEnds
    <2>4. \A e \in Clients : HasConn(e) => link'[conn[e]].to = link[conn[e]].to
        BY HandlerEnds DEF IInv, Own
    <2>5. {} \in SUBSET Clients
        OBVIOUS
    <2> QED  BY <2>1, <2>2, <2>3, <2>4, <2>5, SuccessionKept
<1> QED  BY <1>1, <1>2

\* A client that moves on, and perhaps closes its connection, while no daemon
\* does anything.
LEMMA MoveSuccession ==
    ASSUME IInv, Succession, NEW c \in Clients, OthersStay(c), UNCHANGED phase,
           Drop(c) \/ UNCHANGED <<conn, link>>,
           \/ UNCHANGED path
           \/ (\A s \in Sockets : path'[s] = None) /\ \A d \in Daemons : ~Serving(d),
           Succeeds(c)',
           pc[c] \in {"handoff", "poll", "polling"} =>
               \/ pc'[c] \in {"handoff", "poll", "polling"} /\ child'[c] = child[c]
               \/ \A d \in Daemons : child[c] = d => ~Starting(d)
    PROVE  Succession'
<1>1. TypeOK
    BY DEF IInv, LockInv
<1>2. ASSUME NEW j \in Conns
      PROVE  /\ link'[j].to \in {link[j].to, None}
             /\ link'[j].open => link'[j] = link[j]
             /\ j # conn[c] => link'[j] = link[j]
    <2>1. CASE UNCHANGED <<conn, link>>
        BY <2>1
    <2>2. CASE Drop(c)
        <3>1. [link[j] EXCEPT !.open = FALSE].to = link[j].to
            BY <1>1 DEF TypeOK, Link
        <3>2. FreeLink.to = None
            BY DEF FreeLink
        <3>3. link'[j].to \in {link[j].to, None}
            BY <1>1, <2>2, <3>1, <3>2, DropWhole
        <3> QED  BY <1>1, <2>2, <3>3, DropFacts
    <2> QED  BY <2>1, <2>2
<1>3. \A e \in Clients \ {c} :
        /\ pc'[e] = pc[e] /\ op'[e] = op[e] /\ child'[e] = child[e]
        /\ conn'[e] = conn[e]
        /\ HasConn(e) => link'[conn[e]].to = link[conn[e]].to
    <2>1. ASSUME NEW e \in Clients \ {c}, HasConn(e) PROVE link'[conn[e]].to = link[conn[e]].to
        BY <1>2, <2>1, OwnDistinct DEF IInv, Own
    <2>2. \A e \in Clients \ {c} : conn'[e] = conn[e]
        BY <1>1 DEF Drop, TypeOK
    <2> QED  BY <2>1, <2>2 DEF OthersStay
<1>4. \A b \in {c} :
        /\ Succeeds(b)'
        /\ pc[b] \in {"handoff", "poll", "polling"} =>
               \/ pc'[b] \in {"handoff", "poll", "polling"} /\ child'[b] = child[b]
               \/ \A e \in Daemons : child[b] = e => ~Starting(e)'
    BY DEF Starting
<1>5. \A j \in Conns : link'[j].open /\ link'[j].srv = "gone" /\ link'[j].reply = "none" =>
           \A e \in Daemons : link'[j].to = e => ~Serving(e)'
    BY <1>2 DEF Succession, Reached, Serving
<1>6. {c} \in SUBSET Clients
    OBVIOUS
<1>7. /\ \A s \in {"ro", "rw"} : path'[s] \in {path[s], None}
      /\ path'["management"] = path["management"] \/ \A d \in Daemons : ~Serving(d)'
    BY DEF Sockets, Serving
<1> QED  BY <1>2, <1>3, <1>4, <1>5, <1>6, <1>7, SuccessionKept

\* A probe's outcome: who goes on to remove the sockets has found nobody that
\* serves, and who stops polling has an answer of its child.
LEMMA SettleSuccession ==
    ASSUME IInv, Succession, NEW c \in Clients, NEW r, Settle(c, r), pc[c] # "handoff",
           Settled(c, r) = "remove" => \A d \in Daemons : ~Serving(d),
           pc[c] = "poll" => r \notin {"ok", "mismatch"}
    PROVE  Succession'
<1> DEFINE s == Settled(c, r)
<1>1. TypeOK
    BY DEF IInv, LockInv
<1>2. /\ pc'[c] = s /\ OthersStay(c)
      /\ s = "poll" => child'[c] = child[c]
    BY <1>1, GoFacts DEF Settle, Go, TypeOK
<1>3. s \in {"idle", "attach", "attached", "poll", "drain", "remove"}
    BY SettledStates
<1>4. s = "poll" => pc[c] \in {"poll", "polling"}
    BY DEF Settled
<1>5. pc[c] \in {"poll", "polling"} /\ s # "poll" => r \in {"ok", "mismatch"}
    BY DEF Settled
<1> HIDE DEF s
<1>6. UNCHANGED <<phase, path>> /\ (Drop(c) \/ UNCHANGED <<conn, link>>)
    BY DEF Settle, daemonVars
<1>7. Succeeds(c)'
    <2>1. CASE s = "poll"
        BY <1>2, <1>4, <1>6, <2>1 DEF Succession, Succeeds, Serving
    <2>2. CASE s = "remove"
        BY <1>2, <1>6, <2>2 DEF Succeeds, Serving, s
    <2>3. CASE s \notin {"poll", "remove"}
        BY <1>2, <1>3, <2>3 DEF Succeeds
    <2> QED  BY <2>1, <2>2, <2>3
<1>8. pc[c] \in {"handoff", "poll", "polling"} =>
          \/ pc'[c] \in {"handoff", "poll", "polling"} /\ child'[c] = child[c]
          \/ \A d \in Daemons : child[c] = d => ~Starting(d)
    <2>1. CASE pc[c] \in {"poll", "polling"} /\ s = "poll"
        BY <1>2, <2>1
    <2>2. CASE pc[c] \in {"poll", "polling"} /\ s # "poll"
        <3>1. pc[c] = "polling"
            BY <1>5, <2>2
        <3>2. conn[c] \in Conns /\ link[conn[c]].to = child[c]
            BY <3>1 DEF IInv, Own, HasConn, Succession, Succeeds
        <3> QED  BY <3>2 DEF Succession, Reached
    <2> QED  BY <2>1, <2>2
<1> QED  BY <1>2, <1>6, <1>7, <1>8, MoveSuccession

\* Connecting: the one daemon that serves is the one behind the socket.
LEMMA DialSuccession ==
    ASSUME IInv, Succession, NEW c \in Clients, Dial(c)
    PROVE  Succession'
<1> DEFINE d == path["management"]
<1>1. TypeOK
    BY DEF IInv, LockInv
<1>2. PICK k \in Conns :
        /\ FreeConn(k)
        /\ conn' = [conn EXCEPT ![c] = k]
        /\ link' = [link EXCEPT ![k] = [srv |-> "queued", open |-> TRUE, from |-> c,
                                        to |-> d, version |-> bin[c],
                                        verb |-> Verb(c), reply |-> "none"]]
    BY DEF Dial
<1>3. /\ pc[c] \in {"probe", "poll", "attach"} /\ pc' = [pc EXCEPT ![c] = Awaiting(pc[c])]
      /\ UNCHANGED <<path, op, child, phase>>
      /\ d \in Daemons /\ Serving(d)
    BY <1>1 DEF Dial, daemonVars, Listening, Serving, TypeOK, Sockets
<1>4. /\ link'[k].srv = "queued" /\ link'[k].to = d
      /\ \A j \in Conns \ {k} : link'[j] = link[j]
      /\ conn'[c] = k /\ \A e \in Clients \ {c} : conn'[e] = conn[e] /\ pc'[e] = pc[e]
      /\ pc'[c] = Awaiting(pc[c])
    BY <1>1, <1>2, <1>3 DEF TypeOK
<1>5. \A e \in Daemons : Serving(e) => e = d
    BY DEF Succession, Named
<1> HIDE DEF d
<1>6. ASSUME NEW e \in Daemons PROVE Parented(e)' /\ Named(e)' /\ Ingress(e)'
    <2>1. Parented(e)'
        <3> SUFFICES ASSUME Starting(e)
                     PROVE  \E b \in Clients : child'[b] = e /\ pc'[b] \in {"handoff", "poll", "polling"}
            BY <1>3 DEF Parented, Starting
        <3>1. PICK b \in Clients : child[b] = e /\ pc[b] \in {"handoff", "poll", "polling"}
            BY DEF Succession, Parented
        <3> QED  BY <1>3, <1>4, <3>1 DEF Awaiting
    <2> QED  BY <1>3, <2>1 DEF Succession, Named, Ingress, Serving
<1>7. ASSUME NEW b \in Clients PROVE Succeeds(b)'
    <2>1. CASE b = c
        <3>1. CASE pc[c] = "poll"
            <4>1. child[c] = d
                BY <1>3, <3>1 DEF Succession, Succeeds
            <4> QED  BY <1>3, <1>4, <1>5, <2>1, <3>1, <4>1 DEF Succeeds, Awaiting, Serving
        <3>2. CASE pc[c] # "poll"
            BY <1>3, <1>4, <1>5, <2>1, <3>2 DEF Succeeds, Awaiting, Serving
        <3> QED  BY <3>1, <3>2
    <2>2. CASE b # c
        <3>1. pc[b] \in {"polling", "probing"} => link'[conn'[b]] = link[conn[b]]
            BY <1>2, <1>4, <2>2 DEF IInv, Own, HasConn, FreeConn
        <3> QED  BY <1>3, <1>4, <2>2, <3>1 DEF Succession, Succeeds, Serving
    <2> QED  BY <2>1, <2>2
<1>8. ASSUME NEW j \in Conns PROVE Reached(j)'
    <2>1. CASE j = k
        BY <1>3, <1>4, <2>1 DEF Reached, Starting, Serving, OpenPhases
    <2>2. CASE j # k
        BY <1>3, <1>4, <2>2 DEF Succession, Reached, Starting, Serving
    <2> QED  BY <2>1, <2>2
<1> QED  BY <1>6, <1>7, <1>8 DEF Succession

\* A new daemon: nobody serves, and nobody else has a child.
LEMMA SpawnSuccession ==
    ASSUME IInv, Succession, NEW c \in Clients, Spawn(c)
    PROVE  Succession'
<1>1. TypeOK
    BY DEF IInv, LockInv
<1>2. PICK d \in Daemons : /\ FreeDaemon(d)
                          /\ phase' = [phase EXCEPT ![d] = "boot"]
                          /\ child' = [child EXCEPT ![c] = d]
    BY DEF Spawn
<1>3. /\ pc[c] = "spawn" /\ pc' = [pc EXCEPT ![c] = "handoff"]
      /\ UNCHANGED <<op, conn, path, link>>
    BY DEF Spawn
<1>4. \A e \in Daemons : ~Serving(e)
    BY <1>3 DEF Succession, Succeeds
<1>5. \A e \in Daemons : ~Serving(e)' /\ (e # d => phase'[e] = phase[e])
    BY <1>1, <1>2, <1>4 DEF Serving, OpenPhases, TypeOK
<1>6. /\ pc'[c] = "handoff" /\ child'[c] = d /\ phase'[d] = "boot"
      /\ \A b \in Clients \ {c} : pc'[b] = pc[b] /\ child'[b] = child[b]
    BY <1>1, <1>2, <1>3 DEF TypeOK
<1>7. ASSUME NEW e \in Daemons PROVE Parented(e)' /\ Named(e)' /\ Ingress(e)'
    <2>1. CASE e = d
        <3>1. Parented(e)'
            BY <1>6, <2>1 DEF Parented
        <3> QED  BY <1>6, <2>1, <3>1 DEF Named, Ingress, Serving, OpenPhases
    <2>2. CASE e # d
        <3>1. Parented(e)'
            <4> SUFFICES ASSUME Starting(e)
                         PROVE  \E b \in Clients : child'[b] = e /\ pc'[b] \in {"handoff", "poll", "polling"}
                BY <1>5, <2>2 DEF Parented, Starting
            <4>1. PICK b \in Clients : child[b] = e /\ pc[b] \in {"handoff", "poll", "polling"}
                BY DEF Succession, Parented
            <4> QED  BY <1>3, <1>6, <4>1
        <3>2. Ingress(e)'
            BY <1>3, <1>5, <2>2 DEF Succession, Ingress
        <3> QED  BY <1>5, <3>1, <3>2 DEF Named
    <2> QED  BY <2>1, <2>2
<1>8. ASSUME NEW b \in Clients PROVE Succeeds(b)'
    <2>1. CASE b = c
        BY <1>5, <1>6, <2>1 DEF Succeeds
    <2>2. CASE b # c
        BY <1>3, <1>5, <1>6, <2>2 DEF Succession, Succeeds
    <2> QED  BY <2>1, <2>2
<1>9. ASSUME NEW k \in Conns PROVE Reached(k)'
    <2>1. link[k].to # d
        BY <1>2 DEF FreeDaemon
    <2> QED  BY <1>3, <1>5, <2>1 DEF Succession, Reached, Starting
<1> QED  BY <1>7, <1>8, <1>9 DEF Succession

\* The hand-off: the child starts to listen, its parent to poll.
LEMMA HandOffSuccession ==
    ASSUME IInv, Succession, NEW c \in Clients, HandOff(c)
    PROVE  Succession'
<1> DEFINE d == child[c]
<1>1. TypeOK
    BY DEF IInv, LockInv
<1>2. /\ pc[c] = "handoff" /\ pc' = [pc EXCEPT ![c] = "poll"]
      /\ phase' = [phase EXCEPT ![d] = "keyed"]
      /\ UNCHANGED <<op, conn, child, path, link>>
    BY DEF HandOff
<1>3. d \in Daemons /\ phase[d] = "boot"
    BY <1>2 DEF HandOff, IInv, ChildWaits, Alive
<1>4. \A e \in Daemons : ~Serving(e)
    BY <1>2 DEF Succession, Succeeds
<1>5. /\ \A e \in Daemons : ~Serving(e)' /\ (Starting(e)' <=> Starting(e))
      /\ phase'[d] = "keyed"
      /\ \A e \in Daemons \ {d} : phase'[e] = phase[e]
    BY <1>1, <1>2, <1>3, <1>4 DEF Serving, OpenPhases, Starting, TypeOK
<1>6. pc'[c] = "poll" /\ \A b \in Clients \ {c} : pc'[b] = pc[b]
    BY <1>1, <1>2 DEF TypeOK
<1> HIDE DEF d
<1>7. ASSUME NEW e \in Daemons PROVE Parented(e)' /\ Named(e)' /\ Ingress(e)'
    <2>1. Parented(e)'
        <3> SUFFICES ASSUME Starting(e)
                     PROVE  \E b \in Clients : child'[b] = e /\ pc'[b] \in {"handoff", "poll", "polling"}
            BY <1>5 DEF Parented
        <3>1. PICK b \in Clients : child[b] = e /\ pc[b] \in {"handoff", "poll", "polling"}
            BY DEF Succession, Parented
        <3> QED  BY <1>2, <1>6, <3>1
    <2>2. Ingress(e)'
        BY <1>2, <1>5 DEF Succession, Ingress, OpenPhases
    <2> QED  BY <1>5, <2>1, <2>2 DEF Named
<1>8. ASSUME NEW b \in Clients PROVE Succeeds(b)'
    <2>1. CASE b = c
        BY <1>2, <1>3, <1>5, <1>6, <2>1 DEF Succeeds, d
    <2>2. CASE b # c
        BY <1>2, <1>5, <1>6, <2>2 DEF Succession, Succeeds
    <2> QED  BY <2>1, <2>2
<1>9. ASSUME NEW k \in Conns PROVE Reached(k)'
    BY <1>2, <1>5 DEF Succession, Reached
<1> QED  BY <1>7, <1>8, <1>9 DEF Succession

\* The steps of a client and of its user.
LEMMA ClientSuccession ==
    ASSUME Orderly, IInv, Requests, Succession, NEW c \in Clients, ClientStep(c) \/ UserStep(c)
    PROVE  Succession'
<1>1. TypeOK
    BY DEF IInv, LockInv
<1>2. CASE Lock(c) \/ \E o \in Ops, v \in Protocols : Begin(c, o, v)
    <2>1. /\ pc[c] \in {"idle", "lock"} /\ pc'[c] \in {"lock", "probe"}
          /\ OthersStay(c)
          /\ UNCHANGED <<phase, path, conn, link>>
        BY <1>1, <1>2 DEF Lock, Begin, OthersStay, daemonVars, TypeOK
    <2>2. Succeeds(c)'
        BY <2>1 DEF Succeeds
    <2> QED  BY <2>1, <2>2, MoveSuccession
<1>3. CASE RemoveSockets(c)
    <2>1. /\ pc[c] = "remove" /\ pc'[c] = "spawn"
          /\ OthersStay(c)
          /\ \A s \in Sockets : path'[s] = None
          /\ UNCHANGED <<phase, conn, link>>
        BY <1>1, <1>3 DEF RemoveSockets, OthersStay, daemonVars, TypeOK
    <2>2. \A d \in Daemons : ~Serving(d)
        BY <2>1 DEF Succession, Succeeds
    <2>3. Succeeds(c)'
        BY <2>1, <2>2 DEF Succeeds, Serving
    <2> QED  BY <2>1, <2>2, <2>3, MoveSuccession
<1>4. CASE DialFails(c)
    <2>1. PICK r \in {"absent", "down"} : Settle(c, r)
        BY <1>4 DEF DialFails
    <2>2. \A d \in Daemons : ~Serving(d)
        BY <1>4, ConstantsAssumption DEF DialFails, Listening, Succession, Named, Serving
    <2>3. pc[c] # "handoff"
        BY <1>4 DEF DialFails
    <2> QED  BY <2>1, <2>2, <2>3, SettleSuccession
<1>5. CASE GetReply(c) \/ ConnReset(c)
    <2> DEFINE k == conn[c]
               r == IF GetReply(c) THEN link[k].reply ELSE "down"
    <2>1. Settle(c, r) /\ Waiting(c) /\ k \in Conns /\ link[k].open
        BY <1>5 DEF GetReply, ConnReset, Waiting, IInv, Own, HasConn
    <2>2. ASSUME Settled(c, r) = "remove", NEW d \in Daemons, Serving(d) PROVE FALSE
        <3>1. pc[c] = "probing" /\ MayStart(op[c]) /\ r \notin {"ok", "mismatch"}
            <4> HIDE DEF r
            <4> QED  BY <2>1, <2>2 DEF Settled, Waiting
        <3>2. CASE GetReply(c)
            <4>1. link[k].reply = "refused"
                BY <1>1, <2>1, <3>1, <3>2 DEF GetReply, TypeOK, Link, Replies
            <4>2. link[k].verb = "stop"
                BY <2>1, <4>1 DEF Requests, Told
            <4>3. op[c] = "stop"
                BY <2>1, <4>2 DEF Requests, StopAsked, StopVerbs, HasConn, Waiting
            <4> QED  BY <3>1, <4>3 DEF MayStart
        <3>3. CASE ConnReset(c)
            <4>1. link[k].to = d
                BY <2>2, <3>1 DEF Succession, Succeeds, MayStart
            <4> QED  BY <2>1, <2>2, <3>3, <4>1 DEF Succession, Reached, ConnReset
        <3> QED  BY <1>5, <3>2, <3>3
    <2> HIDE DEF r
    <2> QED  BY <2>1, <2>2, SettleSuccession DEF Waiting
<1>6. CASE TokenFails(c) \/ SpawnFails(c) \/ HandOffFails(c) \/ AwaitEOF(c)
           \/ EndSession(c) \/ SessionLost(c)
    <2>1. Fail(c) /\ UNCHANGED daemonVars
        BY <1>6 DEF TokenFails, SpawnFails, HandOffFails, AwaitEOF, EndSession, SessionLost
    <2>2. Drop(c) /\ pc'[c] = "idle" /\ OthersStay(c) /\ UNCHANGED <<phase, path>>
        BY <1>1, <2>1, GoFacts DEF Fail, daemonVars
    <2>3. Succeeds(c)'
        BY <2>2 DEF Succeeds
    <2>4. pc[c] \in {"handoff", "poll", "polling"} => pc[c] = "handoff" /\ ~Alive(child[c])
        BY <1>6 DEF TokenFails, SpawnFails, HandOffFails, AwaitEOF, EndSession, SessionLost
    <2>5. pc[c] \in {"handoff", "poll", "polling"} => \A d \in Daemons : child[c] = d => ~Starting(d)
        BY <2>4 DEF Alive, Starting
    <2> QED  BY <2>2, <2>3, <2>5, MoveSuccession
<1>7. CASE PollDeadline(c)
    <2>1. pc[c] = "poll" /\ child[c] \in Daemons
        BY <1>7 DEF PollDeadline, Succession, Succeeds
    <2> QED  BY <1>7, <2>1, DeathSuccession DEF PollDeadline
<1>8. ~(ProbeTimeout(c) \/ StopTimeout(c) \/ Kill(c))
    BY DEF Orderly, ProbeTimeout, StopTimeout, Kill
<1> QED  BY <1>2, <1>3, <1>4, <1>5, <1>6, <1>7, <1>8, DialSuccession, SpawnSuccession,
            HandOffSuccession DEF ClientStep, UserStep

LEMMA InitSuccession == Init => Succession
BY ConstantsAssumption DEF Init, FreeLink, Succession, Parented, Named, Ingress, Succeeds, Reached,
                           Starting, Serving, OpenPhases

LEMMA NextSuccession ==
    ASSUME Orderly, IInv, Requests, Succession, [Next]_vars
    PROVE  Succession'
<1>1. CASE UNCHANGED vars
    BY <1>1 DEF vars, clientVars, daemonVars, Succession, Parented, Named, Ingress, Succeeds, Reached,
                Starting, Serving
<1>2. ASSUME NEW d \in Daemons, DaemonStep(d) \/ Crash(d) \/ AcceptFails(d) PROVE Succession'
    <2>1. CASE Exit(d) \/ Crash(d)
        BY <2>1, DeathSuccession DEF Exit, Crash
    <2>2. CASE ShutManagement(d)
        <3>1. Closes(d)
            BY <2>2 DEF ShutManagement, Closes, OpenPhases
        <3> QED  BY <3>1, ClosesSuccession
    <2> QED  BY <1>2, <2>1, <2>2, ListenSuccession, ShutSuccession DEF DaemonStep
<1> QED  BY <1>1, <1>2, ClientSuccession, HandlerSuccession DEF Next

\* Without kills and deadlines, however daemons crash: never two of them.
OneDaemon ==
    \A d, e \in Daemons : (Starting(d) \/ Serving(d)) /\ (Starting(e) \/ Serving(e)) => d = e

LEMMA OnlyDaemon == IInv /\ Succession => OneDaemon
<1> SUFFICES ASSUME IInv, Succession, NEW d \in Daemons, NEW e \in Daemons,
                    Starting(d) \/ Serving(d), Starting(e) \/ Serving(e)
             PROVE  d = e
    BY DEF OneDaemon
<1>1. ASSUME NEW a \in Daemons, NEW b \in Daemons, Starting(a), Starting(b) \/ Serving(b)
      PROVE  a = b
    <2>1. PICK p \in Clients : child[p] = a /\ pc[p] \in {"handoff", "poll", "polling"}
        BY <1>1 DEF Succession, Parented
    <2>2. lock = p
        BY <2>1 DEF IInv, LockInv, LockDiscipline, Holding
    <2>3. CASE Starting(b)
        <3>1. PICK q \in Clients : child[q] = b /\ pc[q] \in {"handoff", "poll", "polling"}
            BY <2>3 DEF Succession, Parented
        <3>2. lock = q
            BY <3>1 DEF IInv, LockInv, LockDiscipline, Holding
        <3> QED  BY <2>1, <2>2, <3>1, <3>2
    <2>4. CASE Serving(b)
        BY <2>1, <2>4 DEF Succession, Succeeds
    <2> QED  BY <1>1, <2>3, <2>4
<1>2. CASE Serving(d) /\ Serving(e)
    BY <1>2 DEF Succession, Named
<1> QED  BY <1>1, <1>2

\* supervisor.go:111: where no process is killed and no deadline passes, no
\* other daemon holds the ingress sockets a session relays to while the
\* session's own daemon serves.
THEOREM NoTakeover ==
    ASSUME Faults \cap {"kill", "timeout"} = {}
    PROVE  Spec => []NoSilentTakeover
<1> DEFINE J == IInv /\ Requests /\ Succession
<1>1. Init => J
    BY InitIInv, InitRequests, InitSuccession
<1>2. J /\ [Next]_vars => J'
    BY NextIInv, NextRequests, NextSuccession DEF Orderly
<1>3. J => NoSilentTakeover
    <2> SUFFICES ASSUME IInv, Succession, NEW c \in Clients, pc[c] = "attached",
                        Listening(link[conn[c]].to), NEW s \in {"ro", "rw"}
                 PROVE  path[s] \in {link[conn[c]].to, None}
        BY DEF NoSilentTakeover
    <2>1. conn[c] \in Conns /\ link[conn[c]] \in Link
        BY DEF IInv, LockInv, TypeOK, Own, HasConn
    <2>2. link[conn[c]].to \in Daemons /\ Serving(link[conn[c]].to)
        BY <2>1 DEF Link, Listening, Serving
    <2> QED  BY <2>2 DEF Succession, Ingress, Serving
<1> QED  BY <1>1, <1>2, <1>3, PTL DEF Spec

\* instance.go:160, 200-218: the lock held until the attachment is established
\* and the probe before the start let no second daemon of the instance start
\* while one starts or serves.
THEOREM OneDaemonOnly ==
    ASSUME Faults \cap {"kill", "timeout"} = {}
    PROVE  Spec => []OneDaemon
<1> DEFINE J == IInv /\ Requests /\ Succession
<1>1. Init => J
    BY InitIInv, InitRequests, InitSuccession
<1>2. J /\ [Next]_vars => J'
    BY NextIInv, NextRequests, NextSuccession DEF Orderly
<1>3. J => OneDaemon
    BY OnlyDaemon
<1> QED  BY <1>1, <1>2, <1>3, PTL DEF Spec

=============================================================================
