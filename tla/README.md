# pi-square, specified

TLA+ modules, TLC configurations and TLAPS proofs for
[pi-square](../src/README.md): a wrapper that runs the coding agent pi in a
sandbox and routes every shell command through a gateway which holds the GitHub
credential. References like `instance.go:187` are to files of the repository.

## The system and its parts

| part | state | operations | talks to |
|---|---|---|---|
| gateway instance (`instance.go`, `cli.go`) | flock, three socket files, the daemon's phase, its count of attachments, the management connections | attach, start, stop (`--force`), list; the daemon's listen, accept, handle, exit | clients over `control.sock`; sessions over `ro.sock` and `w.sock` |
| session launcher (`main.go`) | the attachment, a sandbox root, an FFF slot (one of eight flocks of a project) | `run`, `claimFFF` | instance, stage; other sessions of the project over the slots |
| supervisor (`supervisor.go`) and stub (`stub.go`) | workers, control socket, job table, one handler per request | start, launch a command, cancel, shut down | pi and its stubs over the control socket; instance through the attachment |
| permission extension (`permission-profile.ts`) | current profile, launch profile, stored entries, open dialogs | switch, toggle, session start, tool calls, dialogs | pi's event loop; routes commands to the stub |
| stage and command stage (`supervisor.go`, `sandbox.go`) | mounts, namespaces, capabilities | read the secrets, set up and exec | launcher; kernel |
| namespace worker (`netns.go`) | a listener, relays | relay a connection | command; gateway ingress |
| ingress and passthrough (`gateway.go`) | per connection: a buffered reader, two copying goroutines, deadlines | CONNECT, resolve, dial, copy | relay; any public host |
| git tunnel (`gitsmart.go`) | per connection: request loop, body wrapper, disconnect watcher | classify, authorize, forward | git; github.com |
| API tunnel (`gateway.go`), policy (`policy.go`, `graphql.go`) | per connection: request loop | authorize REST and GraphQL, forward | command; api.github.com |
| certificates (`tls.go`, `gateway.go`) | CA, one leaf per host under a mutex | renew | TLS handshakes |
| configuration (`config.go`) | none after start | parse, marshal, compare profiles, `commandPolicy` | launcher, stage, supervisor, extension |
| credentials and environment (`auth.go`, `consts.go`) | none | call gh, filter | launcher |

What makes them hard: commands of several processes on one instance and the
files they share; processes killed between any two steps; a two-second deadline
on every probe; a request that outlives its client; goroutines that shut down
in parallel; dialogs answered after the world has changed; three goroutines
that share one buffered reader; half-closed connections through two relays.
`PROJECT.json` lists these hazards at their lines.

## Modules

| module | models | used by | proofs |
|---|---|---|---|
| `Instance` | what one gateway process promises, abstractly | `GatewayInstance` implements it | `GatewayInstance_proofs` |
| `GatewayInstance` | the processes and files behind it | `MCGatewayInstance` | `GatewayInstance_proofs` |
| `Launcher` | launcher, stage, mounts and slots of a project's sessions | `MCLauncher` | `Launcher_proofs` |
| `Configuration` | profiles, from a file to a command's policy (operators) | `Supervisor`, `ProfileExtension` | `Configuration_proofs` |
| `Supervisor` | supervisor and stubs of one session | `MCSupervisor` | `Supervisor_proofs` |
| `ProfileExtension` | the extension in pi | `MCProfileExtension` | `ProfileExtension_proofs` |
| `Policy` | REST and GraphQL authorization beside what an upstream may execute (operators) | `ApiTunnel` | `ApiTunnel_proofs` |
| `ApiTunnel` | an intercepted connection to api.github.com, the leaf it is served with | `MCApiTunnel` | `ApiTunnel_proofs` |
| `GitTunnel` | an intercepted connection to github.com | `MCGitTunnel` | `GitTunnel_proofs` |
| `Passthrough` | any other connection, with the namespace relay in front | `MCPassthrough` | `Passthrough_proofs` |

Each MC module gives constants and symmetry sets to TLC and defines no
behaviour. Operators commented "Defect" are the code with a mistake in it:
nothing uses them but the mutation list in `PROJECT.json`, which puts each in
the place of the operator it varies to see that a property notices.

### GatewayInstance

`Clients` are pi-square processes (an attached one stands for its whole
session), `Daemons` and `Conns` are slots that are reused once nothing refers to
them, so behaviours do not end. `pc` follows a client through `attachInstance`,
`startInstance`, `stopInstance` and `listInstances`, whose common steps are
shared: `Dial`, `GetReply` and the failures are `probeInstance`, `Settled` is
the callers' decision by its result, `RemoveSockets` to `PollDeadline` are
`startInstanceLocked`. `phase` follows `runGatewayDaemon`, `link` holds both
ends of every management connection with the handler goroutine's position in
`srv`. Decision and answer of a handler are one action, because the code does
both under `mu`; closing the listener is another, because it does not.

A daemon leaves its accept loop in two ways. A stop handler closes the
management listener under it (`CloseListener`), or an `Accept` fails for another
reason (`AcceptFails`, as when the process has no descriptor left). Then nobody
was told to stop: `broken`, `brokenRW` and `brokenM` are the main goroutine
closing `ro`, `rw` and the management listener in that order. Until the last of
these a client still connects, and waits in a backlog that nobody takes from;
handlers at work go on, and one of a stop may close the listener first. A daemon
is `Listening` in `serving` and in all three.

Two facts of the platform matter and are in the model. Listening on a path
whose file exists fails, and closing a Go unix listener removes the file of that
name whoever made it. Signal 0 to a child that died and was not reaped succeeds,
so `startInstanceLocked` does not notice a dead child before its deadline.

### Instance

One daemon seen from outside, without sockets, locks or handlers: off, on,
broken (it accepts nobody, though its socket is there) or closing, with the
sessions it counts and the stops it accepted and has not reported. A plain stop
is accepted only without sessions, a stop is reported only after the process
takes no more requests, and it closes only because it was told to or because
accepting failed, which a constant `MayBreak` admits: where the run has no such
fault, a stop is the only reason left. `Outside(d)` is the refinement mapping:
`mode` is the daemon's phase, `sessions` the connections
its handlers count, `plain` and `forced` the stop handlers past their decision.
`Implements` says that each of `Daemons` is such an `Instance`, whatever the
clients and the faults do.

### Launcher

`pc` follows `run()` through the attachment, `claimFFF`, the temporary
directory, the stage's start, the secrets and the deferred calls in reverse;
`stage` the process it starts, up to pi. `held` is who has a descriptor of the
attachment open, since the gateway sees the session end only when all are
closed. A SIGKILL of the launcher frees what the kernel frees (flock and
descriptors) at once and the stage in a later step (`Pdeathsig`), and leaves the
directory. `Other` stands for sessions of the project that the module does not
follow and that take and return slots.

A mount namespace is a function from nine points of the file system to what is
found there. `Mount` hides what lies beneath a mount point, which depends on
where the project is: `layout` says which points are inside it and which mounts
it is beneath. `RootView` and `CommandView` are the mounts of
`setupRestrictedRoot` and `setupCommandSandbox` in the order of the code.

### Configuration

A document is what a file says: one object or not, and a sequence of entries in
which names and values may be anything. `Config` and `Marshal` are
`UnmarshalJSON` and `MarshalJSON`, `Accepted` is `parseConfiguration`, `Loads`
is `loadConfiguration`; `CommandPolicy`, `Raises` are what the supervisor and the
extension make of a profile, `Reach` the reference they are compared with.
`Supervisor` and `ProfileExtension` extend this module and take their classes
and their order of permissions from it. The profiles of the extension's run go
through `Config`, `Marshal` and `Config` again, as they do between the file and
the stage.

### Supervisor

`Reqs` are slots of requests, each a stub, a connection, a handler and a
command. The handler's steps are those of `handleControl`: `Receive`,
`PrepareHome`, `Launch`, `Add`, the select (`SelectExit`, `SelectCancel`,
`SelectClosed`), and the deferred calls (`Cleanup`). Shutdown is the body of
`stopOnce` cut where another goroutine can see the difference. `armed` is the
read deadline that `recvRequest` may leave on a connection. A profile is its
`github` and `net`, which is what `commandPolicy` looks at.

### ProfileExtension

JavaScript handlers run to their next `await`, so an action is such a stretch.
`Suggest` is `suggest` up to the dialog, `Answer` is the rest, and anything may
happen between. Sessions start with any stored entry, a name the configuration
does not have included. The text of prompts and notifications is left out.

### Policy

`Authorize` is `authorizeRequest` with everything it calls: the path is cleaned
and compared with `/graphql` first, a REST request is judged by its method, a
GraphQL request by the operation that would be executed. A path is all of the
decoded `URL.Path`, as a sequence of segments. A segment's `mark` is what was
escaped in it: it goes on with a `?` or a `#` (`%3F`, `%23`), where
`NormalizePath` ends, as the code does; or it ends with an escaped slash (`%2F`),
which is a slash in the decoded path. `forward` sends the path with its escapes
(`RawPath`), and `Readings` is what the upstream may see in it: the mark part of
a name, an escaped slash a slash or part of a name. A body is what the
parsers tell apart: its shape, each occurrence of the three keys that are read,
and a document as a sequence of operations with kinds and names. `MayExecute` is
the other side, written from the rules of GraphQL and of JSON and not from this
code: a server may take either of two duplicate keys and may execute anything
out of what it alone can read. `OnlyReads` holds a decision against it, by the
path that is sent. `QueryElsewhere` is the one thing that passes and fails it: a
POST of a query's document to a marked path that need not be GraphQL's.

### ApiTunnel

The client sends heads and pieces of bodies, in advance if it likes, and may
stop anywhere. `h` is the goroutine from the CONNECT through the handshake and
the loop of `serveTunnel`: `ReadHead`, `ReadPiece`, `Decide` (`dispatch`),
`Drain`, `client.Do` with its upload and its wait (`up`), the copying of the
response. Each deadline is an action where it can pass and nowhere else.
`keep` is `keepAlive`: what a refusal leaves unread on the connection is dropped
with it. `clock`, `now` and `leaf` are `currentLeaf`: handshakes read the
time before they wait for the mutex, `OtherHandshake` is another connection's.

### GitTunnel

The client's bytes are whole heads and pieces of bodies; `wire` is what nobody
has read. `h` is the loop of `serveGitTunnel`, `t` the transport's goroutine
that reads the body, `w` the watcher. Routes are abstracted to the result of
`classifyGitRoute`; `sane` says that the request has github.com's authority and
no Upgrade header. The transport's behaviour (it may answer early, it closes a
body by reading it to its end) is that of net/http and marked external.

The copy of a response (`resp.Write`) ends in three ways. `Copied` has the whole
of it. `CopyFails` reads an error, for which a stalled upstream's context must be
cancelled. `WriteFails` finds the client gone, which takes something to write.
An upstream may stall before its answer and within it, so nothing but the watcher
frees the tunnel then; and a watcher that has seen a pipelined request has
returned.

### Passthrough

Pieces of data go through six one-way pipes: command, relay, gateway,
destination and back. `gateway.go` and `netns.go` supply the main goroutines
(`g`, `r`) and the four copiers; sockets, the command and the destination are
external. What TCP may lose when a connection is closed with unread input is a
nondeterministic choice. The frontend may be killed at any time while it relays,
as `shutdown` of the supervisor does.

## Runs

| run | question | states |
|---|---|---|
| `instance_faults` | with kills, crashes and deadlines, is the lock held by exactly who is inside an operation, is the count exact, does it miss no session, and is every daemon an `Instance`? | 0.94 M |
| `instance_orderly` | with crashes, failed starts and two protocol versions, does a plain stop spare sessions, and does nobody take a serving daemon's sockets? | 1.4 M |
| `instance_live` | is the lock always released, does an accepted stop take effect, and is every daemon an `Instance`, though daemons crash and accept loops fail? | 74 k |
| `launcher` | has a session its project and a database of its own wherever the project lies, is a command confined to its profile, is everything returned however a session ends? | 0.18 M |
| `supervisor` | shutdown order, no lost command, no command killed without reason, cancellation and shutdown that end every command | 0.27 M |
| `extension` | no escalation by a restored session, no stale answer that switches, no grant without a profile that grants | 21 k |
| `api_tunnel` | does a read-only ingress forward reads only, but for a query's document behind a mark, are requests kept apart, is the leaf fresh, is no client waited for without a deadline? | 0.34 M |
| `git_tunnel` | one reader of the buffer, framing, disconnects that free the tunnel, denials that are sent | 0.14 M |
| `passthrough` | order, half-close, nothing stranded | 0.27 M |

Three runs expect a violation, each of a sentence of the repository.

- `instance_restart`: *a started instance has its ingress sockets*
  (`instance_test.go:112-113`). A stop is reported done when the stop handler's
  connection closes, before the main goroutine closes `ro` and `rw`. A start let
  in by that creates its files and loses them to the old daemon's `Close`; it
  answers health probes, and commands cannot reach it.
- `instance_slow`: *a replacement daemon must never silently take over this
  session's sockets* (`supervisor.go:111`). An attach whose probe times out
  replaces a live daemon; the first session's attachment stays up, so its
  frontends relay to the new daemon, whose CA that session does not trust.
- `supervisor_long`: *watchClose reports when the peer closes the control
  connection* (`supervisor.go:552`). After a request that took more than one
  read, it reports a five-second deadline too, and the command is killed.

Two properties hold with an exception that a comment of the code does not make;
without it TLC refutes them.

- `DisconnectCancels` speaks of a client that left nothing to read.
  *watchClientDisconnect cancels the upstream request if the client closes after
  its request body is consumed* (`gitsmart.go:257-258`), but it returns when it
  sees a byte (`gitsmart.go:276-278`), so a client that has pipelined its next
  request and then leaves while the response stalls is not noticed.
- `OnlyReadsUnlessMarked` has `QueryElsewhere` as its exception. *Subpaths are
  handled by the REST rules, where a POST can never inherit the read allowance*
  (`policy.go:155-156`), but a POST of a query's document whose decoded path is
  `/graphql` up to a `?` or `#` inherits it and goes to the whole path, and so
  does one that is `/graphql` only with its escaped slashes decoded, where the
  upstream does not decode them.

### Bounds

Two clients, two daemons and two or three connections are enough for every race
the properties speak of: a stop against a start or an attach, an old daemon
against a new one, a dead client's request against a live one's. A third
connection is needed where a stop, a session and a health probe meet; the faults
run has two because kills free them early. It leaves `start` out: an attachment
that finds no daemon goes through the same `startInstanceLocked`, and `start`
itself is in the orderly run; stops of both kinds are in, since `Implements`
speaks of both. `instance_live` has crashes and failed accepts only: it asks what
processes that are left alone bring to an end, and these are what they must
notice. The faults run leaves `accept` out, with which it would take too long.
`Implements` is therefore checked in `instance_live` too: what a failed accept
adds is the daemon's own shutdown against its handlers, and that needs neither
kills nor deadlines of clients. With three connections and forced stops besides
it holds as well, for any number by its proof. Protocol versions 1 and 2 stand for
"equal" and "different". Two requests show every pair of handlers, and handlers
share only the job table and shutdown. Three calls let two dialogs and a command
overlap; four profiles have each combination of wider, narrower and incomparable
that the order needs. `MaxWire` 4 leaves room for a body, a head behind it and
a body behind that. In `Launcher` two sessions, with others that come and
go, contend for two slots: a slot is refused, taken late and shared by nobody.
The five layouts are one for each way the project can lie relative to the
mounts that a later one would hide; a project in the database directory itself,
or above the instance's directory, is left out. In `ApiTunnel` a body has up to
four pieces and the limit is two, so that the limit is met, exceeded by the one
byte that is read past it, and exceeded by more that is drained; a leaf that
lives for two ticks and is renewed in its last meets every side of both
comparisons before the clock ends at three. Its requests are one for each rule
of `Policy` and one for each way of two parsers to disagree; that no other
request tells more is what `ApiTunnel_proofs` shows. Two pieces each way and two per buffer (`Up`, `Down`,
`Room`) show a full buffer, a gap and a swapped order. Symmetry is used for
interchangeable slots and in runs without liveness only.

`CHECK_DEADLOCK FALSE` is said where the system ends: a session that exited, a
connection that is closed.

### Faults

`kill` is a SIGKILL of a pi-square process, `crash` of a daemon, `timeout` lets
any deadline of `instance.go` pass at any time, `spawn` fails the creation of
the daemon's process, `accept` the accept loop of a daemon's management socket.
That of an ingress socket may fail too, alone and unnoticed (`instance.go:383`);
no property is about it, since ingress traffic begins, in these models,
with a connection that was accepted. `instance_orderly` leaves `kill` and `timeout` out because
two of its properties are false with them: a deadline is the finding of
`instance_slow`, and a plain stop whose client is killed after the daemon's
answer and before the listener is closed releases the lock, so that an
attachment may get in and be cut off. The README promises the refusal for the
sessions attached when stop is asked (`README.md:259`), and no line speaks of
that window; it stays a hazard without a finding.

In `Launcher`, `kill` is a SIGKILL of a launcher anywhere, `fail` the failure of
any one step of the launch or of the stage; pi may exit and the gateway close
the attachment at any time without either. In `ApiTunnel`, `upstream` lets
dial, exchange and response fail, `stall` lets a deadline pass. The remaining
modules have faults of the same kinds.

### Fairness

Goroutines and processes that can take a step eventually do (weak fairness of
each): the kernel and the Go scheduler give that. Users, commands, the
destination, the upstream, crashes, failed accepts and the deadlines of
`instance.go` owe nothing. In `GitTunnel` neither does `WriteFails`: a write to a
client that left fails only if the upstream sends something. In `Passthrough` and `ApiTunnel` deadlines do pass, because the claims
there are that a deadline covers the wait: `ApiTunnel` has weak fairness of
`Handshake`, `HandlerStep` and `Deadlines`, and none of the client, of the
upstream or of the steps that wait for it. `Launcher` has it for each launcher
and for what follows in a stage by itself, not for pi, commands or the gateway. No fairness is assumed among the
waiters of a flock, so nothing is claimed of the one who waits.

## Proofs

`GatewayInstance_proofs`, for any sets of clients, daemons, connections and
commands and any faults, from `ConstantsAssumption` (the sets are disjoint from
`None` and connections finitely many):

- `Typing`: `TypeOK`, action by action; most of it is that a step of the client
  machine leads to a client state and keeps connections connections.
- `LockSafe`: `LockDiscipline`. Inductive together with `TypeOK`: `Go` releases
  the lock exactly where `Holding` ends.
- `Invariance`, `CountsExactly`, `SessionsCounted`. `CountExact` says that a
  counter equals a cardinality, and is not inductive by itself: a step that
  closes or reuses a connection keeps it only if the connection is not somebody
  else's. `IInv` adds who owns a connection (`Own`), that a request which was
  granted came from a client that asked for it (`Grant`), that a connection on
  the daemon's side belongs to a daemon that listened (`Served`), so that a slot
  freshly taken counts nothing, and that a child whose parent still holds its
  credential serves nothing (`ChildWaits`), which is what makes the death of a
  starter harmless. `SessionCounted` follows from `Own`, `Grant` and `Served`.
- `Refinement`: every behaviour of `GatewayInstance` implements `Instance` for
  each daemon. Each action is a step of `Outside(d)` or leaves it unchanged. Two
  things must be known of the state: `IInv`, for the count that admits a plain
  stop is a count of exactly the mapped sessions; and `StopInv`, that a stop
  handler serves somebody who asked for a stop, and is done only where the
  listener is closed. `AcceptFails` is the step `Break`; from there the last
  `Close` may be a stop handler's or the main goroutine's, and both are shown to
  leave nothing in the backlog and nobody's session counted otherwise
  (`ClosesFacts`).
- `StopSparesSessions`, `NoTakeover`, `OneDaemonOnly`, where `Faults` contains
  neither `kill` nor `timeout`, and any of the others. The premise is needed:
  with a deadline `NoSilentTakeover` is false (`instance_slow`), and with a kill
  the lock may be free before an accepted stop closes the listener ("Faults"
  above has the two behaviours). Without them a client lets go of the lock, and of a connection,
  only where its program does. `Requests` says that a stop handler's client still
  waits for it, with the lock, until the listener is closed, so that nobody can
  attach meanwhile. `Succession` says that a starter has found no daemon serving
  and finds none before its child does, that a daemon which starts has a parent
  that waits for it with the lock, and that one which serves is the one behind
  the name of its socket. To serve is here to have the management listener open,
  in an accept loop or out of one that failed. `OneDaemonOnly` follows: never two
  daemons that start or serve.

`Configuration_proofs`, for any names and any document: a configuration that
`Loads` is well formed (`LoadedWellFormed`), the stage reads what the launcher
wrote (`TravelsWhole`), and a switch that raises nothing gives a command no
reach it did not have (`NoRaiseNoReach`). The first is what `Supervisor` and
`ProfileExtension` assume of their constants.

`ApiTunnel_proofs`, for every request, of any length and any path: what a
read-only ingress passes only reads, whatever the upstream makes of it, but for a
`QueryElsewhere`, and without that exception where the path has no mark
(`ReadClassIsReadOnly`; `SamePath` says that then what is classified is what is
sent); a
denial that asks for a wider profile is one that profile lifts
(`EscalationHelps`); a wider class allows no less (`WriteClassIsWider`); and a
plain read, one without a mark, is never refused (`PlainReadsPass`), without
which refusing everything would do.

The same module, of the tunnel, for any requests, limits and times: `TypeCorrect`,
`BoundariesHold`, `ReadOnlyIngress`, `FreshLeaves`. `WholeRequests` looks at the
first piece on the wire only; the invariant is `Unbroken`, that the whole wire
continues the request in hand and that what the client has still to send
continues the wire, and `Handled`, that a request past `Decide` was read whole
and authorized. `ReadOnlyIngress` then follows by `ReadClassIsReadOnly`.
`FreshLeaves` needs only `Renewal < Validity` and that handshakes take the mutex
one at a time.

`Supervisor_proofs`, for any configuration, number of requests and faults:
`FrontendsFirst` from the fact that the attachment is closed only in a phase of
shutdown in which no worker starts any more, `JobsFound` from the fact that a
handler in its select has its command in the table, and `NoCauselessKill`. The
last has the premise that every request comes in one read, which is what
`supervisor_long` shows to be needed.

`GitTunnel_proofs`, for any routes, any number of requests and pieces and any
faults: `Typing`, `OneReaderOnly` (the loop, the transport and the watcher never
read the client's buffer two at a time), `NoDesync` (what is taken for a head is
a head) and `OnlyAllowedForwarded`. In the invariant, `Unbroken` says that the
wire is a run of requests and that what the client has still to send continues
it; `Placed`, that the body's reader stands inside a body and the loop between
two; `Alone`, that the transport is done with a complete body, that the watcher
reads only behind a complete body and that the loop goes on only when it is off.

`Passthrough_proofs`, for any number of pieces each way and any room in the
buffers: `Typing`, `PiecesInOrder`, `HalfCloseSpared`. `InOrder` looks at what
was read at the two ends; the invariant follows the pieces all the way. `UpWay`
says that command's pipe, relay's pipe, read-ahead, destination's pipe and what
was read there continue each other's numbers, `DownWay` the same down, each only
as far as the next writer still lives, since a reset may lose pieces and nothing
behind the loss is ever delivered. Most actions only end pipes: `Wearing` says
what such a step may do and is shown once to keep the invariant. `HalfCloseSpares`
needs a second invariant, `Finishing`: each end is passed on only by a copier that
has copied everything (`Endings`), and until a deadline or a kill nothing is lost,
so that pieces sent and pieces on their way add up (`Conserved`).

`Launcher_proofs`, for any number of sessions and slots, for every `Layout` and
not the five of the run: `DatabasesOwned` and `CommandsConfined`. The invariant
says that a launcher past its claim has its flock, that a stage runs only while
its launcher is past the claim or killed, and that pi's mounts are those of its
slot; two lemmas, `RootPlaces` and `CommandPlaces`, compute what those mounts
show.

`ProfileExtension_proofs`, for every configuration, number of sessions and of
calls: one invariant `Inv` (types, the launch profile is known, what a session
stores is what would be restored, the display, which no run checks), then `Display`, `ReloadKeeps`,
and the action properties `RestoreSafe`, `GrantReal` and `StaleAnswer`.

Every invariant, every safety action property and every refinement that a passing run checks is the
statement of a theorem. Only model-checked are the liveness properties
(`LockReleased`, `StopTakesEffect`, `ShutdownEndsJobs`,
`CancelEndsJob`, `DisconnectCancels`, `DenialIsSent`, `NotStranded`,
`CommandGoneFreesAll`, `EverythingReturned`): fairness and ENABLED are outside
what the prover handles. In the theorems the bounds of the models (`MaxWire`,
`Up`, `Down`, `Room` and the like) stay parameters, arbitrary but finite.

## Not modelled, and why

- Host credentials and environment (`auth.go`, `consts.go`): a call of gh and
  pure filters. That a token may be missing is in the models.
- The rest of the command stage: `/proc`, `/dev`, capabilities, the resolver's
  symlink, the private mount flag. Each is one call whose effect is the kernel's,
  and a failure of any is the failure of the stage that the models have.
- The accept loop of a namespace worker, which starts a relay and nothing else.
- Flag parsing, the wording of messages, header filtering, JSON and GraphQL
  syntax, addresses: text. What decisions tell apart of it is in the records of
  `Configuration`, `Policy` and `Passthrough`.
- Cryptography. A renewal that fails to make a key or a signature is left out.
- Clock values, but for the leaf's: a deadline passes or does not. Races between
  two deadlines on one connection, as between the body reader and the watcher of
  the git tunnel, are therefore outside the models. The TLS handshake after a
  CONNECT has no deadline (`gateway.go:197`); the model may stay there for ever
  and no property says otherwise.
- A payload of secrets that cannot be marshalled: nothing in it can fail to.
- The end-to-end harness and the build: no behaviour of the program.

## What is left

A composition of extension, supervisor and tunnels, for the permission a
command has from its launch to its exit (`README.md`, "Downgrade behavior").
Its parts meet in `Configuration` and `Policy` so far: the class of a command
is fixed at its launch in `Supervisor`, and a tunnel keeps the class of its
ingress in `ApiTunnel` and `GitTunnel`.
