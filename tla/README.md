# Warren VPN SDK: a TLA+ verification project

The repository is a Flutter/Dart SDK for the Warren VPN. It reaches an external Rust engine
(`warren-sdk-rs`, a dependency) in two ways:

- **Mode A, proxy**: the engine runs inside the app. Dart (`warren_sdk_ffi`) calls a bridge crate
  (`native/warren_sdk_frb`, flutter_rust_bridge) that holds the engine's client and its supervised
  proxy sessions.
- **Mode B, system VPN**: a root daemon, `warrend` (`native/warrend`), owns the TUN datapath and the
  host's firewall. The app (`warren_sdk_desktop`) drives it over a Unix socket.

What can go wrong and cannot be undone is in mode B: the daemon holds a *kill switch*, kernel rules
that outlive the process. They must never open the host by accident and should never lock it for
good. The project therefore starts with the daemon, its rules and its crashes, adds the app that
drives it, and then the in-process session with its revocation watch.

## 1. Inventory

| part | state it keeps | operations | who it meets |
| --- | --- | --- | --- |
| `warrend` owner task (`main.rs` `serve_connection`, `handle`, `connect_orchestrated`) | `Session` (client), the shared slot `SharedTunnel`, the shared lockdown flag | configure, connect, disconnect, revocation tick, end of connection | the app over the socket; the slot with the shutdown task; the host's tables |
| `warrend` shutdown task (`run_daemon`) | the handle it took | take the slot, decide by posture, restore, exit | races every await of the owner task |
| network block (`netblock.rs`) | nothing in memory: the engine's table (on macOS its pf anchor), warrend's own (strict block or connecting guard), the resolver: `resolv.conf` and the engine's backup, or one per macOS service | install, clear, detect, reconcile, revert | every process on the host, `warrend revert` included; network managers that write `resolv.conf` |
| posture (`posture.rs`) | none | `stop_action` | both tasks |
| control socket (`control_socket.rs`) | lock, directory, path | claim, clear a stale socket, bind, remove | a second daemon, other programs in the directory |
| device file (`device.rs`) | a private directory per configure | draw a name, write, replace, drop | the engine client that keeps its identity there; other users of the temporary directory |
| command runner (`cmd.rs`), protocol (`protocol.rs`) | none | run a command; encode | the OS; the app |
| desktop platform (`desktop_platform.dart`, `daemon_client.dart`) | the connection, the cached latest state | connect (with a timeout), disconnect (with a timeout), close | the daemon, asynchronously in both directions |
| framing (`framing.dart`, `messages.dart`) | bytes of an unfinished frame | add a chunk | the socket |
| bridge (`warren_sdk_frb` `client.rs`, `datapath.rs`) | engine client, session handle, watch receivers, kept device name | state and port streams, fatal cause, connect, disconnect, forward a port, devices | the engine's supervisor; calls on a thread pool |
| in-process client (`warren_client_ffi.dart`, `device_revocation.dart`) | session stream, revocation answer, timer | connect, disconnect, dispose, watch | the bridge by futures that overlap |
| platform interface (`latest_broadcast.dart`, `devices.dart`, `connection_state.dart`, `port_follow.dart`) | the latest value of a stream | listen, replay, end on a revocation | both modes |
| facade, riverpod, mobile, example | none of their own (framework state) | delegate | the platform interface |

What is hard, and what would make each part correct:

- **Daemon and host.** Handlers are asynchronous: at each await (a firewall command, the dial) a
  signal, another process or a crash may come in. Any command may fail. Correct: the host stays
  blocked from the first session until its owner or its operator releases it; under lockdown only the
  operator does; a session is never without rules; the daemon always ends when told to.
- **Owner connection.** Requests and events cross; either end may die or give up at any point.
  Correct: what the app believes is what the daemon holds; every call returns; a lost owner never
  leaves a daemon that refuses everyone.
- **Control socket.** Two starts, two exit paths and an unlink by name. Correct: one server, reached at
  its path; nobody unlinks another's socket or a file that is not one.
- **In-process session.** A channel that conflates, a stream that pauses for a failure's cause, a
  revocation flag nobody pushes, checks that overlap. Correct: the last state is read, a failure
  names its cause, a revoked device's session ends and stays ended.

- **Network block.** Every command is an external program or a file operation, and a plan of them ends
  at the first failure. A revert in another process works on the same files. Correct: seen from outside
  a command happened or did not; the host's own resolver is never lost; what is loaded filters; a
  reconcile that says it is done has done it.
- **Device file.** Destructors remove it, and the daemon's usual end runs none. Correct: a client has its
  file as long as it lives; what is left behind is an ended process's.
- **Bridge.** Calls of one object run on several threads in any order. Correct: nothing is asked of a
  session that is going down, a second disconnect does not outrun the first, no listener is left behind
  its channel, every call returns.

`PROJECT.json` lists every component with its status, and every hazard with the properties that
would notice it.

## 2. Modules

    KillSwitch            the abstract promise: posture of the host, who may open it
        ^ refinement (KS!Spec)
    Warrend  --EXTENDS--> Netblock, Posture        WarrendProofs
        ^ the same actions, with the app beside them
    DesktopVpn  --EXTENDS--> Warrend               DesktopVpnProofs

    HostNetwork  --implements--> Netblock          HostNetworkProofs
    Framing  --implements--> Channel (twice)       FramingProofs
    DeviceFile  --EXTENDS--> ControlSocket         DeviceFileProofs, ControlSocketProofs
    Bridge                                         BridgeProofs
    ProxySession                                   ProxySessionProofs

Two chains compose: a command of `Warrend` is one step of `Netblock`, which `HostNetwork` shows to be
what the several programs and file operations of that command come to; a message of `DesktopVpn` is one
element of a queue, which `Framing` shows to be what the bytes on the socket come to.

**Netblock** has the kernel-side state, `engineTable` (`absent`, `rules`), `lockdownTable` (`absent`,
`guard`, `block`) and `dns`, and one operator per command of `netblock.rs`. A firewall command ends with
`ok \in Outcomes`. The resolver has three values: `host`, the engine's `override` with its backup beside
it, and `lost`, an override nothing undoes or an emptied file, which no reconcile knows of. A
`reconcile_dns` ends in one of `DnsEnds`: `done`; `passed`, which is `Ok` as well but left something out (a
`resolv.conf` it could not read, whose backup it then took for stale, or a service that did not answer or
did not reset); `failed`. Only a `done` one gives the host's resolver back, and only if it was not
`disturbed`, that is, nobody else was at the resolver meanwhile. `CommandsFail` says whether failures
happen. The contents of a ruleset are abstracted to what tells the properties apart: the strict block stops
the daemon's own dial, the connecting guard lets it pass. The engine's own effects (what its datapath
installs, what dropping its handle removes, what a dial needs) are external operators, modelled from how
the daemon uses them. That a dial needs the host's own resolver is the Linux behaviour, which
`DialResolvesNames` rests on.

**HostNetwork** is `netblock.rs` command by command on nftables and on pf. A runner, the daemon or one
beside it (`warrend revert`, or the shutdown task's revert), works through a plan, `todo`, and is at one
place, `at`, of the first command in it: `load`, `flush`, `detect` and `enable` are one external program
each, `exists` to `stale` the file operations of `reconcile_dns_files`, `list` and `look` the
`networksetup` calls of the macOS reconcile. Everything may fail, and a runner may die, between any two.
A `resolv.conf` that cannot be read is taken for one without the marker (`unread`), and its backup goes.
Another program may write `resolv.conf` at any time; the engine puts the resolver aside, pushes its own
and puts it back. Three things are remembered for the properties alone: how a runner's last plan ended
(`told`); whether its reconcile could still keep its word (`owed`: it found a resolver it can give back, has
passed nothing over and nobody else has worked on the host since); and `swept`: two hands were at the
resolver at once, and no runner or session has begun alone since. `swept` is Netblock's `disturbed`: a revert
beside a dial can take the backup the engine has just written for a stale one, because the marker is read
some steps before the removal.

What the reconcile reports is weaker than it reads. It is `Ok` with nothing done when there is no backup,
whatever `resolv.conf` holds; when the backup went because the file could not be read; and on macOS when a
service was passed over, in silence if it did not answer, with a note if it did not reset. So `CommandsTell`
speaks of those that are still owed, and says of every other command that its `Ok` is its effect.

**Posture** is `stop_action` as a function of the trigger and the lockdown flag.

**Warrend** is the process. `hpc` is the owner task's place between two awaits, so the interleavings
of the code are those of the model: `DetectStale`, `InstallGuard`, `DropPrior`, `ClearStale`,
`DialInstalls`, `DialReturns`, `ClearGuard`, `HoldAfterFailure`, `RestoreAfterFailure` are
`connect_orchestrated` in its order; `Disconnect`, `BlockBeforeDrop`, `DropTunnel`, `SweepEngine` the
disconnect; `ShutdownTakes`, `ShutdownDecides`, `ShutdownExits` the shutdown task; `RevertStep(r)` the
commands of `revert_network` run by the owner, the shutdown task or `warrend revert`, which can all be
under way at once. `Crash` is any end without destructors; the kernel state stays and `Start`,
`startup_reconcile` meet it. Two history variables only serve properties: `escaped` (an operator ran
`warrend revert` and no connect has taken the host's protection in hand since) and `reconciled` (`yes` once
this daemon's startup reconcile has done all of its work, `crossed` for good once a revert worked beside the
daemon). `Disturbed`, crossed or shutting down, is what the daemon's commands on the resolver hand to
`Netblock`; a process that ends in the middle of a reconcile leaves what a failed one may leave
(`ReconcileCut`).

**DesktopVpn** puts the app beside it: queues of requests and events, the app's call in progress, the
cached latest state, timeouts, closes and deaths on both sides. Each action of the daemon's end is
an action of `Warrend` together with what it reads or writes, so every step of the composition is a step of
`Warrend` or none by construction, whatever the app does: no claim of its own, but it lets the composition
inherit what is proved of `Warrend`. `asked` is a history variable: the app asked this
connection to disconnect. An app that is refused while the daemon has an owner stays where it was,
so this is no step. A reconnect over a live session cannot be reached through the SDK, which opens a
connection per session; `Warrend` alone explores it.

**ControlSocket** is a set of daemons started, stopped and killed at will on one path, with the lock,
the inspection, the removal and the bind of `claim` and `bind` as separate steps, and the two exit
paths of `run_daemon`, both of which unlink. Another program may create and remove a file there.

**DeviceFile** puts a session beside the socket in each daemon: a configure draws names for a private
directory until `mkdir` accepts one, writes the identity, builds the client on it, replaces the session's
client and directory in the order of `Session`'s fields, and drops the old ones; every step may fail, and
the failed configure discards what it made. A connection that ends drops its session, an exit and a
crash drop nothing, and other users plant names in the shared directory. The composition is a step of
`ControlSocket` or none, so the socket's properties are checked and proved with the sessions beside it.

**Framing** is the byte stream under that connection. A byte is a message and a position in its frame, so
a reader that loses one reads garbage or nothing. The daemon's side reads the length, then the payload,
in a loop of its own, hands the frame over a channel of one and is woken by the revocation tick
meanwhile; the app's side is fed chunks of any length and cuts the frames out of them. Each direction
implements **Channel**, a queue of messages that arrive once, whole and in order, which is what
`DesktopVpn` assumes of the connection. `asked` and `told` keep what was sent, so the queue of a direction
is the messages behind those the other side has taken (`After`): the requests behind `served`, and the
events from the one whose byte comes first in what the app has not cut (`Cutoff`). A message that cannot be parsed is allowed on both sides: the
daemon answers it with an error event, the app loses what was behind it in the same chunk.

**ProxySession** follows a state from the engine's watch channel through the bridge task, the queue to
the Dart isolate, the pause for a failure's cause and the cached value; and the revocation watch:
listeners that come and go, a period, checks that overlap and answer in any order, the end they put
to a session. A listener that arrives after the channel has moved may see the current value twice (`unseen'` is
either in `ConnectReturns`): the receiver is a clone of one nobody marks as read.

**Bridge** is what Dart's calls share behind the bridge: the client, one session, one forwarded port. A
call (`op[c]`) is handed over with a reference to its object (`WireCall`, which stands for all the
generated entry points) and runs at some later time on some thread (`at[c]`), so all calls made are
under way together. `disconnect` tells the probe's task to end (`aborting`: the abort is asynchronous), takes
the handle and shuts the engine down under the handle's lock; `forward_port` holds it over its request; the
five streams clone a receiver, emit, wait and emit until the channel closes or the listener cancels. The
engine's supervisor may give up by itself (`EngineGivesUp`) with the handle still held: its channels close,
and a port asked for then is one whose mapping is gone (of the engine this is assumed).

`rename_device` asks the account's server (external: served, refused or unanswered) and keeps the name the
app wrote, blanks included (`Written`, `Padded`), where the registry has it trimmed. `create` keeps what the
state directory holds, whatever the registry has by then, and another install may rename the device. `alone`
and `parted` are history variables: the rename of this device nothing has come between, and whether the two
names were found or made to differ with no such rename confirmed since. That is where the code promises
nothing of the name: `list_devices` (`client.rs:388`) never refreshes it, although the comment at
`client.rs:360` says a rename made elsewhere reaches it through the next list. Two more observations, of
which no property is made: `egress_dead()` keeps its last value after a disconnect although its comment says
`false` in every state but a connected one (`datapath.rs:446`); and a stream's task holds its object, so
that dropping the app's handle alone ends nothing.

## 3. Runs

| run | instance | states | what it shows |
| --- | --- | --- | --- |
| `warrend` | commands fail, lockdown on and off | 77,914 | every interleaving of requests, signals, reverts, crashes and restarts: `SessionProtected`, `GuardHolds`, `DisconnectedHolds`, `DialResolvesNames`, `FailClosed`, that the daemon implements `KillSwitch`, that requests and signals end (`RequestEnds`, `StopEnds`) |
| `desktop_vpn` | commands succeed, lockdown on and off | 206,820 | the app and the daemon agree (`SessionIsLive`, `DisconnectedReadsTrue`), a call is settled by its own answer (`AnswerIsOwn`), calls return, a lost owner ends the daemon |
| `host_network` | two services, both backends | 454,352 | the commands of `Netblock` are what the programs and file operations come to (`ImplementsNetblock`), what a command reports is what it did (`CommandsTell`), `LoadedFilters`, `OverrideCanBeUndone` |
| `device_file` | three daemons, three names, two identities, two tries | 483,000 | one server per path with sessions at work in it (`ServingOwnsPath`, `LiveSocketStays`), `EngineHasItsFile`, `OnlyEndsLeak` |
| `framing` | two requests, three events, two sizes, one of them malformed | 8,704 | both directions implement `Channel` whatever the chunks and the tick; no message waits for another's bytes |
| `proxy_session` | two live states, one cause, two checks and two queued states in flight | 66,720 | causes, the watch, the end on a revocation, and that the last state is read |
| `bridge` | any three calls, two names, one publication per channel | 832,192 | `DisconnectedMeansDown`, `ForwardsBeforeShutdown`, `ListenersCatchUp`, `KeptNameAgrees`, and that every call returns |

Five more runs show that a sentence of the repository is not what the code does. Each checks that
sentence alone and ends in a counterexample:

| run | what is said | what happens |
| --- | --- | --- |
| `clean_stop` | the HELP text: a clean stop restores the network unless lockdown is on | a signal during a dial sweeps before the dial installs its rules and exits without dropping them |
| `reconnect_escape` | the HELP text: reconnect to get the network back | a connect over a dead session's rules that fails leaves the strict block, and the next one dials behind it without a guard |
| `wedged_disconnect` | after a bounded wait, "the close below still tears down" | a daemon that has not read the disconnect meets the close and holds the block |
| `revocation_stays` | the revocation flag stays true once it is | two checks that overlap and answer in reverse order take it back |
| `lost_resolver` | a backup beside an unmarked `resolv.conf` is stale: something else rewrote the file | the reconcile itself emptied it, through a symlink, and failed or died before it wrote |

In the trace of `clean_stop` the last step may be labelled `Crash`: it has the same effect as the exit
it stands for.

Three disagreements have no run. A connecting guard left by a crash is cleared by nobody when the next
connect needs no guard (`main.rs:658` clears its own only), so it shadows that session until a
disconnect or a revert. And `Disconnected` is sent although the revert before it failed (`main.rs:830`):
the log line there says so itself, and `DisconnectedReadsTrue` is stated for commands that succeed.
`DisconnectedHolds`, which is checked with failing commands, says of the block under lockdown and of the
session, and outside lockdown nothing of the network. The third is `list_devices`, which does not refresh
the kept name as `client.rs:360` says; no run has a listing, which changes nothing.

### Bounds

`Warrend` and `DesktopVpn` have no numeric bound: one daemon, one owner at a time (the code refuses a
second) and queues that the client's own waits keep short (configure, connect and disconnect of one
connection). Crashes, restarts, signals and reverts are unlimited. `LockdownRequests` is what owners may
ask for; `CommandsFail` lets every command fail at any time. `HostNetwork` has no numeric bound either;
two services are the least of which one can be reset and another passed over. `DeviceFile` needs three
daemons for the worst order known of the socket (one that serves, one that starts, one that ends), three
names so that a session can hold one, make one and meet a planted one, two identities so that a wrong file
is told from a right one, and two tries (the code has sixteen), the least at which a name is drawn again.
`Bridge` takes any three calls: two that race for the handle and a stream beside them, or two renames and
a request for another device; one publication per channel (`MaxChanges`), before, between or after the
steps of a stream, and the channels that are open change together, since no stream reads more than one;
two names, one of them padded. The app opens one session, of a client whose name agrees and of which
nothing was asked, and asks the account's server only while there is no session: a session and the
requests share no state. It forwards one port, and another install renames the device beside a rename
only, as what it did before is in what `create` finds. In `ProxySession`, `MaxAsks` = 2 is the least at
which answers can overtake one another and `MaxInFlight` = 2 the least at which a queued state waits
behind a failure that is being mapped; the theorems hold for any. One failure cause stands for all since
nothing compares two.

`Framing` has a length of two bytes, the least that can be split, where the code has four; two requests
and three events, so that one frame ends, one is whole and one begins in a chunk.

### Fairness

- `Warrend`: weak fairness of the owner task, the shutdown task and each revert. The tokio runtime
  polls what is ready. That a command ends, with success or failure, is assumed of the host (`cmd.rs:74`
  waits for the program without a timeout), and that a dial ends of the engine. Nothing is assumed of
  requests, signals, crashes, starts or the operator.
- `DesktopVpn`: the same, and weak fairness of the app's event loop. `CallsReturn` and
  `LostOwnerEndsDaemon` hold without the app's timeouts ever firing.
- `Bridge`: weak fairness of each call's own steps, since the pool's threads and the runtime's tasks run
  and requests have timeouts, and of the engine's and the probe's completion of what they were told.
  Nothing is assumed of the app's calls, of cancellations or of what the engine publishes; that the engine
  gives up, and that the probe sees the engine's end, is never owed.
- `Framing`: weak fairness of the read loop, the serve loop and the delivery of what the socket holds.
- `ProxySession`: weak fairness of the bridge task, the isolate, the timer and the delivery of answers;
  strong fairness of the check that succeeds, because a bridge fault that fails each check for ever would
  keep a revocation unread, and nothing in the code promises otherwise.

## 4. Proofs

TLAPS proves the safety part for all values of the constants, with and without failing commands:
every invariant, action property and refinement that a run checks and finds to hold.

- `WarrendProofs`: the inductive invariant `Inv` is the run's four invariants with what they rest on:
  which process parts exist together (`Lifetime`), on whose behalf a revert runs (`SweepOwners`), what
  a place in a handler says of its request (`HandlerPlaces`), where the slot is empty (`SlotEmpty`),
  that the engine's rules are in force from the dial that installed them, stored or not
  (`RulesInForce`), that the strict block precedes the teardown (`BlockInForce`) and that, once the startup
  reconcile has done its work and until a revert or a shutdown works beside the daemon, the engine's resolver
  goes with its session (`ResolverFollowsSession`). None of the four is inductive alone:
  `SessionProtected` needs the rules before the handle is stored, `DisconnectedHolds` needs the block
  while the session is dropped. `Overridden` is the one exception in them: a revert the operator or a
  clean stop started may take any rule away until it ends. From `Inv`: `SessionsProtected`,
  `GuardsHold`, `DisconnectsHold`, `DialsResolve`; the action properties `DaemonFailsClosed` and
  `LockdownNeverOpens` by cases over the steps that remove a table; and `RefinesKillSwitch`, the step
  simulation of the abstract kill switch under `HostPosture` and `Release`. `WorkRunsOut` is the part of
  `RequestEnds` and `StopEnds` that needs no fairness: `HandlerWork` counts what a request has left, at most
  twelve steps, `ShutdownWork` what a shutdown has, at most five; every step of the handler (of the
  shutdown) lowers its own count, and until the end no step of anyone raises it.
- `DesktopVpnProofs`: the lemma `DesktopImplementsWarrend` unfolds what holds by construction (it needs
  only that a queued configure asks for something owners ask for), so the theorems above hold with the app
  driving the daemon (`DesktopFailsClosed`).
  `SessionsAreLive` needs an invariant of the app's side, `AppInv`: what may be queued in each
  direction for each place of the app and the daemon. `DisconnectsReadTrue`, for commands that succeed,
  has three parts: nothing follows a disconnect on its connection (`DisconnectComesLast`), a configured
  client has the lockdown its app wants (`ConfiguredAsWanted`), and the revert has cleared what it is
  past with nobody to put it back (`RevertCleared`, a fact of `Warrend` alone); together they keep what
  the event says true until the app reads it (`ToldIsTrue`).
  `AnswersAreOwn` follows from `ErrorComesLast`: an error of a configured connection is the
  last thing it says, and none of an earlier request waits for a session's app.
  `DesktopTypes` bounds the queues: at most two requests and three events are under way for any sizes.
  The invariant `QueueInv` says which requests may follow which (`RequestsQueued`), and gives each
  connection a budget of events (`EventBudget`): those in the queue, one for the handler at work, one or
  two for each queued request and one for a state not told yet (`Untold`) are never more than three.
- `FramingProofs`: the bytes of a direction that nobody has taken, wherever they are, are exactly those of
  the messages sent behind the n-th (`InStep`: there are places in the bytes at which each message ends).
  A frame sent keeps them in step (`InStepSend`), and so does dropping the bytes up to a place
  (`InStepDrop`). `FrameFollows` is what makes a reader right: from such a place a whole frame is the next
  message and ends at the next place. For the daemon's reader that is one step (`WholeFrameIsNext`); the
  app's is a loop, `CutsFrom`, a recursive function of the bytes left. The prover cannot use an induction
  rule that takes a predicate, so `LeastElement`, `InductionOnSets` and `DownwardInduction` state it for
  a set of numbers, from the well-foundedness of `<`; with them the function exists and has its equation
  (`CutsExist`, `CutsDefined`), the loop ends and cuts every whole frame (`CutWalks`, for every sequence
  of bytes), and what it cuts are the next messages (`CutFollows`, `ChunkIsCut`). `RequestInv` and
  `EventInv` are the inductive invariants of the directions; from them `FramingTypes`, `FramesAreWhole`,
  in which a chunk of any number of frames is one `Arrive` of `Channel` or none, and `RequestsInOrder`.
- `ControlSocketProofs`: whoever is past the lock holds it and nobody else does, and what the holder
  knows of the path at each of its places; from these `ServingOwns`, `LiveSocketsStay` and
  `NonSocketsStay` for any set of daemons.
- `DeviceFileProofs`: a step of the sessions is a step of the socket or none (`DaemonsImplementSocket`),
  so the theorems above hold beside them. The invariant says that a daemon past the bind holds the lock,
  so at most one is alive with anything made (`MadeIsHeld`), and for each place of a session which of
  `fresh`, `device` and `engine` are set and made by it (`HoldsItsOwn`, `FreshByPlace`,
  `EngineByPlace`); from it `EnginesHaveTheirFiles` and `OnlyEndsLeave`.
- `HostNetworkProofs`: the invariant ties a runner's place to its command and the backend
  (`PlaceOfCommand`) and to how its plan ended (`ToldAtTheEnd`), has pf enabled before an anchor is loaded
  (`EnabledFirst`), and keeps a rising session to itself (`RisesAlone`). While `swept` does not hold,
  at most one runner is at work and, beside a session, nobody is at the resolver (`OneHand`), and the two
  files are what each place of a reconcile says (`FilesTell`); a reconcile that is owed is alone, what it
  has to give back is still there, and the services it is done with have their resolver back
  (`OwedAlone`). From these
  `HostTypes`, `LoadedRulesFilter`, `OverridesCanBeUndone`, `CommandsTellTheTruth`, and
  `HostImplementsNetblock`: each step is a command of `Netblock`, one of the engine's steps, or a stutter.
  A reconcile ends `passed` there when it has passed something over, and `Warrend` takes its `Ok` for no more.
- `BridgeProofs`: the invariant `BridgeInv` says which objects exist for a call in flight (`ObjectsExist`),
  that whoever is between the lock and its release is the lock's holder (`LockCovers`), what the handle and
  the engine are at each place of a disconnect (`DisconnectDone`) and of the one forward (`OneForward`), that
  a stream which stays is never past its channel (`StreamsFollow`), and that the kept name and the registry's
  part, unless `parted`, only between the service of a rename that is alone and its answer
  (`RenamesFollow`). It says nothing of an engine that runs while its handle is held.
- `ProxySessionProofs`: a failure that was sent, is being mapped or was read is one the engine made
  (`FailuresAreReal`), a stream that is over has nothing under way (`StreamClosed`), a revocation that
  was reported has closed its stream (`RevokedIsOver`), and checks in flight are within their
  bound (`AsksBounded`); from these `ProxyTypes`, `FailuresNameCauses`, `AskingWatched`, `RevocationsLast`.

Assumptions on constants are named where they are declared (`CommandsFailAssumption`,
`LockdownRequestsAssumption`, `ServicesAssumption`, `DaemonsAssumption`, `DeviceAssumption`,
`BridgeAssumption`, `FramingAssumption`, `ProxyAssumption`); they give types and keep names apart, and say
that a host has a service and a device a name. `DisconnectsReadTrue` assumes besides that commands succeed.

Model-checked only: the liveness properties (`RequestEnds`, `StopEnds`, `CallsReturn` of both modules,
`LostOwnerEndsDaemon`, `ReadsCatchUp`, `RevocationEndsSession`, `FramesServed`), which rest on fairness
and so on what is enabled, and which the prover does not reach. Of `RequestEnds` and `StopEnds` it proves
the measure (`WorkRunsOut`); that a step is always enabled while the count is not zero stays with TLC.

`NonSocketsStay` leaves out one step on purpose: the second of two exits' unlinks removes whatever is
at the path by then, which can be a file another program put there in between.

## 5. Plan

Written, in this order: `Netblock`, `Posture`, `Warrend` with its proofs and `KillSwitch`;
`ControlSocket`; `DesktopVpn`; `ProxySession`; `Framing` with `Channel`; `HostNetwork`; `DeviceFile`;
`Bridge`; each with its proofs.

What is left is small: the two dart-side streams of a forwarded port (`port_follow.dart`), which only map
records; frames over the readers' limit; and for the liveness properties of the other modules what
`WorkRunsOut` is for the daemon's, a measure that their steps lower and nobody raises.

## 6. Not modelled

- The engine: supervision, multihop circuits, credentials, pinning, persistence of its floors. It is
  outside the repository and appears as external actions.
- Frames over the readers' limit of 16 MiB, which neither program sends: `FrameReader` would throw on
  every later chunk.
- The texts of rulesets, peer authorisation (a predicate on the accepted connection), peer credentials
  (one system call), JSON and error wording, process spawning.
- The tables of a host without nft or pf.
- A connect that fails before there is a connection, which leaves nothing on either side. One that fails on a
  reset connection is in `AppSeesEnd`.
- What the account's server keeps of vouchers, subscriptions and other devices: `Bridge` has the requests,
  served, refused or lost. The conversions of the bridge's records, mnemonic generation, library loading,
  and the records and sealed classes of the platform interface have no state.
- The public facade delegates every call; the riverpod providers, the mobile channels (their other end is
  not in the repository) and the example have no logic of their own to check.
- Of the generated code only the hand-over of a call is modelled. The codecs, build_runner's output, the
  vendored cargokit and platform project files are not.
