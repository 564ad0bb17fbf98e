# mc-manage: TLA+ models, checks and proofs

mc-manage runs Minecraft servers in a container. `manager daemon`, process 1
of the container, starts the servers and serves two Unix sockets; every other
`manager <command>` is a short-lived process that edits files, sends the daemon
one request, or both. This directory holds TLA+ modules for the parts whose
behaviour depends on the order of events, TLC configurations for them, and
TLAPS proofs.

The rule for every definition: it is translated from the source (paths below
are under `src/app/internal/`), `PROJECT.json` names the lines, and what is not
in the source (the kernel, the Go runtime, a Minecraft server) is marked
external there and modelled from how the code uses it.

## 1. Inventory

| Component | State | Operations | Talks to |
|---|---|---|---|
| Server manager (`daemon/manager.go`) | `servers` (name to `Server`), in a `Server` the flag `AutomaticRestarts`, `State`, pid, port, the attached clients, the log buffer; one mutex for the table, one per `Server` | `Start`, `Add`, `Remove`, `Stop`, `Kill`, `Get`, `SetParameter`, `StopAllServers`, `KillAllServers`, `Attach`, `Broadcast`, `readFromClient` | launcher, config files, the kernel (processes, pseudo-terminals), screen clients |
| Daemon life cycle (`daemon/daemon.go`) | where `Run` is, the signal channel, the grace timer | boot loop, `handleMainConfig`, `gracefulShutdown` | manager, signals |
| Connections (`daemon/socket.go`) | two listeners, a goroutine per connection | PING, PS, START, STOP, KILL, CHECK, INSPECT, SET; raw screen sessions | manager, clients |
| Startup (`daemon/socket.go`, `daemon/daemon.go`, `client/send.go`) | the two socket files | remove, bind, ping | other daemons |
| Screen sessions (`manager.go`, `client/screen.go`) | connected clients, the pseudo-terminal | attach, broadcast, input, detach | the server's console |
| Log buffer (`ringbuffer/ringbuffer.go`) | a bounded ring of chunks of output | `Add`, `Snapshot` | Screen sessions |
| Configuration (`config/config.go`, `config/validate.go`) | `config.json` of every server, the main one | load, modify, save | all commands and the daemon |
| Properties and run script (`config/properties.go`, `config/runScript.go`) | `server.properties`, `user_jvm_args.txt`, arguments in `config.json` | read, add, remove | Configuration |
| Launcher (`launcher/launcher.go`) | none | `Build` a command line from the files | manager, java |
| Client (`client/*.go`, `cmd/manager/main.go`) | none | `set`, `reload`, `inspect`, `start`, ... | daemon, files |
| Jar versions (`client/set.go`, `download/*.go`) | server jar, archive of jars, arguments | archive, download, undo | Configuration |
| Java selection (`java/java.go`) | none | tables from game version to java version | create, set |
| Users (`users/users.go`) | per-server Unix accounts, owners of files | create, recover, remove | create, boot loop |
| Create and import (`create/create.go`) | a server directory half built | a sequence of fallible steps | most of the above |
| Status protocol (`protocol/statusRequest.go`) | none | `writeVarInt`, `readVarInt`, one exchange | a Minecraft server |
| Sizes, names (`paths/*.go`) | none | `HumanBytes`, name validation | client |
| Download sources, java installation, terminal output, templates | none | HTTP, archives, text | - |

What is hard about it:

- **Goroutines.** A START, an automatic restart and the boot loop may run
  `Start` for one name at once; `Start` reads the table twice without the
  mutex and spawns the process before `Add` decides whether the server may
  exist. Every server has a goroutine that waits for the process, tells the
  screen clients, removes the entry *by name* and then reads a flag of the
  removed object to decide on a restart.
- **Numbers that outlive what they name.** `Kill` looks a process up by pid.
- **Blocking while holding something.** The exit notice is a write without
  deadline; `Stop` writes to the console with the mutex held.
- **Shutdown against service.** `StopAllServers` ranges over the live map,
  requests and restarts are still served, the timer fires once.
- **Files shared by processes without locks**, truncated before they are
  written.
- **Long command sequences with partial failure** (version changes, create,
  user recovery).

What makes each component correct:

- manager: the table, the wait goroutines and the processes describe the same
  servers; no process runs that STOP cannot reach; STOP and KILL are final;
  what a user sees is a simple registry of servers.
- life cycle: everybody is asked to stop before anybody is killed; shutdown
  ends; nothing registered is left behind.
- startup: a daemon that is alone owns its sockets; every launch comes to a
  decision; the grace period in use is the saved one.
- screen: an attached client misses no output; STOP gives the mutex back. Log
  buffer: the last lines in order.
- configuration: a change that was reported as done is undone only by a command
  that is older; the daemon's restart flag and the file agree.
- arguments: the two files that hold them agree; paper's flags follow the version.
- jar versions: jar, archive and configuration name the same version; a failed
  change is undone and destroys nothing.
- users: a server runs under its own account or as root, and owns its files.

## 2. Modules

| Module | Models | Uses |
|---|---|---|
| `Manager` | the manager, `Start` step by step, the wait goroutine, STOP, KILL, SET autorestart, the unlocked `Get`, processes and pids | - |
| `ServerRegistry` | abstract: what a user of the daemon may rely on | - |
| `ManagerRefinement` | the mapping from `Manager` to `ServerRegistry` | both |
| `Daemon` | the main goroutine composed with the manager and its connections | extends `Manager` |
| `Screen` | one server's terminal, its two goroutines, the log buffer, the screen clients and STOP | - |
| `ServerConsole` | abstract: what a screen client may rely on | - |
| `ScreenRefinement` | the mapping from `Screen` to `ServerConsole` | both |
| `Startup` | several daemons, the socket files, the ping, the main configuration and its grace period | - |
| `ServerConfig` | `config.json` between commands, SET and START | - |
| `LaunchArgs` | arguments and memory in `config.json` and `user_jvm_args.txt`, paper's flags | - |
| `JarVersion` | jar, archive and configuration under version changes | - |
| `Users` | accounts, owners of files, what a server runs as | - |
| `MC...` | symmetry sets and constants for TLC; in `MCManager` the steps without the choices that make no difference | extend the above |
| `ManagerProofs` | the inductive invariant of `Manager` and its consequences; `Manager` implements `ServerRegistry` | extends `ManagerRefinement`, `TLAPS` |
| `DaemonProofs` | `Daemon` uses the manager correctly; everybody is asked to stop | extends `Daemon`, `ManagerProofs` |
| `ScreenProofs` | the inductive invariant of `Screen`, all its safety properties; `Screen` implements `ServerConsole` | extends `ScreenRefinement`, `TLAPS` |
| `StartupProofs`, `ServerConfigProofs`, `LaunchArgsProofs`, `JarVersionProofs`, `UsersProofs` | the inductive invariant of the module and all its safety properties | extend the module, `TLAPS` |

### Manager

A goroutine that may be inside `Start` is a *caller*: a connection goroutine
(`Handlers`), or the wait goroutine of an earlier server, which is named by its
`Server` object (`Instances`). `pc[c]` is where it is, `call[c]` its local
variables. One critical section under `m.mutex` is one action, except STOP's: it
ends with a write to the server's console, which may block for ever, so that
`Stop` takes the mutex (`mutex` is the Server written to) and `StopReturns` gives it
back, and every other action that needs the mutex waits in between. What the
code does without the mutex is a step of its own:

| Action | Code |
|---|---|
| `CheckRunning` | `m.servers[name] != nil`, unlocked |
| `Build` | `launcher.Build` reads the flag and the port, or fails |
| `PortCheck` | the unlocked loop over the ports in use |
| `Spawn` | `pty.Start` and the new `Server` |
| `Add` = `Register` or `Discard` | `Add` under the mutex; on refusal the new process is killed, and nobody waits for it |
| `Exit`, `Reap`, `Notify`, `Remove`, `Decide`, `Wake` | the wait goroutine: `cmd.Wait`, the exit notice to the screens, `Remove`, the restart flag, `time.Sleep`, `Start` |
| `Stop`, `StopReturns` | STOP: flag, state and the beginning of the write; its end |
| `Kill`, `SetAutoRestart` | the requests, under the mutex |
| `GetRequest`, `Get` | CHECK, INSPECT, screen: an unlocked read |
| `MapRace` | the Go runtime may abort the daemon when an unlocked read meets a write of the map |
| `Stall` | a screen client stops or resumes reading |

`Remove` and `Decide` reset the fields of a `Server` that no code reads any
more; this only makes equal states equal. A refused `Start` keeps its pid and
its zombie for ever, as in the code. `srv`'s port and `pid` are the fields that
the checks and `Kill` read. The history variable `halted` records which Server
STOP or KILL was aimed at; no guard reads it. PS reads the table under the mutex
and changes nothing, so that it has no action; setting the grace period is in
`Startup`.

`MapRace` empties the table and kills every process at once: the daemon is
process 1 of its container (the Dockerfile's ENTRYPOINT), and a new daemon
starts with it. Configuration files survive.

### Daemon

`Daemon` extends `Manager` with the main goroutine: `main` is where `Run` is,
one of its handlers, `Main`, is the goroutine of the boot loop. `Serve` is
everything the manager does meanwhile, restricted to the commands of the
constant `Commands` (so that a run can look at fewer of them). The loop of
`StopAllServers` is itself held by the write of a STOP (`StopNext`,
`StopNextReturns`, `main = "stopping"`), and the drain's look at the table waits for
the mutex. Ranging over a
Go map yields every entry that stays in the map, in any order, and may or may
not yield those added meanwhile: `swept` holds the names handled, `due` the
Servers in the table since the loop began, and `LoopDone` lets the loop end
when those are handled. `found` is a history variable: the Servers that a sweep
found and that are still listed.

Here an abort of the runtime ends the behaviour (`main = "aborted"`): the
module describes one life of a daemon.

### ServerRegistry

A name is absent, up or down (listed, its process dead), and wants a restart
or not; leaving the table while wanting one creates a token, and a token is
spent by one reappearance or dropped. `ManagerRefinement` maps tokens to the
wait goroutines that will call `Start` again.

### Screen

The console of one server: chunks of output go from the process through the
terminal to the reader goroutine, which adds each to the ring buffer (`Add`) and
broadcasts it under `Server.mu` (`ReaderLocks`, `ReaderSends`, `ReaderUnlocks`); the
wait goroutine broadcasts the exit notice the same way. A screen client's
goroutine in the daemon runs `Attach` (register, snapshot, send line by line) and
then `readFromClient`. Terminal, connection and buffer hold a bounded number of
chunks, so that a writer waits for its reader: a client that stalls stops the
reader goroutine, which stops the server in its write, which then does not
read its input, on which STOP waits with the manager's mutex held. `Decode` is
the client's JSON decoder, which may swallow output that came with the response.

### ServerConsole

A console has a newest chunk and, for each client, a stage (away, on, gone) and
the set of chunks that it was sent. A client comes on with one run of chunks, at
least the last `Capacity` that the log has, and up to the newest or to the
one before; from then on it gets the newest, and only if it has the one before;
no chunk is logged before every client that is on has the last one.
`ScreenRefinement` maps what has been shown and what is still on the connection to
what was sent, and takes a client as on from the start of `readFromClient` until
that goroutine or the client ends. The exit notice, the queues, both
goroutines and both mutexes are invisible to it.

### Startup

`main[d]` is the step of `Run` of daemon `d`, `lst[d][s]` that of the goroutine that
removes and binds socket `s`, `path[s]` the daemon whose socket the file leads to.
A ping (`Dial`) goes to whatever listens at the path, which may be the daemon
itself. `LoadMainConfig` and `HandleMainConfig` are two steps, since a SET
graceperiod served between them (`setGracePeriodCfg`) is overwritten. Dying leaves
the files. The boot loop is in `Daemon` and `Users`.

### ServerConfig

All commands that rewrite `config.json`, one table entry each (`Sets`): load,
change in memory, truncate, write. A save may fail (`SaveFails`): before the file
is opened, which leaves it as it was, or in the write, which leaves it empty or
torn. The daemon's SET holds the manager's mutex throughout and changes the flag in
the table before it saves, so that a SET whose save fails leaves them apart; START
reads the file without the mutex, saves it once more when the user is unusable, and
adds the flag it has read. `ack` is what the last completed command put into each
field; `lost` names the fields that a save has set back, and `"flag"` while the
table's flag is older than the file's or was never saved. A command that saves
twice (a version change that runs an installer) is modelled by its last save, and
the fields that keep a value made from the old one (`Kept`) may be lost by it.

### LaunchArgs, JarVersion

One command at a time, each file operation a step, with an interruption possible
before each. `LaunchArgs` follows the arguments (a line is an argument, `-Xms` or
`-Xmx`), `JarVersion` the jar, whose content is the version it belongs to and whether it
is whole. Both show the same commands with different data; `create`, `import`, `set
version` and `download` appear in both.

What may fail in `JarVersion`: the copy of the template and every `config.Save`, before
or after it has truncated the file (`SaveFails`; no command loads a `Damaged` one); the
rename into the archive with a jar in place, which is only a warning
(`ArchiveFails`); the rename out of it, whose error nobody looks at
(`RetrieveFails`); the fetch, before or after the jar is truncated; the copy; the
installer. A directory to be imported may hold a jar of the user's, of a version
`Own` that no configuration names; it holds no archives. Only `set version` and
`download` meet the version "custom".

What may fail in `LaunchArgs`: every load and validation, the download, the installer
(which may leave no `user_jvm_args.txt`), the memory lines (a warning), and, as
`Interrupt`, a write that fails in any other place, which ends the command as an
interruption does. Between the two writes of one command that is an exception of
`LaunchMatches`.

### Users

An account is a uid and a gid. The machine's other accounts take free ids, an
administrator may remove an account that runs nothing, `useradd` chooses ids. START
checks (`EnsureUserExistence`) and spawns in two steps, the boot loop works on the
copy that `MakeList` made.

## 3. What the runs check

Runs that pass:

| Run | Checks | Shows |
|---|---|---|
| `manager` | `TypeOK`, `MapTracksWaiters`, `NoOrphan`, `HaltIsFinal`, `RefinesRegistry`, `KilledLeaves` | a connection and the wait goroutines start, stop, kill and restart two servers: an entry is there exactly as long as its wait goroutine, no process runs out of reach of STOP, STOP/KILL at any moment of an exit prevent the restart, every step is one of the registry's, and a killed server leaves the list unless a screen client stalls its exit notice or a STOP, of this or of another server, never comes back from its write to a console that nobody reads |
| `daemon_commands` | `DaemonTypeOK`, `UsesManager`, `ReturnLeavesOnlyStarting`, `AllAskedToStop` | boot, service and shutdown under every command do nothing to the servers that the manager's operations do not do; every server found by `StopAllServers` is asked to stop; a shutdown that returns leaves at most a server that is just being started |
| `shutdown_ends` | `ShutdownEnds` | once the grace period is over, only a server that was listed too late, a stalled screen client or a STOP held by a full console can keep the daemon from returning |
| `screen` | `TypeOK`, `SnapshotIsTail`, `NoGap`, `RefinesConsole`, `StopReturns` | the log is the latest output before and after it wraps; what an attached client was sent has no gap, however `Attach` meets output; each chunk it gets is the next, and output waits until it has been sent; STOP returns unless a screen client has stalled |
| `startup` | `TypeOK`, `AloneListens`, `GraceAgrees`, `LaunchDecides` | a daemon started over the files of a dead one listens on both sockets; the grace period in use is the saved one; the ping never hangs |
| `config` | `TypeOK`, `LostOnlyToOlderLoad`, `RestartFlagAgrees` | a setting that was saved is lost only to a command that had loaded the file before; the flag in the table is the saved one, unless a SET could not save it or came in the middle of a START |
| `launch_args` | `TypeOK`, `LaunchMatches`, `PaperArgs` | `run.sh` and `config.json` give java the same arguments; paper's flags are there once and the user's keep their order |
| `jars` | `TypeOK`, `NoForeignJar`, `RestoredOnFailure`, `JarsKept` | a whole jar is that of the configured version or the user's own; a failed change leaves the old one in place or in the archive; no whole jar that could be archived is destroyed |
| `users` | `TypeOK`, `RunsAsOwnUser`, `OwnsItsFiles` | ids of a lost account that somebody else took are never used; the files belong to the account the server runs under |

Runs that TLC finds violated: what a text of the repository says and the code
does not do. `PROJECT.json` quotes the text under "findings".

| Run | Property | What happens |
|---|---|---|
| `restart_window` | `StopPreventsRestart` | STOP during the five seconds before a restart answers "not running" and the server restarts |
| `force_retry` | `ForceRedownloads` | the retry that `create` recommends archives the truncated jar, finds it in the archive and reports success |
| `already_running` | `AlreadyRunningIsTrue` | a daemon whose listener is quicker than its ping is told by itself that a daemon is running |

**Exceptions.** Several properties except cases in which the code does lose
what they promise. Each exception is a history variable set by the step that
makes it (`plain`, `failed`, `lost`, `damaged`, `raced`, `unowned`, `contested`), is named in
the property's comment, and is one of the disagreements in the next list.

**Seen while modelling**, without a run of their own:

- Two concurrent Starts pass the unlocked port check and run on one port
  (`manager.go:203`); two Starts of one server both spawn it before `Add` kills the
  second (`:193`); KILL of a server that was reaped and is still listed signals
  whatever has its pid (`:174`).
- A screen client that does not read keeps a dead server listed (`manager.go:408`)
  and, with a full terminal, STOP, KILL, the removal of every other server and the
  shutdown waiting (`:157`): the write of STOP holds the mutex they need. If it is
  the STOP of `StopAllServers`, the grace period does not even begin.
- A SET autorestart that cannot save answers with an error after it has changed the
  flag of the running server (`manager.go:308`, `:320`).
- A server added after `KillAllServers` is never stopped or killed, and the
  shutdown does not end (`daemon.go:147`).
- A second daemon removes the socket of the first and takes its place
  (`socket.go:15`).
- Overlapping writes leave a torn `config.json`; a START that meets a truncated
  one fails (`config.go:43`).
- `import` of a neoforge server: its last `Save` drops the arguments that
  `ScriptGetJVMArgs` has stored (`create.go:183`). `ScriptRemoveJVMArg` removes all lines
  equal to the argument but for case, the line with the memory size among them,
  `config.json` loses one argument (`runScript.go:193`).
- A jar that could not be archived is only warned about and then truncated by the
  download (`set.go:212`); the undoing ignores that the archived jar could not be
  renamed back (`:228`); a save that fails after the new jar is in place leaves it
  under the old version (`:232`). An `import` whose download fails saves the version
  it was told over a jar that is the user's own (`create.go:179`).
- A jar taken from the archive skips the java version check of the download
  (`download.go:58`); the jar of forge and neoforge is archived and never
  retrieved, and `runInstaller` saves the new version before the change can
  fail (`download.go:166`); `DownloadCustomJar` ignores the error of its copy
  (`:136`); the download of a jar from a URL keeps paper's flags.
- `create` with an unsupported type leaves the directory, which then refuses
  the next `create` (`create.go:46`).
- `reload-user` is allowed while the server runs; files written as root stay
  root's after `runasroot false` (`client.go:237`); `createUserGivenUIDGID` with a gid
  that is taken leaves an account it does not use (`users.go:61`).

**Bounds.** The sizes of the constants bound most of the state; the counters are
bounded by constants named `Max...`. In `manager` there are two names and two
`Server` objects: the objects of two servers, or the listed and the refused or the
exiting one of one name; with two pids one is reused while its old owner is listed,
and a connection and two wait goroutines may be inside `Start` at once. One of the
servers, `Other`, is under every operation but has no automatic restart and a port
of its own (`OtherSpec`): enough for its STOP to hold up the goroutines of the
first, which has all of them. `Spawn` takes the first free `Server` object, as free
ones are alike. What more names would add is covered by the theorems, which hold for
all. `daemon_commands` has one name with two `Server` objects and every command.
`shutdown_ends` leaves out the boot list, KILL, SET and CHECK: its servers are
started, stopped and stalled by clients. In `screen` the ring of two lines wraps
with three chunks, every queue holds one, which makes every writer wait at some
time. In `startup` three launches of two daemons are a crash with a restart beside
another daemon. In `config` the two commands are one that does not ask the daemon
first (and whose new value depends on the old) and the one that `Build` runs in the
middle of a START and the boot loop on its own; the others differ only in the field.
Two versions beside "custom" and the template's are enough in `jars` for a change, a
failure and a change back. Two of the arguments of `launch_args` differ by case
only, one is a memory setting and one a memory setting in lower case, one is
refused; the flags of the two versions overlap. Three ids in `users` are the
account's old one, its new one and a stranger's. The symmetry sets contain
permutations only of values no definition tells apart, and no liveness run uses
them.

**Fairness.** `Fairness` of `Manager` says that wait goroutines which can run do
run, that a process that was sent SIGKILL dies, and that a write to the console of a
server that has ended returns. The goroutine that removes an entry and the main
goroutine are strongly fair: they wait for a `sync.Mutex`, which hands itself to its
oldest waiter after a millisecond, so that STOPs, however many come, cannot keep
them out; only one that holds the mutex for ever can. It does not say that a healthy
server ever exits, not even after "stop", that a screen client reads, that a request
arrives, that a running server reads its full console, or that the runtime aborts or
does not. `DaemonFairness` adds the goroutines inside `Start`, the main goroutine,
the timer and nothing else. `Screen` adds that the server's console thread reads and
writes when it can, and that a client which has not stalled shows what it gets;
nobody has to type, stall, detach or exit. In `Startup` the main goroutine and the
two listeners are scheduled; nothing says that a daemon does or does not die.

**Mutants.** For every property of a passing run, `PROJECT.json` names a
variant of an action, defined just before it, with a plausible bug (an exists check
dropped, a flag not cleared, a return on error, a snapshot taken too early) under which
TLC finds the property violated.

## 4. What is proved

`tlapm` checks the following for every value of the constants: any number of
names, connections, Servers, ports and pids, daemons, commands, versions,
accounts, arguments, flags, any capacity of the log buffer and of the queues. The assumptions are
few:

| Module | Assumed |
|---|---|
| `Manager` | `None` is not one of the other values, connections and Servers are different objects, `SaveMayFail` is a Boolean |
| `Daemon` | `Main` is a connection goroutine, `BootNames` are names, `Commands` are commands |
| `Screen` | `Capacity` is a positive natural number, the other capacities and bounds are natural numbers |
| `Startup` | `None` is neither a daemon nor a grace period |
| `ServerConfig` | `Commands` are commands of the table `Sets`; an empty or torn file, `None` and a configuration are different |
| `LaunchArgs` | flags, arguments and imported lines are lines, sizes are strings and not empty, the default is one; "custom" is no version; no file is neither lines nor a configuration |
| `JarVersion` | `Custom` and the template's version are two of the versions, the user's own jar is of none; no file and a damaged one are neither a jar nor a configuration |
| `Users` | root, a disabled account and `None` are not pairs of ids |

The theorems of the manager and the daemon:

- `Invariance`: `Spec => []ManagerInv`. From it `TypeCorrect`, `TableIsExact`
  (`MapTracksWaiters`), `NoOrphanProcess` (`NoOrphan`), `NoRestartAfterHalt`
  (`HaltIsFinal`).
- `ManagerImplementsRegistry`: `Spec => RefinesRegistry`.
- `DaemonUsesManager`, `DaemonTypeCorrect`, `EveryServerAsked`,
  `OnlyStartingLeft`: the safety properties of `Daemon` (`UsesManager`,
  `DaemonTypeOK`, `AllAskedToStop`, `ReturnLeavesOnlyStarting`).
- `DaemonImplementsRegistry`: `DaemonSpec => RefinesRegistry`, so that boot and
  shutdown, too, are behaviours of the registry.

The three properties of the manager are not inductive. `MapTracksWaiters`
needs to know that the Server which `Add` registers has no wait goroutine yet,
and that no two Starts hold the same Server (`AddInv`); that a goroutine which
has begun has a name, and which kind of goroutine may be in which phase
(`PcInv`). `NoOrphan` needs that a process whose goroutine is past the wait is
gone (`ProcInv`). `HaltIsFinal` needs that the flag stays cleared from STOP to
the moment it is read, and that a Server that is not in use carries no mark
(`HaltInv`). None of them speaks of `mutex`: they hold however long a STOP
keeps the others waiting. The proof has one lemma per action, one step per conjunct.

The refinement proof states each action of the registry name by name
(`Dies`, `Changes`, `Leaves`, ...) and maps each operation of the manager to
one of them or to a stutter, using `ManagerInv`: `Remove` needs
`MapTracksWaiters` to know that the entry it deletes is its own, and `ProcInv`
to know that its process is dead.

The daemon's theorems first show that each of its steps is one of the manager's
or leaves the manager alone (`DaemonUsesManager`), which makes the manager's
theorems available. `AllAskedToStop` is then strengthened to `ShutdownInv`, which
speaks of the names swept so far; its step for a name that was swept needs
`ListedStays`: a Server that stays in the table keeps its name, so that a
found Server cannot appear under a name that was swept for another.

The other modules' theorems. Each rests on an inductive invariant of its own,
proved with one lemma per action; none of the properties is inductive.

- `ScreenProofs`: `TypeCorrect`, `LogIsTail` (`SnapshotIsTail`), `NothingMissed`
  (`NoGap`). `RingInv` gives the number of the line at every place of the ring,
  before and after it has wrapped, and `OrderInv` the order of the chunks that are
  still in the terminal or in the reader goroutine's hand: the ring alone would
  not know that the next chunk is the next number. The proof of `Snapshot`'s loop
  does the arithmetic of `% Capacity` once, in lemmas. For `NoGap`, `AttachInv`
  says of each client what it was sent up to now: nothing before it is registered
  (`Fresh`), then the broadcasts since (`Awaits`), then those and the part of
  the log that was sent (`Sending`), two runs of chunks that overlap or meet
  because the log was copied *after* the registration. `Upto` is how far the
  broadcasts have reached a client, which in the middle of a broadcast depends on
  whether its turn has come. `ClientKept` is the one lemma that all actions use
  for the clients they do not move. The mutexes play no part in it.
  `ScreenImplementsConsole` (`RefinesConsole`) is the same at every moment, not only
  while the reader is at rest: `OneStream` shows that what a client was sent is one
  run even in the middle of a broadcast, whichever of the log and the broadcasts is
  ahead. Then one lemma for each action of the console says when the mapped
  variables make that step (`Logs`, `Opens`, `Gets`, `Leaves`, `Stutters`), and one
  lemma for each group of actions of `Screen` which of them it makes. A
  broadcast of a chunk that the client already had from its log is a stutter.
- `StartupProofs`: `TypeCorrect`, `SocketsAreOwn` (`AloneListens`),
  `GracePeriodIsSaved` (`GraceAgrees`). A daemon that lives and was never contested
  is the only one that lives, so that nobody else touches its files; a listener
  between remove and bind finds no file at its path; between load and
  assignment the copy is what is saved.
- `ServerConfigProofs`: `TypeCorrect`, `SettingsSurvive` (`LostOnlyToOlderLoad`),
  `FlagIsSaved` (`RestartFlagAgrees`). `Copy` says of every copy in memory that
  it differs from what was last saved only in its own field and those saved since
  it was loaded; `WriterInv` and `AgreeInv` what the file holds around a write;
  `TableInv` and `Carries` that every restart flag in the table or on its way there
  is the saved one, that of a SET half done included, or is marked as one that was
  never saved; a failed save changes the file only in ways that the marks record.
- `LaunchArgsProofs`: `TypeCorrect`, `ScriptLaunch` (`LaunchMatches`), `PaperLaunch`
  (`PaperArgs`). `StepInv` says which files exist at which step and how the
  configuration in memory differs from the saved one, `PaperInv` that the flags
  in the arguments are those of the version, or none while they are being exchanged,
  and the others the user's (`OfUser`), `ScriptInv` what each file holds
  between the two writes of a command. `Apart` is why a removal takes the same line
  out of both files: as long as nothing was lost, no two arguments of a server with
  a script are equal but for case, and none is a memory setting but for case.
  Half of the module are lemmas about `Kept`, the loop that filters arguments:
  what it does to a sequence put together of two, with an element added or
  removed, filtered twice. They need induction over the length of a sequence,
  which the library's induction rules cannot provide here, as their parameter is
  an operator. It is done with sets instead: a set of natural numbers that is not
  empty has a least element (`Least`, from the well-foundedness of `<`), so that
  a set of sequences with the empty one, closed under `Append`, has them all
  (`SeqInduction`).
- `JarVersionProofs`: `TypeCorrect`, `JarIsConfigured` (`NoForeignJar`),
  `FailureRestores` (`RestoredOnFailure`), `NoJarLost` (`JarsKept`). `PhaseInv` says
  what is known of the configuration at each step of each command, `WasInv` where
  the jar that was there when the command began is by now, or that it could not be
  archived, `MatchInv` what jar and archive hold at each step, and `AloneInv` that a
  version in place, or being fetched, has no archive beside it unless a retrieval has
  failed: that archive a later change would overwrite. Each is
  weakened by `failed`, the history of what went wrong, and the lemma of each failing
  step shows that it is weakened by no more.
- `UsersProofs`: `TypeCorrect`, `OwnAccount` (`RunsAsOwnUser`), `OwnFiles` (`OwnsItsFiles`).
  An account's ids are in up to five places: the account, `config.json`, a
  client's memory, a START and the boot loop's copy. `Files` says for each of
  them when the files belong to it; a property of running servers needs all of
  them, since each copy may be the one that a START or a recovery uses.

CHECK_DEADLOCK is FALSE where the system may stop: a daemon that has ended, a server
directory whose `config.json` was damaged, which no command loads any more, and a
session that nobody continues.

Left to TLC: `KilledLeaves`, `ShutdownEnds`, `StopReturns` and `LaunchDecides`, which
rest on fairness, and everything that is violated. Every other property that a run
checks is a theorem.

## 5. What is not modelled, and why

- PS: it reads the table under the mutex and changes nothing.
- Manifests, HTTP, archives, java's installation, templates, printing, parsing:
  input and output without state of their own. A download is a fetch and a copy
  that may each fail.
- The tables of `java.go`, `HumanBytes` and the VarInt functions: a model of a
  constant table repeats it; the exchange with a Minecraft server has no state.
- `server.properties` apart from the two fields that `ServerConfig` treats as
  fields of the configuration.
- The key decoding of the screen client, and its wait for a key after the
  connection was closed.
- Reads of single fields without the mutex (the restart flag, the port) are
  steps that see the current value; torn or stale values of a Boolean or a
  word do not occur on the platforms the program is built for.

## 6. Plan

1. `Manager`, `ServerRegistry`, `Daemon`: done, with proofs.
2. `Screen`, `Startup`, `ServerConfig`, `LaunchArgs`, `JarVersion`, `Users`: done, checked.
3. Proofs of their safety properties: done.
4. `ServerConsole`, and that `Screen` implements it: done, with proofs.
5. Open: the hazards without a property, listed with the reason in `PROJECT.json`.
