# A TLA+ development of tailscale-socks

tailscale-socks joins a tailnet as a userspace node and serves SOCKS5, HTTP and
DNS over it. This directory holds TLA+ modules translated from its source, the
TLC configurations that check them, and theorems TLAPS proves about them.
Paths below are relative to the repository; `run.go` and the other Go files of
the command are in `src/cmd/tailscale-socks/`, `node.go` and `exitnode.go` in
`src/internal/tsnode/`, `http.go` in `src/internal/proxy/`.

## 1. Inventory

| Component | State it keeps | Operations | Hard about it | Correct means |
|---|---|---|---|---|
| Process lifecycle (`main.go`, `run.go`) | the main goroutine's place, deferred calls, sockets, up to four server goroutines, the channel `errc`, `ctx` | read settings, refuse, bind, start the node, serve, select, unwind, exit | signals and failures at any place; several processes over one login | one login backs two nodes of competing runs at most while the one leaves whose failed server let go of a listener; nothing is served over a node that is not ready; exit 0 only when asked; every ending closes the node; a signal or a failed server ends the process |
| Node (`node.go`, `exitnode.go`) | tsnet's server, the preferences in the state directory | `Start`, `closeStarted`, `applyPrefs`, `Close` | five error paths, each with another amount of tsnet built; preferences of an earlier run | what is built is closed, what is not is left alone; preferences are this command line's |
| `status` (`status.go`, `describe.go`) | none of its own | `Start` without preferences, `Describe` | runs over the same login as a `run` | stores nothing |
| HTTP CONNECT (`http.go`) | two connections, the server's read buffer, one extra goroutine | dial, hijack, answer, copy both ways, close | half-closes, silent peers, pipelined bytes | two FIFO streams behind one status line; nothing outlives the handler |
| HTTP plain requests (`http.go`) | none | one round trip, header filtering | - | no hop-by-hop header passes |
| SOCKS5 (`socks5.go`) | none | hands connections to go-socks5 | - | - |
| DNS server (`proxy/dns.go`, `tsnode/dns.go`) | a shared read buffer, a goroutine for each query | read, answer within five seconds | the buffer is reused while queries run | each client gets the answer to its own query |
| Dialing (`node.go`, `tsnode/dns.go`) | none | `DialContext`, `LookupIP`, `parseAddrs` | partial lookups, fallback | every address tried in order, fallback only without addresses |
| Upgrade (`upgrade.go`) | the installed files, the image moved aside, a temporary file | ask, download, verify, write each file, report | failures and crashes between files; Windows locks; overlap | files are whole at every moment; what the command answers is true |
| Configuration (`env.go`, `flags.go`, `config.go`) | the process's environment | load two `.env` files, parse, print settings | five sources for each setting, empty and broken ones among them | the strongest source that names a setting wins; what `config` prints is what `run` uses |
| Service (`contrib/tailscale-socks.zsh`, `contrib/platform/*`) | the service manager's | `ts_install`, `ts_up`, `ts_down`, `ts_restart`, `ts_uninstall` | three managers, calls that return before anything has happened, restart policies against exit statuses | what a manager is left with is what the command asked for; only failures restart, and each of them does |
| Shell variables (`contrib/tailscale-socks.zsh`) | the shell's proxy variables | `ts_proxy on`, `off` | stale variables | on reflects the settings, and those are what the node serves |
| Installer (`contrib/install.sh`) | files in the home directory | install | repetition, upgrades in between, stopping half-way | keeps what the user wrote; leaves nothing `upgrade` would not notice |
| Error reports, packaging scripts | none | - | - | - |

How they interact. The service manager or a user starts a process; `run` calls
`tsnode.Start`, which calls tsnet; the servers call back into
`Node.DialContext` and the node's DNS manager; all processes started with one
host name share a state directory; they compete for sockets, which is the only
thing that keeps two runs apart; `upgrade` replaces the file a running service
was started from; service managers react to the exit status `main` chooses;
`ts_proxy` asks `tailscale-socks config` for what a running service read
when it started; the installer and `upgrade` write the same files.

`PROJECT.json` lists the hazards, each at its line, with the properties that
would catch it or the module that is to.

## 2. Modules

| Module | What it models |
|---|---|
| `TailnetSession` | Abstract: what the processes promise about the login they share |
| `ProcessLife` | Abstract: the process as whoever started it sees it, signals and exit status |
| `Lifecycle` | `main.go`, `run.go`, `status.go`, `node.go` up to `Close`, for several processes |
| `MCLifecycle` | Command lines for TLC |
| `Lifecycle_proofs` | Theorems about `Lifecycle` |
| `Service` | the service functions, the three backends and their managers, over `ProcessLife` |
| `Service_proofs` | Theorems about `Service` |
| `Pipe` | Abstract: one direction of a tunnel |
| `Tunnel` | `httpProxy.connect` and its two peers |
| `Tunnel_proofs` | Theorems about `Tunnel` |
| `DnsService` | Abstract: what a UDP DNS server promises its clients |
| `DnsServer` | `ServeDNSUDP` with its buffer, its goroutines and their deadline |
| `DnsServer_proofs` | Theorems about `DnsServer` |
| `Dial` | `DialContext`, `LookupIP`, `lookup` and `parseAddrs`, one call |
| `FrontDoors` | SOCKS5 requests and plain HTTP requests, over `Dial` |
| `FrontDoors_proofs` | Theorems about `Dial` and `FrontDoors` |
| `Upgrade` | `upgrade.go` and the files it replaces |
| `MCUpgrade` | Archives for TLC |
| `Upgrade_proofs` | Theorems about `Upgrade` |
| `Install` | `install.sh`, over `MCUpgrade` |
| `Install_proofs` | Theorems about `Install` with `Upgrade` |
| `Settings` | `env.go`, `flags.go`, `config.go`, the preferences of `node.go` and `exitnode.go`, `ts_proxy` |
| `Settings_proofs` | Theorems about `Settings` |

### Lifecycle

`pc[p]` is the place of the main goroutine of process `p`:

| `pc` | code |
|---|---|
| `boot` | `main.go` up to `signal.NotifyContext`; a signal here kills |
| `check` | the two refusals, `run.go:23-28` |
| `bind` | the `net.Listen` calls, `run.go:35-63` |
| `build`, `join` | `ts.Up`: before and after tsnet has subsystems, `node.go:124` |
| `attach` | `LocalClient`, the DNS manager, `node.go:129-140` |
| `prefs` | `applyPrefs`, `node.go:141-146` (only `run` has preferences to apply) |
| `abort` | `closeStarted` on the way out of a `Start` that failed |
| `hasdns`, `describe` | `run.go:75-82`, `status.go:24-31` |
| `serve`, `select` | `run.go:84-112` |
| `unwind` | the deferred calls, then `main.go:56-64` |
| `off`, `exited` | no process |

`defers[p]` is the set of deferred calls not yet run. `Rank` is the order of
registration, so the next to run is the one of highest rank. A socket is open
(`OpenSockets`) as long as its `Close` is in there and its server has not closed it
before: go-socks5's `Serve` (`socks5.go:22`, called at `run.go:89`) and `http.Server.Serve` (`run.go:98`)
close the listener they were given when they return, hence before their error is
sent (`GaveUp`); the DNS servers do not. `node[p]` says how much of tsnet exists
(`nilpanic` stands for `tsnet.Server.Close` on a server without subsystems),
`live[p]` the preferences it runs with, `saved` those in the shared state
directory. `srv[p]` holds the server goroutines and `errc[p]` the number of
errors in the channel. `ApplyPrefsFails` may have stored the preferences: the
answer can be lost after the request was carried out. A second signal changes
nothing because `NotifyContext` keeps swallowing signals.

Abstracted: two addresses of `Addr` never overlap (no wildcard and no port 0); the
preferences are one value, whose fields are in `Settings`; kong's parse errors,
which end the program before `boot` is over, are `ParseFails`; the four `go` statements are one step, since a
goroutine that has not started yet only fails later; the process-wide effects
of an `End` (sockets, goroutines, node) come at once, as the kernel's clean-up
does for anybody who looks at the socket.

`Session` instantiates `TailnetSession`: a process is out while it has no live
node, open while a server goroutine exists beside a live node, joined
otherwise; `claim` is the set of listeners a `run` holds; `status` claims none,
and so can never store preferences or open to clients. A process stays open until
its node is closed, since nobody stops the other servers before; a SOCKS5 or HTTP
server that fails gives its listener up earlier (`Yield`).

`ProcessOf(p)` instantiates `ProcessLife` for each process: `boot` is its
phase of that name, every other place of the main goroutine of a `run` is `main`,
a `status`, which no manager starts, is `off`,
`signalled` is `asked` and the exit status is its own.

### Service

The process is `ProcessLife`, which `Lifecycle` implements: a service manager
sees when it can be asked to stop and how it ended, and nothing else. A command is
the sequence `todo` of the calls its functions make of the manager
(`tailscale-socks.zsh:101-129` over `_ts_start`, `_ts_stop`, `_ts_write_service`
and `_ts_remove_service` of each backend); any call may fail, with the
`|| return 1` behind it or, where nobody looks at the result, without. Users
give one command at a time and may interrupt it. `job` is what the manager has
of the service: `idle`; `due`, to be started when its interval is over;
`active`; `stopping`, systemd's; `leaving`, booted out and not gone yet; `lost`, a task
whose wrapper is ended and whose node may not be. `goal` is what the last command that returned
0 has promised.

What the managers do is not in this repository. It is modelled from what the
backends write and rely on: `KeepAlive / SuccessfulExit = false`,
`Restart=on-failure` and `RestartCount` say which ends are followed by a start (`AfterEnd`);
`launchctl kill`, `kickstart` and `bootout` return at once; `systemctl stop` and
`disable --now` wait; `Stop-ScheduledTask` ends the wrapper and perhaps the
node (`windows.zsh:66-69`); `Stop-Process` takes the first process of the binary's
image name (`windows.zsh:74-81`). systemd's start limit is out of reach with
`RestartSec=10`.
### Tunnel

`pc` is the handler's place in `connect` (`http.go:64-98`), `copier` the
goroutine of lines 94-96. Each direction is a chain of buffers: what the sender
has written and nobody read, what a copy has read and not written, what has
been written and not read; client to upstream has `buf` in addition, the bytes
net/http took into its reader before the hijack. A peer is `open`, has ended
its half (`fin`) or is gone (`closed`). A write to a peer that is gone may be
accepted and lost, or fail. One read moves one byte; `io.Copy` moves several,
which is several steps here. `Init` starts with any number of pipelined bytes
already read. The dial's context is part of a dial that fails. Not modelled: that
closing a connection with unread data resets it and may cost the peer data
under way in the other direction.

### DnsServer

`loop`, `buf` and `from` are the reading goroutine of `proxy/dns.go:20-44`; each
element of `Worker` is a goroutine it started, with the copy of the query in
`query` and what the resolver was handed in `question`, so that a worker that
looked into the shared buffer would be seen. `Oversized` queries are cut by the
buffer. `Expire` is the timer of `context.WithTimeout`, which may fire in the same
moment as the answer comes. `Send` stands for a client and for a network that
duplicates, `net` is unordered. `Close` and `Cancel` are the main goroutine's
and come at any time, because another server's error ends the run too.
`received` and `replied` are history. A TCP connection is handed to tsnet whole
and is not in this module. The number of goroutines at one time is unbounded in
the code and `Worker` here.

`DnsServer` implements `DnsService` with `asked <- received` and
`answered <- replied`: at most one reply for each datagram read, to its sender.

### Dial

One call of `DialContext` (`node.go:195-220`) with everything under it in
`tsnode/dns.go:40-121`. An answer is a sequence of records: an address with its
type, one to pass over, or one at which the parser fails. A response code other
than success, a broken header or question, a name that does not pack and a
resolver's error are one thing, `QueryFails`. A dial with a context that is over
is a dial that fails. `Candidates` and `Plan` are the reference: written over
whole answers, from `docs/proxies.md:72-78`, by the rank an address has among the
addresses of its answer, where the actions go record by record.

### FrontDoors

The callers of `DialContext`: `Pass` is a SOCKS5 request, whose name
`passthroughResolver` leaves alone, or another caller (the `other` door keeps
`Dial`'s own inputs, an address without a port among them); `Refuse`, `Prepare`,
`RoundTrip`, `RoundTripFails` and `Relay` are `ServeHTTP`. A message is its set
of fields and its `Connection` lines, each the set of names it lists; spelling
and white space are left out. `http.Transport` may take a connection from its
pool instead of dialing, and may fail afterwards. What it adds and removes
itself (`Accept-Encoding`, decompression) is not part of the proxy's code.

### Upgrade

Content is a version, `Torn` (half a file, or a wrong download) or `Absent`.
The walk over the archive is `todo`, its members in order; `want` are the files
not written yet, and `writeFile` is `CreateTemp`, `Fill`, on Windows
`RemoveOld` and `MoveAside`, and `Replace`. `image[u]` and `service` say where
the executable of an upgrade and of a service are: on Windows they lock it.
`MoveAside` takes the images with it, as a rename does. `Fail` is any call
failing, `Crash` a kill at any step. `release` fixes for each version in which
order its archive carries the members; `.goreleaser.yaml` makes the binary the
last, which nothing in `upgrade.go` asks for. `Shipped` are the files
`install.sh` puts in place: the settings template is not one of them, so it is
absent until the first upgrade. GitHub's latest version never
goes down. The two zsh files are treated alike and are one file.

### Install

`step` is what `install.sh` writes next: the binary, the helpers, the user's
`.env`, the lines of `.zshrc`; it may stop at each (`InstallStops`) and be run
again. It takes the latest release when it starts (`archive`) and an upgrade of
`Upgrade` may run beside it, over the same `disk`. `past` is history: `cut` once an
install has stopped behind the binary, `overlap` once two of them ran at one time,
which nothing locks. `Install` is about Unix: on Windows `mv -f` may fail on a running
executable, which `Upgrade` models for upgrades only.

### Settings

`file` are the two `.env` files, `shell` the shell's environment, and `LoadDotEnvs`
and `Parse` give each setting its value as `env.go` and kong do, by putting into
the environment what is not there yet. `Sources`, `Says` and `Named` are the reference:
the five sources by rank, and the first that names the setting. A run is `by` a
service, a shell or flags; `since` and `proxyAt` say after which edit it, and the
shell's variables, have read their sources.

## 3. Runs

| Run | Instance | Checks |
|---|---|---|
| `lifecycle_one` | 1 process, 5 kinds of settings, 2 launches, `FairSpec`; 6 thousand states | `TypeOK`, `ServedAsAsked`, `CleanExitWasAsked`, `NoServerBlocked`, `LeavesTailnet`, `RefinesProcess`, `SignalEnds`, `ServerErrorEnds` |
| `lifecycle_rivals` | 2 processes, 3 kinds of settings that pairwise share or do not share a listener, 2 launches, symmetric in the processes; 468 thousand states | `OneLogin`, `HoldsListenersWhileJoined`, `LifecycleInv`, `RefinesSession` |
| `tunnel` | 2 bytes each way, sockets of 1 byte, `FairSpec`; 17 thousand states | `AnswerComesFirst`, `UpstreamHeardToTheEnd`, `UpIsPipe`, `DownIsPipe`, `HandlerTakesAllDown`, `UpstreamCloseEndsBoth` |
| `tunnel_leak` | 1 byte each way | violation of `ClientCloseEndsBoth` |
| `dns` | 2 clients, 2 queries, one too long, 2 datagrams, 2 workers, `FairSpec`; 26 thousand states | `TypeOK`, `RepliesWereAsked`, `DnsInv`, `RefinesService`, `WorkersEnd`, `CloseEndsAll` |
| `front_doors` | 2 addresses, every two answers of up to 2 records, messages of 2 fields and up to 2 `Connection` lines; 88 thousand states | `DialsByThePlan`, `FailsOnlyAfterAll`, `ForwardsEndToEnd` |
| `install` | 1 upgrader with 3 starts, 2 installs, 3 versions, archives with the binary last, one with a duplicate and one without the binary; 1.4 million states | `FilesWhole`, `SuccessIsComplete`, `LatestMeansPrograms`, `KeepsTheUsers` |
| `upgrade_windows` | 2 upgraders, 3 starts, Windows, a service that starts and stops; 1.7 million states | `TypeOK`, `BinaryNotLost`, `UpgradeInv` |
| `service` | the three backends, 4 commands or logins, 2 failures, `FairSpec`; 6 thousand states | `GoalKept`, `OnlyFailuresRestart`, `StartedAgain` |
| `service_launchd_restart` | launchd | violation of `UpStaysUp` |
| `service_launchd_down` | launchd | violation of `DownStaysDown` |
| `settings` | 2 files, a shell, flags, 2 edits, 2 runs; 774 thousand states | `StoredAsAsked`, `ProxyReachesNode`, `ProxyAsConfigured` |

Bounds. `MaxLaunches = 2` gives one process a life after another life, whose
preferences and exits are still there, and gives two processes one life each at
the same time; a third life meets nothing but what the second met, since a life
leaves only `saved` behind. Two processes are enough for what the rivals
share: `OneLogin`, `SocketsExclusive` and `TailnetSession` speak of pairs, and
the proofs are for any number. Four servers is the code's own number. Sockets
of one byte make every write block; two bytes are what it takes to lose, swap
or repeat one; N and M are bounded because the peers, not the code, decide them.
Three starts over three versions allow an upgrade to stop, another to stop at
another file under a newer release, and one to answer; two installs let one stop and
one complete it, or one come between two upgrades.
In `Install` the first two releases carry the same members, which leaves two
kinds of archives to meet. Four commands are an install, two that change what it did,
and a login; two failures let a process fail on its way out and once more. Two edits and two runs
put one edit between a start and `ts_proxy`, or under a run that another follows;
one peer is enough because a second would only be another value.

Two datagrams and two workers are what a mix-up takes: one worker slow, one
datagram after it. Answers of two records
put a broken record before, behind and instead of an address.

Deadlock is not checked: a bounded number of launches or starts ends every
behaviour, a dial returns, commands and edits are bounded, and a tunnel ends, or waits
for silent peers.

Fairness. `Lifecycle!FairSpec`: the main goroutine goes on when it can
(Go's scheduler), `tsnet`'s `Close`, local API calls and `Up` with a cancelled
context return, and a goroutine that has room in `errc` sends. Nothing is
assumed of a login, of signals or of socket failures: `JoinUp`, `JoinFails`,
`Signal` and `ServerFails` are under no fairness. `Tunnel!FairSpec`: the handler
and the copier run and a dial returns; peers may stay silent for ever.
`DnsServer!FairSpec`: goroutines run, timers fire, tsnet's resolver returns when its
context is over, and a read from a closed socket fails; a resolver need not
answer in time. `Service!FairSpec`: a manager answers its calls and starts what is due, a
process gets through its start-up or ends, and one that was asked to stop ends (`SignalEnds`);
it need not fail, and no command need be given. `StartedAgain` says of each failure that a
process follows it, so that `MaxFailures` bounds the runs and not the claim; that this process
serves is not claimed, since settings that are refused and a login that never comes
may keep it from that each time. `UpstreamCloseEndsBoth` carries its one further assumption itself: a client
that is still there reads.

## 4. Disagreements between the code and its documentation

| Run | What TLC shows | What is said |
|---|---|---|
| `tunnel_leak` | The client is gone, the upstream is silent: nobody closes `upstream`, the copy upstream to client stays in its read, and with it handler, goroutine and connection | `http.go:94`: "Both copies end when either side closes" |
| `service_launchd_restart` | `launchctl kill TERM` returns while the node is still closing, `kickstart` finds the service running and does nothing, the node exits 0 and stays down; `ts_restart` has printed "started" | `docs/service.md:14`: "`ts_restart` | stop, start", `:22` |
| `service_launchd_down` | `ts_down` sends its TERM to a process that has not reached `main.go:46`: the signal kills it, which is no successful exit, and launchd starts it again after `ts_down` has returned 0 | `docs/service.md:32`: "Only a crash restarts the node — `ts_down` stays down"; `darwin.zsh:39`: "A clean exit (SIGTERM from ts_down) stays down" |

Read, and without a run:

- `install.sh` writes binary and helpers and never the template, and `upgrade` compares only
  the binary's version: right after an install it answers "already the latest"
  (`upgrade.go:81`), and the template is not there, where `docs/configuration.md:36-39` has
  it replace "this executable, the zsh helpers ... and the settings template".
  `LatestMeansPrograms` claims binary and helpers only.
- With an archive that carries the binary before a helper, an upgrade that stops
  between them is never completed (`upgrade.go:81` against `README.md:57`).
  GoReleaser's order keeps it from happening today, and `install` assumes that order.
- On Windows there is a moment without the executable, and a failed second rename
  (`upgrade.go:351`) is not undone, against "atomically" in `upgrade.go:315`; and a service that
  started before the first upgrade still runs from `.old`, so that the next can
  neither remove it nor rename onto it, against `upgrade.go:318`. `BinaryNotLost` is
  what holds instead.
- A SOCKS5 or HTTP server that fails has closed its listener while the node is still up.
  Until the run has read the error and `node.Close` is through, another run can bind
  that listener and join with the same login, against the purpose of `run.go:30-32`
  and "one login cannot back two nodes" (`docs/service.md:53`). `OneLogin` and
  `HoldsListenersWhileJoined` name this gap, and hold with it; without it TLC finds both
  violated in `lifecycle_rivals`.
- macOS: a `ts_down` at the moment a server fails is followed by a restart too, since the
  run may exit 1 (`run.go:106-112`; `OnlyFailuresRestart` allows this and the finding above),
  and one that comes while a restart is due fails without cancelling it.
- macOS: `launchctl bootstrap` behind a `bootout` that has not finished fails, so that
  `ts_install` over a running service may return 1 and leave none.
- Linux: `ts_install` over a running service leaves the old process with the
  old binary, because `systemctl start` has nothing to do.
- Windows: `ts_down` kills the first process with the binary's image name, which
  may be another one (`windows.zsh:72-80`).
- `ts_proxy on` with every listener disabled returns before it clears anything
  (`tailscale-socks.zsh:183` before `:187`).
- `docs/proxies.md:59` gives each DNS query five seconds; the code sets them for
  UDP only (`proxy/dns.go:30`), a TCP connection goes to tsnet with no deadline of
  this program (`proxy/dns.go:55`).

## 5. Proofs

`tlapm` checks eight modules: `Lifecycle_proofs`, `Service_proofs`, `Tunnel_proofs`,
`DnsServer_proofs`, `FrontDoors_proofs`, `Upgrade_proofs`, `Install_proofs` and
`Settings_proofs`. The theorems hold for every value of the constants that satisfies the
assumptions of the module:

| Assumption | Says |
|---|---|
| `LifecycleAssumption`, `ServiceAssumption`, `UpgradeAssumption`, `DialAssumption`, `FrontDoorsAssumption` | the types of the constants |
| `TunnelAssumption` | the same; a socket takes at least one byte |
| `DnsAssumption` | the same; the workers at one time are finitely many |
| `InstallAssumption` | `install.sh` knows the files it writes by name, binary and helpers |
| `SettingsAssumption` | no peer goes by the name `auto` or the empty one, which mean something else to `exitnode.go:24-31` |

In particular they hold for any number of processes, addresses, settings, commands, failures, bytes,
datagrams, workers, records, headers, releases, edits and runs, and however large
a bound such as `MaxLaunches` or `MaxRecords` is.

| Theorem | States |
|---|---|
| `TypeCorrect`, `DnsTypeCorrect`, `UpgradeTypeCorrect` | `TypeOK` of each module |
| `InvHolds` | `LifecycleInv`, inductive together with `TypeOK` |
| `OneLoginHolds` | two runs that want a common listener are on the tailnet together only while the one that has lost it to a failed server leaves |
| `HoldsListenersHolds` | while a run is on the tailnet it holds all its sockets, or is leaving because a server failed and closed one |
| `ServedAsAskedHolds` | whatever is served goes over a node with this command line's preferences |
| `CleanExitHolds` | a run exits 0 only after a signal |
| `LeavesTailnetHolds` | a process that ends by itself has closed its node, and never one that was not built |
| `ProcessRefined` | every process implements `ProcessLife` |
| `SessionRefined` | the processes together implement `TailnetSession` |
| `NoServerBlockedHolds` | a server with an error to report finds room in `errc` |
| `ServiceInvHolds` | `TypeOK` and `ServiceInv` of `Service`, inductive together |
| `GoalKeptHolds` | systemd: a started service runs or is due, a stopped one has no process and none due; launchd: a started one is lost only to a stop it was asked for; the Task Scheduler is left out |
| `OnlyFailuresRestartHolds` | after a `ts_down` only a failed or killed process comes back, on systemd none |
| `DnsInvHolds` | `DnsInv`, inductive together with `DnsTypeCorrect` |
| `RepliesWereAskedHolds` | nobody gets a reply to what they did not ask |
| `ServiceRefined` | the DNS server implements `DnsService`: one reply at most for each datagram read |
| `UpgradeInvHolds` | `UpgradeInv`, inductive together with `UpgradeTypeCorrect` |
| `BinaryNotLostHolds` | the binary is in its place, or whole beside it |
| `FilesWholeHolds` | unless on Windows, every installed file is whole, the template from the first upgrade on |
| `TunnelTypeCorrect`, `TunnelInvHolds` | `TypeOK` and `TunnelInv` of `Tunnel`, inductive together |
| `AnswerFirst` | the client sees 200 before any byte of the upstream |
| `HeardToTheEnd` | when the handler gives up on a client that is there, all an orderly upstream wrote has been handed on |
| `UpRefinesPipe`, `DownRefinesPipe` | each direction of a tunnel implements `Pipe` |
| `DoorsInvHolds` | `DoorsInv` and with it `DialInv`, inductive |
| `DialsByThePlanHolds` | what is dialed is a beginning of the reference plan |
| `FailsOnlyAfterAllHolds` | a dial that fails has tried the whole plan |
| `ForwardsEndToEndHolds` | no door loses or changes a message but for its hop-by-hop headers, and those do not pass |
| `ParsedIsNamed` | what the program parses is what the strongest source of each setting says |
| `SettingsTypeCorrect`, `SettingsInvHolds` | `TypeOK` and `SettingsInv` of `Settings`, inductive together |
| `StoredIsAsked` | the stored preferences are those of the last run that got that far |
| `ProxyReaches` | without an edit in between, the shell's variables name what the node serves |
| `ProxyConfigured` | `ts_proxy on` leaves a variable for every listener that is enabled, and no other |
| `InstallInvHolds` | `InstallInv`, inductive, unless on Windows |
| `InstalledFilesWhole` | unless on Windows, files are whole beside installs too |
| `SuccessIsCompleteHolds` | unless on Windows, an upgrade that reports success, and had nothing beside it, replaced every file |
| `ProgramsInvHolds`, `LatestMeansProgramsHolds` | unless on Windows, and with `BinaryBehind`: "already the latest" is true of binary and helpers |
| `KeepsTheUsersHolds` | the installer leaves a user's `.env` and source lines as they are |

Each inductive invariant and each `TypeOK` was an invariant of a TLC run before it was proved.
Two hypotheses are stated in the theorems and not as assumptions. `~Windows`: there
the executable is moved aside, between the two renames no file is at its place, and
the locks of a running image that `install.sh` would meet are not in `Install`. `BinaryBehind`: every release that has the binary has
everything else that is in `Shipped` in front of it, which is how
`.goreleaser.yaml` packs them (the binary behind the listed files) and what TLC's
`BinaryLast` satisfies. Without it the theorem is false, as section 4 says.

The argument for `OneLogin`. It says nothing about sockets, so it is not
inductive. `LifecycleInv` adds what links the two: `SocketPlace` (from
`tsnode.Start` on, the `Close` of every socket a run was asked for is deferred, as
long as `node.Close` is, because that call was registered last and runs first),
`NodePlace` (a node is live only there), and `SocketsExclusive` (two processes never
hold one socket open, by `Bind`). Of two live rivals one has then lost the common
socket, which only a failed server of its own closes before the deferred call
(`Holding`); and a run with such a server is leaving: the error is about to be sent,
is in `errc` (`ErrcPlace`), or has been read. `ServingPlace` carries the refusals of
`run.go:23-28` and the outcome of `applyPrefs` and `HasDNS` along to the
servers, `ResultPlace` the reason for a result to the exit status. The proof has
lemmas for the acting process, one step per action (`MainStepPlace`,
`OtherStepPlace`), for the others, whose part of the state an action leaves alone
(`StepSame`, `SamePlace`), and for the sockets (`StepExclusive`).
`NodeClosesFirst` is where the order of the deferred calls enters.

The argument for `ProcessRefined`. A step of another process leaves this one's
phase alone; of its own, those that stay inside the main goroutine are
stutters (`InsideMain`), an end maps to `Exit` or `Kill` (`EndOfLife`), and that an exit
status of zero was asked for is `ResultPlace` of `LifecycleInv`.

The argument for `SessionRefined`. `SessionStep` reduces a step to the acting
process. `Build` maps to `Join` (`BuildJoins`): it claims the sockets it holds, every run
that is in claims those it still holds, and `SocketsExclusive` keeps them apart.
The failure of a SOCKS5 or HTTP server under a live node maps to `Yield`. `ApplyPrefs`, and `ApplyPrefsFails` when the answer was lost,
map to `StorePrefs`, `Serve` to `Open`, whatever takes a live node away to `Leave`
(`SessionLeave`), the rest to stutters (`SessionQuiet`).

The argument for `NoServerBlocked`. An error in the channel is that of a server that
is done (`ErrcCounts`), and while one of the four is still to send at most three are.

The argument for `GoalKept` and `OnlyFailuresRestart`. Neither mentions the calls a
command has still to make, and without them neither is inductive. `ServiceInv` adds
`CommandPlace`: only the calls of the manager at hand are made, a command that
starts the service does so last, and a goal is set when no call is left. On systemd the manager
knows of every process and has asked one to stop only where `systemctl stop` waits
for it (`SystemdPlace`); launchd knows of every process too, but what a start achieved may be
lost to a process that was asked to stop before and exits 0 (`LaunchdPlace`), which
is the finding `service_launchd_restart`. Of the Task Scheduler, whose restarts run out
and whose stop may miss the node, `GoalKept` says nothing. `DuePlace` says why a start that is due after
a `ts_down` is due. The proof has a lemma for each call (`BootoutKeeps` and so on)
over what a call that returned 0 leaves of the command (`ProceedPlace`).

The argument for `RepliesWereAsked`. A reply joins two fields of a worker, its
client and what the resolver was asked; the invariant says of every place such a
pair passes through, the buffer and its sender, the worker's copy and its
client, the question and the client, that it was read from the socket as a
pair (`DnsPlace`), and nothing that was read is forgotten (`StillHolds`). For
`RefinesService` they are counted: replies, workers and the full buffer never
exceed what was read of an exchange (`DnsCount`), so that a worker about to reply has a
datagram nobody has answered.

The argument for `BinaryNotLost`. The danger is `RemoveOld` by an upgrade other
than the one that moved the binary aside. While the place is empty, every
upgrade under way has an image, and that image is not `bin`: it is `old`, which
Windows keeps from being removed. `WritePlace` says so.

The argument for `UpIsPipe` and `DownIsPipe`. `Pipe` knows only what went in and what came
out; the invariant is about every buffer between. Each of them holds a stretch of
consecutive numbers (`Run`) that ends where the next one begins (`UpInv`,
`DownInv`), so that taking from one and putting into the next is a matter of
lengths, and together they make up all that was sent as long as the receiver is there.
Downwards the status line is the number 0 of the stretch: that `clHand` is filled
only after `Answer` has written it is `AnswerFirst`. `HandlerInv` says what the handler
leaves behind: it goes on from the copy only with nothing left to copy or an end gone,
which gives `HeardToTheEnd`. `UpStep`, `DownStep` and `HandlerInvStep` have one step per action.

The argument for `DialsByThePlan`. The actions see one record at a time, the plan the
whole answers. `DialInv` says at each place how much of the plan is known: while an answer
is parsed, `got` is the addresses among the records passed so far (`Among`, a sequence
whose next element is found by `AmongStep`), and while addresses are dialed the candidates
are those tried and those left. `ForwardsEndToEnd` needs what the loop over the
`Connection` lines computes (`DeleteNamed`, a fold): `NoLineNames` shows that it is what no line
names, for lines in any number. The fold is a recursive function on the sets of
lines that are left; the closed form satisfies the same recursion, and if the two
differed there would be a least set of lines on which they do, by `WFMin` over
the strict subsets, which the recursion excludes.

The argument for the settings. `ParsedIsNamed` compares the way the program goes, two files into the environment
and the environment under the flags, with the first of five sources that names a
setting; a broken file names none. `SettingsInv` carries it over time: a run keeps what its
sources said when it started (`RunInv`, `FreshRun`), the stored preferences are those of the
last run, in both forms an exit node can have before and after tsnet has
found it (`StoredInv`), and the shell's variables are what `config` printed
(`FreshProxy`). `ProxyReaches` joins the last two: as long as nothing was edited both read the same sources.

The argument for `SuccessIsComplete`. `Written`: an upgrade that has its download has
written every file it no longer wants. Another one could undo that, so it is kept only
as long as none was beside it, and `Alone` says when that is: more than
one upgrade or install under way is an `overlap` that `past` remembers.

The argument for `LatestMeansPrograms`. The command reads only the binary's version, so the
binary must never be newer than another program. `Ordered` says so, with the one
exception of an install between binary and helpers, whose stopping `past` remembers as `cut`.
An upgrade keeps it because the helpers are written first: in `todo`, the members still to
come, those it still wants are in front of the binary (`Behind`), an invariant of
the walk that skips and writes members one after another.

### Only model-checked

Every invariant and every action property of a passing run, refinements included, is
a theorem. What stays with TLC is liveness: `SignalEnds`, `ServerErrorEnds`,
`HandlerTakesAllDown`, `UpstreamCloseEndsBoth`, `WorkersEnd`, `CloseEndsAll` and
`StartedAgain`. They need fairness and ENABLED, about which TLAPS proves nothing.
`TypeOK`, `UpgradeInv` and `BinaryNotLost` are proved for Windows as well; `SuccessIsComplete`
and `LatestMeansPrograms` are neither proved nor checked there. No module uses RECURSIVE operators.

About the provers: the Zenon of TLAPS 1.4.5 accepts some goals of the form
`A \subseteq B \cap C` that do not hold. No leaf that Zenon closes has such a goal.

## 6. Not modelled

- The protocols of go-socks5, tsnet and net/http beyond what the code in `src/`
  relies on, and the service managers beyond what the backends write.
- What only prints or formats: the wording of messages, help pages (`flags.go:117-175`),
  the `status` summary (`describe.go`), `ts_status`, `ts_logs`, error reports (`errors.go`), completion.
- `next-version.sh` and the release configuration: build tooling. The order of an
  archive's members is `Archives`.
- The choice of archive, directories and names in `install.sh` and `upgrade.go`, which
  depends on the platform alone.

## 7. Plan

The components that keep state are modelled, and what the runs check is proved but
for liveness. Left:

1. As proofs: the safety half of the liveness properties, that is, for each of them a
   measure of the work left that no step under fairness raises; and `LatestMeansPrograms`
   without `~Windows`, with the image moved aside counted as the binary.
2. As models: two installers at once, and `Service` with `Lifecycle` in the
   place of `ProcessLife`.
