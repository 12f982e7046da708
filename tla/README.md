# nomctl: specifications, model checking and proofs

nomctl manages a Zenon node on a Linux host and, optionally, reports its state
to a relay that forwards alerts to a Telegram chat. This directory holds TLA+
models of that code, TLC runs over small instances of them, and TLAPS proofs.
Paths below are relative to the repository's `src/`.

## 1. Inventory

### 1.1 Alerting

| part | state it keeps | operations | what is hard |
|---|---|---|---|
| daemon `internal/alerts/daemon.go` | per rule: firing, acked, last sent, detail; `evaluated`, `Unpaired`; sample history. All in memory | `Step` (sample, evaluate, send, heartbeat), reload, restart | a send can fail, be lost or be answered late; memory dies with the process; reload between steps |
| rules `internal/alerts/rules.go` | none (pure over the history) | `Evaluate` of each rule, `trimHistory` | windows, counters that reset, unknown values |
| client `internal/alerts/client.go` | credentials | `Pair`, `Alert`, `Heartbeat`, `Unpair` | 15 s timeout against a 30 s handler; which 401 means "unpaired" |
| setup `cmd/alerts.go`, `config.go`, `unit.go` | `alerts.json`, the systemd unit | setup, unpair, enable/disable, set | pair, save and install are three steps; read-modify-write without a lock |
| relay server `internal/relay/server.go` | in memory: rate windows, suppressed counts; in the store: all else | `handlePair`, `authed`, `handleAlert`, `handleHeartbeat`, `handleUnpair`, `deliver`, `CheckSilent` | one goroutine per request and a ticker, all over an unlocked read-decide-send-write sequence; whole-row `UpdateNode` from a snapshot |
| store `internal/relay/sqlite.go`, `store.go` | codes, nodes, mutes, last_sent | one statement each, no transactions | composites (`CreateCode`, `ConsumeCode`, `DeleteNode`) are several statements |
| Telegram `internal/relay/telegram.go` | none | `Send`, `Updates` | a transport error after the message was taken; retries with back-off |
| commands `internal/relay/commands.go`, `cmd/nomctl-relay` | update offset, in memory | `/start`, `/nodes`, `/mute`, `/unmute`, `/unpair` | an update is retried up to three times and replayed after a restart |

The daemon posts alerts and heartbeats over HTTP; the relay answers 204 or an
error; the chat reads messages and writes commands. Daemon and relay share no
state: each keeps its own memory of what was reported, and each its own
ten-minute reminder clock. **Correct** means: what one side holds as reported
was told, a lasting truth is told in the end, and a recovery follows a firing.

### 1.2 Host operations

`backup`, `restore`, `bootstrap`, `resync`, `orchestrator` (hard reset) and
`deploy` stop the `go-zenon` service, change its data folders or binary and
start it again. They take the `flock` of `internal/lock`; `start`, `stop`,
`upgrade` and `alerts` do not. Every step of each can fail or be interrupted.
**Correct** means: the data folders are one consistent set (never half old, half
new), what was moved aside comes back on failure, a published archive always
has its hash, pruning keeps the newest, and the service runs afterwards exactly
when the operation says so. `walletbackup`, `producer`, `nodeconfig` and
`update` have the same shape over the wallet, the node's config file and
nomctl's own binary.

### 1.3 The rest

`analytics install` puts node_exporter, Prometheus and Grafana on the host in some
twenty steps over files, packages, systemd and Grafana's own database. Each step
looks at what is there first. **Correct** means: a run that reports success leaves
the stack complete and running as configured, whatever happened to earlier runs.

Metrics, the RPC client, preflight, the support bundle, the TUI and the
logging/exec helpers read, format or run external commands. They hold no
protocol state; PROJECT.json gives the reason for each.

## 2. Modules

| module | models | state | composed by | proofs |
|---|---|---|---|---|
| `AlertWire`, `NodeDaemon`, `RelayDelivery`, `AlertPipeline` | an alert's way from rule to chat | section 3 | `AlertPipeline` (daemon and relay), `MCAlertPipeline` | `AlertPipeline_proofs` |
| `AlertChannel` | what that promises | | refined by `AlertPipeline` | `AlertPipeline_proofs` |
| `RelayNodes` | the node's row at the relay | section 4 | | `RelayNodes_proofs` |
| `NodeHost`, `DataOperations` | backup, restore, bootstrap, resync, deploy | section 5 | `DataOperations` | `DataOperations_proofs` |
| `NodePairing` | pairing, the daemon's installation and configuration | section 6 | `MCAlertParts` | `NodePairing_proofs` |
| `RelayLimits` | the relay's rate limiter | section 7 | `MCAlertParts` | `AlertParts_proofs` |
| `NodeFiles`, `ConfigDocument` | key files, `config.json`, their archives; the document itself | section 8 | `MCHostParts` | `NodeFiles_proofs`, `MCHostParts_proofs` (`ConfigDocument`) |
| `SelfUpgrade`, `UpdateCheck` | nomctl's own binary; the cache of what is new | section 9 | `MCHostParts` | `HostParts_proofs` |
| `AlertRules`, `NodeProbe` | the rules over a history of samples; the root probe | section 10 | `MCHostParts`, `MCAlertParts` | `HostParts_proofs`, `AlertParts_proofs` (`NodeProbe`) |
| `BackupTimer` | the timer, the cadence, `backup_stale` | section 11 | `MCHostParts` | `HostParts_proofs` |
| `AnalyticsInstall` | the installer of the analytics stack | section 12 | `MCHostParts` | `HostParts_proofs` |

The modules of sections 6 to 12 share no state with each other. `MCAlertParts` and
`MCHostParts` put them beside one another for one run of TLC each: a behaviour
follows one component (`focus`) and leaves the others as they start. This is a
sum of their behaviours, not a product: nothing of one part is hidden, and no
interleaving between parts is missing, as they have none. Symmetry of processes,
keys, hosts, codes and ids is used; no `CHOOSE` ranges over them and no liveness
property is checked there.

## 3. The alert pipeline

### 3.1 Modules

| module | models |
|---|---|
| `AlertWire` | the vocabulary both sides share: alerts, states, reports, ages |
| `NodeDaemon` | `daemon.go`: one action per part of a step between which something else can happen |
| `RelayDelivery` | `server.go` `authed`/`deliver`/`notify`, with store and Telegram, for one node |
| `AlertPipeline` | both, joined by requests that can be lost, late or unanswered; properties |
| `AlertChannel` | what the pipeline promises, abstractly |
| `MCAlertPipeline` | the symmetry of handlers for TLC |
| `AlertPipeline_proofs` | theorems under every fault, then those while no client gives up on its handler |

**Daemon.** `rule[a]` is `AlertState` (`known` is membership in the map, `age`
the time from `LastSent` to this step's `now`). `StepBegin` samples
(`result'`, one arbitrary result per rule) and either takes the baseline and
posts "started" or fills `todo`; `Evaluate(a)` is one turn of `evaluate`'s loop
up to the POST; `SendReturns` is what follows it. The daemon is a single
goroutine, so `Evaluate` waits while a call is out. The order of rules in
`todo` is left open. `HeartbeatRefused` is the one outcome of the heartbeat
that matters here. `Restart` forgets everything, as the state file is never
read back by the daemon.

**Relay.** A handler (one of `Slots`) walks `lookup → mute → send → record →
answer`, the five points of `deliver` between which another handler can run.
`Suppressed` is the switch of `deliver`; `Tell` is what the chat hears, or is
spared by a mute; `SendFailed` stands for a blocked chat, the chat limit, an API
error or the deadline; `SendUnsure` for a transport error after Telegram took
the message (`telegram.go` does not retry a send). `word`, `heard` and `told`
are history variables: the last word, the last firing detail, every word.

**Between them.** `call.at` is where the outstanding request is: on the wire or
held by a handler. `Abandon` is the client's 15 s timeout: the handler goes on,
as `handleAlert` uses `context.WithoutCancel`. `CONSTANT Faults` names the
events of the environment a run allows.

**Time.** Ages saturate at `Reminder`, since the code only asks whether an
interval has reached it. `Tick` advances every age.

### 3.2 Properties and runs

| run | faults and bounds | shows |
|---|---|---|
| `PipelineSafety` | 1 alert, 2 handlers, `Reminder` 2, all 12 faults; 4.7 M states | `TypeOK`, `RecordedWasTold`, `RecoveryNeedsFiring`, `AckedFiringWasTold`, `UnpairedOnlyByRelay` |
| `PipelineChannel` | 1 alert, 1 handler, lost requests and replies, mutes, refusals, store read errors | `AckedMeansHeard`, `NoRepeatedRecovery`; the pipeline implements `AlertChannel`, liveness included |
| `PipelineFiring` | 1 alert, 2 handlers, abandoned, unsure and unrecorded sends | `FiringHeard` |
| `RecoveryOvertaken` | 2 handlers, abandoned calls | `RecoveryHeard` violated |

Two handlers are enough for every pairwise overtaking of one alert's requests
(the daemon never has two calls out, so more handlers only add abandoned ones);
alerts do not interact except through the daemon's single call, and the theorems
hold for any number of them. `Reminder` 2 distinguishes "just now", "not yet due"
and "due".

The stronger `AckedMeansHeard` needs handlers that are not abandoned: with overlap
it fails, which is what `RecoveryOvertaken` shows as a liveness violation.

### 3.3 Fairness

`Fairness` assumes the daemon's ticker, the relay's handlers and the clock keep
running (weak fairness), and that an alert's requests, sends, records and
answers succeed infinitely often if they are tried infinitely often (strong
fairness of the good outcomes: the network and Telegram recover). The code
supplies the retries; nothing is assumed of users or faults. Strong fairness is
stated over all slots of an alert rather than per slot, as any handler will do.

### 3.4 Proofs

`AlertPipeline_proofs` proves for every set of alerts, details and handlers,
every reminder interval and every set of faults, under `WireAssumption` and
`PipelineAssumption`, that `TypeOK`, `RecordedWasTold`, `RecoveryNeedsFiring`,
`AckedFiringWasTold` and `UnpairedOnlyByRelay` are invariants of `Spec`.

None is inductive alone. `DeliveryInv` adds: `CallInv` (a call held by a handler
is that handler's request, and says what its rule says until it returns: this
carries the meaning of a 2xx back to the rule), `HandlerInv` (what `deliver` may
rely on at each point: at `record` the state was told; a recovery past `lookup`
means a firing was told; a ready "ok" for a firing means one was told), and
`RecordInv` (a record implies a firing was told). `HandlerPaths` lists the moves
of a handler, `Monotone` that words are never untold and a removed node stays
removed; each conjunct then has one lemma over the actions of `Next`.

Its second part goes on from there for the faults of `SerialFaults`: lost
requests and answers, mutes, refusals, failing reads, reloads. The others are left
out because each breaks what is proved: a client that gives up, a crash of the
relay or a restart of the daemon leaves a handler's outcome without anyone to hear
it; a send of unknown outcome or a record that fails leaves the relay's memory behind
the chat (section 13). The set of slots stays arbitrary; `CustodyInv` derives that at
most one is busy, the one that holds the daemon's call. `MemoryInv` says that
`last_sent` is the chat's last word but while a handler records; `KnowledgeInv` what
a handler knows of that word at each point of `deliver` (a recovery past `lookup`
meets "firing", an "ok" answers for a word that is the request's); `OpenInv` that the
daemon believes nothing of an alert whose report is under way. With them an answer
that arrives carries the chat's last word back (`AckedMeansHeard`), a retry finds its
own success in `last_sent` (`NoRepeatedRecovery`), and every step maps to a step of
`AlertChannel` or a stutter (`PipelineIsChannel`): only a handler changes the chat's
word, and what it tells is what the daemon then holds of the alert, as the daemon
waits for its call (`ToldIsTrue`); every other step is `Observe`.

Only model-checked: the liveness half of `ChannelSpec`, and `FiringHeard`.

## 4. The node's row at the relay

`RelayNodes` models one row of `nodes` and the three kinds of goroutine that
rewrite it: requests of the node (`authed`, then `handleHeartbeat` or
`handleAlert`), the silence ticker (`CheckSilent`) and the command poller
(`clearBlocked`). Each reads the whole row, works on its copy (`proc[p].node`)
and writes the whole copy back; `UpdateNode` has no condition and there is no
lock, so what one of them learned is lost when another writes an older copy.

| operator | code |
|---|---|
| `Get`, `Touch` | `authed`: `GetNode`, then `LastSeen = now`, `Silent = false`, `UpdateNode` |
| `Lookup` … `RecordFails` | `deliver` of `node_silent`: "firing" by the ticker, "ok" by a request |
| `SendBlocked` | `notify` after a 403: it marks and writes *its own* copy |
| `After` | what the caller does with `deliver`'s answer |
| `Undo` | `authed` restoring the flag after a failed recovery, error ignored |
| `HandleHeartbeat`, `HandleAlert` | the handler, and the write it makes |
| `Candidate`, `Mark` | `SilentCandidates`, then `Silent = true`, `UpdateNode` |
| `Command`, `Clear` | `clearBlocked` |
| `Disconnect` | the client goes away: the request's context is cancelled, so its next store or Telegram call fails |

`authed` and `CheckSilent` hand `deliver` a context that a disconnect or a
shutdown can cancel; `handleAlert` detaches its own. Times are ages that saturate
(`Older`), as the code compares them only with `SilentAfter` and
`ReminderEvery`. `Tick` waits until no request has seen an earlier tick: a
request lasts at most 15 s for its client and 30 s for the server, against the
5 minutes of `SilentAfter`, so it sees at most one. The ticker and the poller are
not bounded so. `word` and `told` are history variables. Without the fault
`overlap` a goroutine begins only when no other is at work.

| run | faults (1 request, the ticker, the poller) | shows |
|---|---|---|
| `NodesSafety` | all nine; 848 k states | `SilentWasTold` |
| `NodesSerial` | no overlap; mutes, refusals, a blocking chat, failing reads | `FlagMatchesWord`, `ReturnHeard`, `SilenceHeard` |

`TypeOK` of the row is the theorem `NodeTypes` below.

One request at a time per node is the normal case (the daemon is a single
goroutine); the theorems hold for any number. `Quiet` and `Reminder` are small,
with `Reminder` twice `Quiet` as in the code's defaults (10 and 5 minutes).

Fairness: the daemon keeps sending while it is up, ticker, handlers and clock go
on (weak fairness), and a store or Telegram call made again and again succeeds
again and again (strong fairness of `Touch`, `Lookup`, `Send`). Users owe
nothing: both liveness properties assume that from some point on the chat accepts
messages and the row is not marked blocked.

`RelayNodes_proofs` proves `TypeOK` and `SilentWasTold` for every set of
requests, every interval and every set of faults. The flag travels through
copies, so `SilentWasTold` is not inductive: `ProcInv` says of every goroutine
that a copy with the flag, a recovery on its way and a ticker about to flag all
imply that `node_silent` was told, and `FlagInv` adds `last_sent`. `OneMoves`,
`OnlyGoes` and `Finishes` reduce a step to what the moving goroutine may do.

For goroutines that take turns the same module proves `FlagMatchesWord`, under
`SerialFaults`. That leaves out `overlap`, sends of unknown outcome, disconnects,
failing writes and restarts, each of which refutes it (section 13).
`SerialInv` gives every goroutine a `Task`: what the row, its copy and the chat's last
word are at each point, so that a copy written back is as fresh as the row, and a
recovery that did not go through leaves "firing" behind for `Undo` to put back.
`RememberedIsHeard` is the same for `last_sent`. Nothing is claimed of the mark of a
blocked chat beyond what the model does with it: when goroutines take turns only a
403 sets it, and when they overlap no property of it holds (section 13). Only
model-checked: the two liveness properties.

## 5. Host data operations

`NodeHost` is the machine: the unit (`svc`), the data folders and the lock. A
folder's contents are known by the moment of the node's last write to it, so
"the folders belong together" is "their moments agree" (`Uniform`); `Snapshot` is
the moment of a downloaded bootstrap archive and `None` a folder that is absent.
`DataOperations` runs `backup`, `restore`, `bootstrap` (`discard` with
`--discard`), `resync` and `deploy`, each in a process of its own under the lock:

| `pc` | code |
|---|---|
| `prepare` | `backup.Run` to `service.Stop`: space, pruning, clearing `TempDir`, `wasActive` |
| `extract` | verify, inspect and stage the archive while the node runs |
| `stop` | `service.Stop`, which leaves alone a unit that is not active |
| `copy`, `archive`, `prune` | `copyData`, then (node running again) `writeArchive`, `clearDir`, `Prune` |
| `aside`, `install` | `restore.MoveAside`, then the renames: one folder a step |
| `back`, `restart` | `restore.MoveBack`, then the start after a complete roll-back |
| `wipe`, `unpack` | `resync.Wipe` or the loop of `--discard`, then `extractTo` |
| `build` | `deploy.CloneAndBuild` and `CreateService` |
| `start` | the `service.Start` every operation ends with |

Between any two steps the node can write, die and be restarted by systemd
(`activating` is a unit waiting for that; it answers "inactive"), its owner can
run `start` or `stop`, which take no lock, nomctl can be killed and the host can
reboot. `proc[p].moved` holds the safety copies of the running operation;
`before` is history: the data the node had when it was stopped, followed when
the node writes to a folder still in place.

Abstractions: one rename or `mv` is a step that happens or not (across file
systems `mv` copies, and may leave a partial folder); a folder that could not be
deleted is left as it was; the order of folders is open; `Folders` are those all
operations share (`nom`, `network`, `consensus`): only backups know `cache`, only
resync deletes `log`. Published archives stay in the sequence with their files
forgotten once pruned.

| run | bounds and faults | shows |
|---|---|---|
| `HostSafety` | 2 processes, 2 folders, 1 write, 2 archives, keep 1; all operations, all 16 faults; 3.4 M states | `NothingLost`, `NewestKept` |
| `HostNode` | 2 writes; backup, restore, bootstrap, deploy; any step but a start or a put-back may fail, the owner may stop the node | `RunsOnOneState`, `RolledBack`, `ArchivesAreOneState`, `NodeComesBack` |

Two folders are the least that can disagree; two processes the least that can
overlap; two archives with one kept make pruning happen. `HostNode` needs its
restrictions: each of the faults it leaves out refutes one of its properties
(section 13). Fairness: a process that is not killed goes on (weak fairness of
`Works`); nothing is assumed of the node, its owner or which step succeeds.

`DataOperations_proofs` proves, for any processes, folders, operations and faults,
`TypeOK` (`HostTypes`), `NewestKept`, `NothingLost` and that operations never overlap
(`OneOperationAtATime`). `NewestKept` is about the pruning a backup does for want of
space before it has made its own archive, after which it may fail or die: with the
types it is inductive, since an archive among the newest `MaxBackups` has fewer newer
ones than that, listed or not (`NewestNotSurplus`). The invariant `HostInv` adds to
the types: a process at work holds the lock (`Exclusive`, so only one folder-moving
process need be looked at, `MoverSafe`); no safety copy exists before the stop
(`NothingMoved`); and per folder (`FolderSafe`) what a copy or a place holds is what
the node had, folders still to be moved have no copy and folders to be put back have
one. The last two are what makes a step of the loop keep the first two.

The safety properties of `HostNode` are proved too, for the operations and faults of
that run (`WholeOps`, `OrderlyFaults`, the latter with a failing start) and any
number of folders, processes and moments: `NodeRunsOnOneState`, `SwapsAreUndone`,
`ArchivesHoldOneState`. `OrderlyInv` has three clauses for a process at work:
`Course` (which operation may be at which step, that the unit is down from the stop
to the start, and that what it puts back or in is whole), `Copied` (the copy so far
is the node's data) and `Swapped` (folder by folder, what is in place, aside, staged
or put back). They rest on one another: a copy is of one moment because the node is
down and nobody else is at work, and the node starts on one moment because the
swap that ends is complete or undone. What the hypotheses leave out breaks each of
them (section 13). Only model-checked: `NodeComesBack` (liveness).

## 6. Pairing and the daemon's installation

`NodePairing` follows a node's credentials from `/start` in the chat to the
daemon that reports with them, and back through `/unpair` or `alerts unpair`:
the relay's codes and node rows (`code`, `row`), the update the poller is
handling (`message`), and per host `alerts.json`, the units and the credentials
the daemon runs with (`alertsCfg`, `units`). `alerts` commands take no lock;
`PerHost` is how many may run on a host at once.

| action | code |
|---|---|
| `CmdStart`, `CmdUnpair`, `Answered` | `commands.go`; an update is handled up to three times when its reply fails, and again after a relay restart (`RelayRestarts`) |
| `SelectCode`, `ConsumeCode`, `CreateNode` | `handlePair`: the two statements of `ConsumeCode`, then the row; a taken name costs the code |
| `PairingLost`, `KeepThresholds`, `Save` | setup on the host: the answer, the thresholds of an old file, `Save` with the file's mode |
| `Install_`, `InstallFails`, `Converge`, `ConvergeFails` | `InstallUnit`: user, file mode, unit files, probe timer, service, restart |
| `UndoUnits`, `UndoPairing`, `Forget` | the roll-back of a setup that cannot install (`cmd/alerts.go:145-156`) |
| `BeginSet`, `SetSave`, `SetConverge`, `SetReload` | enable, disable and set, with the SIGHUP |
| `TellRelay`, `UninstallUnits`, `Forget` | `alerts unpair`, with and without `--force` |
| `CommandDies`, `DaemonRestarts` | a command killed at any step; `Restart=always` |

`OneNodePerCode`, `KnownIsKept` (a host keeps the credentials of a node the relay
would call silent) and `DaemonKeepsUp` (the daemon can read its file, and between
commands runs with what is in it) are checked in `AlertParts`: two hosts, one
command a host, two codes, two names, three ids, two commands in all, starting
unpaired or from a release whose daemon ran as root. `PairFaultSets` splits the
faults into those of chat and relay and those of the host, with an unreachable
relay in both: failures of one side meet each other in every order, those of
different sides do not meet, to stay within 90 seconds. `uninstallFails` is left
out (section 13).

`NodePairing_proofs` goes past these bounds: for any number of hosts, of commands
a host runs at once, of codes and ids, and all faults together. `PairInv` adds to
the types that a command that is about to make a node holds a code that is used by
now, has paired nothing, and is in no other command's hand (`CodeInv`): this is
what the second look of `ConsumeCode`'s update buys, and `OneNodePerCode` follows.
`ReadInv` says that a unit that names the user implies that the user exists and
may read the file; every `Save` keeps the second as long as the first holds, which
gives the reading half of `DaemonKeepsUp`.

The other half, and `KnownIsKept`, hold for one command a host at a time (`PerHost`
is 1; nothing in the code enforces it, and two refute both: section 13).
`KnownNodesAreKept` needs in addition that a command between reading and writing
holds the credentials that are in the file, and that the relay has forgotten the node
of whoever is about to remove it. `DaemonsKeepUp` needs that no daemon runs where a
file is about to go, hence its second hypothesis, that `systemctl disable --now` does
not fail; hosts a killed command left half way are exempt, as in the property.

## 7. The relay's rate limiter

`RelayLimits` is `rateLimiter.allow` under its mutex: a fixed window per key
(`counts`), a map of at most `MaxKeys` keys (`known`) swept at most once a minute
and only when a new key finds it full. A call is `Admit`, `RefuseRequest` or
`RefuseKey`; `admitted` is history. `LimiterHolds`: no key gets more than two
windows' worth into any minute, the map stays bounded, and no key is forgotten in
its minute. `TurnedAwayForARush`: a newcomer is refused only while `MaxKeys` keys
really came lately. `AlertParts` uses three keys for two places, two requests a
window and minutes of two ticks: enough for a full map, a sweep that frees
something or nothing, and a key that is swept and comes back.

`AlertParts_proofs` proves it for every number of keys and places, every limit and
every length of a window. `LimitsInv`: each window that is remembered began less than
a minute before the last sweep or later; so what a sweep removes is over, and when the
map is full after one, each of its keys came within the last two minutes. Counting
them is `TurnedAwayOnlyForARush`, for finitely many keys. `WindowInv` is what
`TheLimiterHolds` takes: what a key got since its window began is the window's count,
what it got in the minute before lies in one window, and nothing was let through since
the window ended; a stretch of a minute meets at most two windows. The history counts
requests *up to* a time, so that what an interval let through is a difference and no
sum over an interval has to be proved about.

## 8. Keys, configuration and their archives

`NodeFiles` has the two files that let a node produce, `wallet/producer` and
`config.json`, and the seven commands that write them or archive them, one process
each under the lock; every file operation is a step that can fail or be the last.

| steps | code |
|---|---|
| `Read`, `Keep`, `Rename` | `config set/unset/edit`: `Edit`, then `SaveUnchecked` with a copy of the previous file |
| `Inspect`, `Create`, `Wire`, `Keep`, `Rename`, `TellPassword` | `pillar setup`: `Setup`, `Create`, `WriteConfig` |
| `Pack`, `Publish`, `Hash` | `backup wallet` |
| `Stage`, `Aside`, `Install`, `SwapGoesWrong`, `PutBack`, `PutBackFails` | `restore wallet` and its roll-back |

A key stands for the key file, its address and its password; a document is its
Producer section and one of a few texts that pass the checks or not. `mishap` is
history: a process was killed, or a roll-back was not complete. The hazards are the
names of one second, a roll-back that is itself cut short, and the comparison of two
times that stands for "is this key backed up".

`sec` is the second in which the last command began; a command may begin in that of
the one before it (`sameSecond`). Three kinds of name are made of it. Config commands
look for a free number for their copy (`CopyNumber`), `pillar setup` does not and
overwrites. A wallet restore moves the previous files to `wallet-safety.<second>`,
which may be that of an earlier restore: its `config.json` is renamed over the one
there, its `wallet` directory is not (`InTheWay`) and the restore is rolled back. A
wallet backup replaces an archive of its second, suffix and directory (`Names`), whose
`.sha256` file stays and no longer fits unless the contents are the same (`sum`).
`NothingDestroyed` therefore has three parts: no command destroys the last copy of a
key; config commands destroy no document either; the others destroy only documents
that were put aside in this very second, under a name they give again
(`NamedBySecond`). That no document is ever lost (`EveryCopyKept`) is false, by a
setup as by a restore (section 13).

`HostParts` runs it with two processes, two keys, three commands, two names and every
fault. Three commands are one that puts a document aside, one that takes it out of its
place and one that overwrites the copy. Abstractions: `Open` reads and decrypts the
archive before the lock is taken, `Stage` does both at once (an archive is only ever
replaced by a backup, and the contents a restore has read are those of an archive that
was there); the `wallet` directory is there exactly when the key file is, and holds
that one file.

`ConfigDocument` is the document itself: `Set`, `Unset`, `Validate`,
`ValidateStrict` and `ReservedUnchanged` over sections that may be absent, null,
empty, of another type or hold unknown keys. The schema has one key of each class
of value (and the pair whose check depends on each other). `HostParts` starts from
every hand-written document of `HandWritten` and makes two changes.
`EveryEditIsSafe`: `unset` is never refused on a valid document, every stray key can
be removed, `Set` touches one key.

`MCHostParts_proofs` proves it for every value, hand-written name and field and any
number of changes. Two of the three parts need no invariant, because they hold of every
document, reachable or not: what `Unset` and `Set` leave is worked out name by name
(`UnsetAtTop`, `UnsetInSection`, `SetAtTop`, `SetInSection`); `UnsetLeaves` says that a
setting that is left has the value it had, which `FitsStill` turns into "and still fits":
the only check that looks at a second setting, `MaxPeers` against `MinPeers`, gets weaker
when that one goes. A stray key is repairable unless a name at the top of the file has a
dot in it: `EditsReach` states the property for every other key of every document,
`EveryEdit` assumes that no file has such a name to begin with (`NoDotAdded`: no command
adds one) and section 13 has what happens when one does. `ReservedStays`: no `set`,
`unset` or `edit` changes a producer setting.

`NodeFiles_proofs` proves the properties for every number of processes, keys, texts
and runs, and every fault. `FilesInv` has
one clause for each step a process can be at (`Phase`): the document it is about to
write has the producer that is in the file now, or the key that is in the wallet;
what a restore moved aside and what it has not make up the files it found, through
the roll-back and its failures; the archives made since a key file was written hold
its key, and there is none yet in a run that will write one. The lock makes these
clauses stable: while one process is at a step, every other is at none (`LockInv`).
`RestInv`, the claim about a node at rest, is what each clause hands back when the
command ends. For `NothingDestroyed` `KeptInv` adds where each file that a step
overwrites is kept already: the document of a write in its copy, what a restore
installed in its archive, the rest in the safety directory. `SecondInv` is why no key
is lost although archives are replaced: the key of an archive of this second is still
in the wallet, or in the safety directory of this second, since none but a restore
removes a key file and its own safety directory takes it. That a config command's copy
overwrites no other needs `backupName` to find a free number (`FreeNumber`): no copy has a
number as large as the count of the writes before it, so there is a free one, and
the least of a set of numbers exists because `<` is well-founded (`Least`).
`FilesTypes` adds that a copy always finds a free name: `CopiesInv` keeps the number of
each copy below the number of commands run.

## 9. The binary

`SelfUpgrade` is `Replace` and `Rollback` one file operation a step, over
directory entries and inodes, so that a link, a copy, a rename and a file that is
being run are what they are: the process may die after any of them. `Converge` of
the units and the restart of the daemon follow. `UpgradeSafe`: a whole binary at
the target, `.previous` with the release that was replaced, the daemon on the
binary installed. `UpFaultSets` pairs the faults; a failing hard link together
with a death or a failing copy is left out, as it tears `.previous` (section 13).
`HostParts_proofs` proves it for any number of upgrades, releases and inodes, and
every set of faults in which a failing hard link meets neither a failing copy nor a
death (`NoTornPrevious`), for one upgrade at a time (`OneUpgrader`). The invariant
keeps the inode under `.staged` apart from the other two entries until it is whole,
and gives each step what it may rely on (`UpCourse`): which entries share an inode,
and who still owes the daemon a restart. `UpgradeTypes` needs neither hypothesis: with any
number of commands at once, sharing `.staged` and `.previous`, each runs from a file
(`RunsFromFile`) and the target is never missing.

`UpdateCheck` is the cached answer to "what is new" that commands of one
configured branch and the daemon, which knows only the default one, share across
releases. `ReportsAreRight`: no report of something not newer, not out or of
another branch, and none missing for longer than the cache lives. `ReportsRight`
proves it for any branches, numbers and times: the releases of a line come out in
order (`Numbered`), so the newest that a cache knows is newer than what runs exactly
if something newer was out when it was made (`KnowsReleases`).

## 10. Rules and samples

`AlertRules` has the rules with state over time as operators on a history, the
node as it really is (`node`, with what no rule can see), and `RulesNext`, which
takes a sample and trims. The code's rule reads `kept`; the reference definitions
(`TrueCrashes`, `TrueMisses`, `Symptom`) read `past`, every sample ever taken.
`AlarmsAreReal` compares them: trimming changes no verdict, one cause raises one
alarm, counted crashes and missed slots happened, a window's evidence is as long
as it claims. `QuitsForAReason`: a firing rule falls silent only for a sample that
speaks against it, if samples are evenly spaced. Bounds: four samples, up to one
interval late, a history of three intervals, counters that wrap at 256; a
behaviour follows one `view` of the node, as the rules read disjoint parts.

`NodeProbe` is the root timer's file through which the unprivileged daemon learns
of open files and free room. `ProbeIsCurrent`: `fds_high` is about the process
sampled, though pids are used again, and `disk_low` about the directory as it
lately was. One pid, two starts and probes of at most one tick are enough for a
stale file and a reused pid. `TheProbeIsCurrent` holds for any pids, restarts and
ages: a file's figures were true of the start it names, and of the directory, when it
was written (`ProbeInv`), and a figure is used only for that start and within the age
allowed. Its hypothesis is that the daemon's own mount shows the directory
(`OwnMount` is false; section 13 has what happens otherwise).

`HostParts_proofs` proves both for a history of any length. `RulesInv` keeps the
samples in the order of their times, no two of them further apart than
`LongestGap` (the longest delay or the interval); says that `kept` is the trimmed
`past`; and compares what a rule can count between two samples with what happened
between them: the restarts grow by no more than the crashes (`LivedOn`), the pillar's
shortfall by no more than the missed slots (`NoMoreMisses`). So a window is an end of
the past, and what was trimmed would have been dropped by the window too
(`FromSuffix`, `KeptIsEnough`); a sample counts from the newest rollover of the
expected slots on, where unsigned differences that wrap cannot pass for misses
(`UnsignedShortfall`).

`AlarmsAreTrue` assumes that systemd answers (section 13 has the other case), that
the interval and every delay fit in the history (30 seconds and 24 hours by default;
`config.go:117-122` does not bound what a hand writes) and that fewer samples are
taken than a counter can hold. `RecoveriesHaveAReason` assumes besides that the
minutes of a rule and one interval fit in the history. At the very end of the range it
is false, beyond the delays of the run (section 13): with as many minutes as the history has,
after a delay as long, the sample before the gap counts while it is kept and the
alarm falls silent when it is trimmed.

## 11. The backup timer

`BackupTimer` has the daily timer (`Persistent`, no jitter), the cadence that
decides whether its run makes an archive, retention, and `backup_stale`.
`Schedule` may be repeated, its first backup is made at once. A day has four ticks
and a run takes one or two; `LastTick` is four days. `StaleNeedsTrouble`: on a
host without trouble `backup_stale` never fires between runs, and a new archive
follows within the cadence, a day and the length of a run. `EveryCadence` is
refuted (section 13).

`StaleMeansTrouble` proves it for any length of a day, hour of the timer, set of
cadences, number of archives kept (at least one, as `config.go:271` makes sure) and
lengths of a run that have a longest. `TimedInv`: while no run fails and the host is
up, the archive was younger than the cadence when the timer last fired, or is newer
than that; while the timer is due, and while its run works, it was within the
cadence and a day when it was due. One day passes between two firings (`ElapsedIs`),
a cadence not reached bounds an age from above by whole days (`NotReached`), and the
newest archive survives pruning (`FinishesInv`).

## 12. The analytics stack

`AnalyticsInstall` follows `Install` step by step and keeps apart what the steps
look at: the pieces on disk (`absent`, `torn`, `whole`), Grafana's drop-in and the
one systemd last read (`dropIn`, `known`), whether each service is enabled and
active, what the running Prometheus and Grafana have loaded (`conf`), and Grafana's
database. Pieces made by `CopyFile` (which renames) or a package manager are never
torn; those written in place are, if the write breaks off. `systemctl enable` makes
systemd read its files again, a restart does not. Each step may fail, also after
it took effect when an answer can be lost, and the run may be killed at each.

`InstallsComplete`: a run that reports success leaves three enabled and active
services and a Grafana at the configured address with the configured password, the
plugin loaded (not only installed) and both datasources; unless a run once broke
off between a write and what makes it effective, every file is whole and in effect.
`HostParts` starts from an empty host or one with a Prometheus or a Grafana of its
own, with two addresses, two passwords and one set by hand, and makes three runs:
one that breaks off, one with another configuration, one that must cope with both.
One installer runs at a time. The users of the services are created with their
units, Grafana's search by title is exact, and no version changes between runs.

`InstallsAreComplete` proves it for any addresses, passwords, number of runs and
faults, `killed` and a dying service included. `SeenToInv` says what each step that is
done (`Done`) still guarantees at the end of the run: no later step undoes it, and a
restart reloads what is on disk. `LoadedInv` is about what earlier runs left: if none
was ever cut between a write and what makes it effective, nothing is torn, and
what runs has loaded what is on disk, except between this run's write and restart.

| run of sections 6 to 12 | states | shows |
|---|---|---|
| `AlertParts` | 0.9 M | `PartsTypeOK`, `OneNodePerCode`, `KnownIsKept`, `DaemonKeepsUp`, `LimiterHolds`, `TurnedAwayForARush`, `ProbeIsCurrent` |
| `HostParts` | 1.4 M | `PartsTypeOK`, `ConfigOpens`, `SilenceMeansBackedUp`, `FilesPutBack`, `NothingDestroyed`, `ProducerReserved`, `EveryEditIsSafe`, `UpgradeSafe`, `ReportsAreRight`, `StaleNeedsTrouble`, `AlarmsAreReal`, `QuitsForAReason`, `InstallsComplete` |
| `EveryCadence` | | `EveryCadence` violated |
| `Completed` | | `InterruptedIsCompleted` violated |

Both `Parts` runs stop by their bounds, hence without the deadlock check. A behaviour of
either follows one component while the others stay as they start, which is sound because
they share no variable; `PartsAreTheirOwn` proves that what is checked is what is meant:
`MCSpec` implies the specification of each component (but `ConfigDocument`, which starts
from no document when another is followed; its theorems are proved over `MCSpec` itself).
So every theorem about a component is a theorem about the specification TLC checks,
and `PartsTypes` follows from those about the components.

## 13. Disagreements between code and documentation

Three are runs that TLC refutes, and findings in PROJECT.json with the sentence
they contradict.

1. *A late firing overtakes its recovery* (`RecoveryOvertaken`). The sentence is
   "Every alert has a recovery message." (`website/docs/alerts/rules.md:43`).
2. *A daily backup every other day* (`EveryCadence`): an archive is dated when it
   is finished, its age truncated to whole days, and the timer comes at a fixed
   hour; the run N days later finds N-1 days and skips. Against
   "Daily → Backup every 24h" (`internal/tui/menu.go:725-727`).
3. *An interrupted installation is not completed* (`Completed`): a directory that was
   half copied, or a unit or key half written, exists and is taken for installed. The
   same invariant fails, with `consoles` whole, after a death between writing the
   drop-in or the node job and the restart: Grafana keeps listening where it did, or
   Prometheus does not scrape the node, and nothing asks again. Against "an
   interrupted run is completed on the next run"
   (`website/docs/reference/differences.md:33`).

Others are not kept as runs. Each can be reproduced by checking the property named,
under the configuration named, with the constant changed as given.

| configuration | change | property violated and what happens |
|---|---|---|
| `HostParts` | `FileFaults = {"installFails"}` | `UndoneExactly`: a file installed where there was none stays after a failed restore (`walletbackup.go:437`) |
| `HostParts` | `FileFaults = {"writeFails"}` | `PasswordKept`: the key file is there and its generated password is lost (`setup.go:105-115`, `pillar.go:40`) |
| `HostParts` | as it is | `EveryCopyKept`: `pillar setup` overwrites a copy of the same second (`producer.go:163`), a second wallet restore of one second the `config.json` in the safety directory of the first (`walletbackup.go:492`, `:513-522`) |
| `HostParts` | `HandNames = {"Seed.Nodes"}` | `StrayRepairable`: a stray key with a dot is out of reach of set and unset (`nodeconfig.go:289-291`) |
| `HostParts` | any | `LayoutMigrates`: the old binary writes its own unit layout (`cmd/upgrade.go:108-110`, `docs/alerts/pairing.md:81`) |
| `HostParts` | `Upgraders = {u1, u2}`, eight `Inodes` | `UpgradeSafe`: two upgrades share `.staged` and `.previous` |
| `HostParts` | `UpFaultSets = {{"linkFails", "killed"}}` | `UpgradeSafe`: `.previous` is torn, the target whole |
| `HostParts` | any | `QuietWhenUpToDate`: the daemon compares with the default branch (`update.go:347-348`) |
| `HostParts` | `Views = {"sync"}` | `RecoveryIsReal`: after a slow sample `covers` fails and a lasting condition is reported as over (`rules.go:128-134`) |
| `HostParts` | `Delays = {0, 6}` | `QuitsForAReason`: minutes as many as the history has, and a delay as long: trimming the sample before the gap ends a lasting alarm (`rules.go:97-106`) |
| `HostParts` | `SystemdAnswers = FALSE` | `CrashesAreReal`: a sample in which systemd did not answer reads zero restarts |
| `HostParts` | `TimerFaults = {}` | `StaleIsTrouble`: `backup_stale` fires during a run longer than the last |
| `AlertParts` | `OwnMount = TRUE` | `RoomIsReal`: without a probe the daemon measures the mount that hides the directory |
| `AlertParts` | as it is | `NoGhost`: a lost answer or a dead setup leaves a node nobody has credentials for (`cmd/alerts.go:146-147`) |
| `AlertParts` | as it is | `RefusedHasOne`: codes whose replies failed use up the chat's five (`commands.go:68`) |
| `AlertParts` | `Names = {0, 1}` | `UnpairsTheNamed`: `/unpair` takes a name that differs in case only |
| `AlertParts` | `Hosts = {h1}`, `PerHost = 2` | `KnownIsKept`: a concurrent set brings back the old `alerts.json` |
| `AlertParts` | `PairFaultSets = {{"uninstallFails", "installFails", "unreachable"}}` | `DaemonKeepsUp`: a daemon that systemd did not disable runs on after the roll-back |
| `PipelineSafety` | `Faults = {}`, `Slots = {s1}`, `InfoAlerts = {a1}`, `Details = {d1, d2}` | `AckedDetailHeard`: a changed informational detail is acknowledged though it was suppressed (`server.go:394`) |
| `HostNode` | `Faults = {"nodeDies"}` | `ArchivesAreOneState`: a unit waiting for its automatic restart is not stopped, and comes up during the copy (`service.go:128`, `website/docs/guide/backups.md:12`) |

Properties of the runs of sections 3 to 5 are refuted under other `Faults` too (in
the first two rows also `Slots` is one handler and `Reminder` 2):

| configuration | `Faults` | what happens |
|---|---|---|
| `RecoveryOvertaken` | `{"storeWrite"}` | a firing alert is told, its record fails, the rule clears before the retry: the recovery is suppressed as "never fired", although `server.go:409` means to prevent it |
| `RecoveryOvertaken` | `{"restart"}` | the daemon restarts while firing and the rule clears before the first evaluation: the baseline takes the clear value as reported |
| `NodesSerial` | `{"overlap"}` | the ticker flags the node while a heartbeat is being handled; the heartbeat writes back its older copy (`server.go:357`) and the recovery of `node_silent` is never sent, against `rules.md:31` |
| `NodesSerial` | `{"disconnect"}` | `deliver` fails because the client went away, and the flag kept for a retry (`server.go:320`) is written with the same cancelled context |
| `NodesSerial` | `{"unsure"}` | the chat heard a recovery that was reported as failed: the row stays flagged, and the node's next silence is never announced |
| `NodesSerial` | `{"storeWrite"}` or `{"restart"}` | a silence is told and recorded, the flag is not written, the node returns: no recovery is sent (`server.go:504`) |
| `HostNode` | `{"asideFails", "putBackFails"}` | a roll-back fails and the node is left stopped on purpose (`restore.go:162`); the next backup or deploy starts it on half its folders |
| `HostNode` | `{"killed"}` or `{"reboot"}` | a swap is cut short and nothing completes or undoes it; the next start runs the node on a mixture |
| `HostNode` | `{"nodeDies"}` or `{"userStarts"}` | the node starts between two moves |
| `HostNode` with `resync` in `Ops` | as they are | a node without data: a failed install leaves what it had installed, since `MoveBack` knows only folders that were moved (against `backups.md:46`) |

`notify` marks a node blocked on its own copy of the row (`server.go:442`) and its
caller then writes an older one: the mark seldom lasts, against
`docs/superpowers/specs/2026-09-06-alerting-design.md:232`. The reverse happens too: with
`overlap` and `blocks` a request in flight writes back a mark that a command has just
lifted (`clearBlocked`, `server.go:460`), against `telegram-commands.md:44`. Hence
no property says when a row is marked.

Hazards that nothing in the code holds, and that PROJECT.json therefore does not
list with a property, are in these tables; besides: a backup starts the node
whether it ran before or not (`backup.go:185`), pruning removes the hash of an
archive it could not remove (`backup.go:110`), the relay may stop between clearing
a node's flag and sending its recovery (`server.go:313`), a rule disabled while it
fires is forgotten without a recovery (`daemon.go:170`), and `DeleteNode` leaves
rows that a handler in flight writes afterwards (`sqlite.go:170`); ids are never
used again, so nobody reads them.

## 14. What is proved, what is only checked, what is not modelled

Each theorem is a statement about the specification of its module for every value
of the constants its named `ASSUME` allows; where it needs more (fewer faults, one
command at a time), that is a hypothesis of the theorem, and section 13 has the
behaviour that refutes the property without it. The sections above give the argument.

| module | theorems |
|---|---|
| `AlertPipeline_proofs` | `Delivery` (the inductive invariant), `Types`, `RecordsAreTold`, `RecoveriesFollowFirings`, `AcknowledgedFiringsWereTold`, `UnpairedIsTrue` |
| `AlertPipeline_proofs`, second part | `SerialDelivery` (the inductive invariant), `AcknowledgedIsHeard`, `RecoveriesAreNews`, `PipelineIsChannel` (the refinement) |
| `RelayNodes_proofs` | `Nodes` (the inductive invariant), `NodeTypes`, `FlaggedNodesWereTold`; in turns: `SerialNodes` (the inductive invariant), `FlagIsTheWord` |
| `DataOperations_proofs` | `HostOperations` (the inductive invariant), `HostTypes`, `NewestStayKept`, `SwapsLoseNothing`, `OneOperationAtATime`; orderly: `OrderlyOperations` (the inductive invariant), `NodeRunsOnOneState`, `SwapsAreUndone`, `ArchivesHoldOneState` |
| `NodePairing_proofs` | `Pairing` (the inductive invariant), `PairingTypes`, `CodesPairOneNode`, `DaemonsCanRead`; one command a host: `KnownNodesAreKept`, `DaemonsKeepUp` |
| `NodeFiles_proofs` | `Files` (the inductive invariant), `ConfigsOpen`, `SilencesMeanBackups`, `RestoresPutBack`, `ProducersAreReserved`, `FilesTypes`, `NothingIsDestroyed` |
| `AlertParts_proofs` | `Limits` (an inductive invariant), `LimitTypes`, `RunningWindowsAreKept`, `TurnedAwayOnlyForARush`, `TheLimiterHolds`; `FdsAreOfTheProcess`, `TheProbeIsCurrent`, `ProbeTypes`; the composition: `PartsAreTheirOwn`, `PartsTypes` |
| `HostParts_proofs` | `ReportsRight`, `UpgradesSafe`, `InstallsAreComplete`, `StaleMeansTrouble`, `AlarmsAreTrue`, `RecoveriesHaveAReason`; types: `CheckTypesHold`, `UpgradeTypes`, `StackTypes`, `TimerTypes` |
| `MCHostParts_proofs` | `EditsReach`, `SafeEdits`, `ReservedStays`; the composition: `PartsAreTheirOwn`, `PartsTypes`, `EveryEdit` |

Only model-checked, on the instances named: liveness (`FiringHeard`, the fairness of
`ChannelSpec`, `ReturnHeard`, `SilenceHeard`, `NodeComesBack`), since TLAPS has no rule
for `ENABLED`. Every invariant and every action property of a passing run is a theorem;
those with a hypothesis are named above, and TLC checks their instance under it.

Not modelled: the signing and replay window of a request and its field limits;
the retries of the Telegram client inside one send, which end in the same results;
the heartbeat's summary; the resumable download of a bootstrap archive; the hard
reset of the orchestrator, which has the shape of `resync` over another unit; the
rules that are one comparison of one sample; CPU, memory and disk rates and the
parsing of `/proc`; the RPC client, preflight, the support bundle, the TUI and
the execution and logging helpers, which read, format or run external commands
and keep no state that a later step relies on; nomctl's own configuration
file. PROJECT.json has the reason for each.
