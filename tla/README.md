# A TLA+ verification of OcHub

OcHub keeps the connections (providers, keys, models) of AI coding tools and
writes them into the tools' own configuration files.  Three kinds of process do
this on one machine and share one data directory: the desktop application, the
command line, and a background daemon that the command line talks to; a fourth,
an SSH stdio node, lets one machine configure another.  The hard part of the
program is that one "apply" changes several files of another program, a row of
OcHub's own `settings.json` and a SQLite database, none of which share a
transaction, while the tool, the user and other OcHub processes may touch all of
them, and while the process may die at any instruction.

This directory holds TLA+ modules translated from that code, the configurations
TLC checks, and proofs TLAPS checks.  `PROJECT.json` maps every definition to the
lines it stands for.

## 1. Inventory

| part | state | operations | what is hard, what makes it correct |
|---|---|---|---|
| receipt journal and file transaction (`services/config_commit.rs`, `paths.rs`) | `runtime/config-commits/<id>.json` with state Prepared, FilesWritten, Completed, RolledBack, RecoveryRequired; the tools' files; `config-apply.lock` | `prepare`, `apply`, `complete`, `rollback`, `reverse`, `mark_*`, `execute_files` | crash between any two writes; a rename that succeeds and reports failure; other writers. At most one pending receipt; only recorded bytes are replaced |
| applying, undoing, recovering (`application/config_commits.rs`) | the above, `settings.json`, `providers`, `config_apply_heads`, `editor_drafts` | `apply_editor_draft`, `undo_config_apply`, `recover_config_commits` | the three stores agree whenever nothing is pending; undo gives back what apply found; a retry is answered once |
| editor drafts (`db/dao/editor_drafts.rs`) | one row per draft with a revision and the hash of its base | open, update, discard; consumed by an apply, brought back by an undo | edited while being applied; applied twice |
| device settings (`settings.rs`) | `settings.json` and a cache of it in every process | `set_current_provider`, `get_effective_current_provider` | stale caches of other processes; check then clear |
| connection records (`services/provider.rs`, `db/dao/providers.rs`) | `providers` | save, delete, switch, live import | check then delete; drift between record and file |
| runtime ownership (`runtime/mod.rs`, `cli/daemon.rs`, `cli/runtime_client.rs`) | `owner.lock`, `owner.json`, `mutation.lock`, IPC socket | acquire, probe, drop, start/stop/restart daemon, forward a request | a probe that takes the lock; record and lock out of step; a client that gives up while the owner carries on |
| operation journal (`runtime/journal.rs`, `cli/run.rs`) | `runtime/operations/<id>.json` | plan, annotate, prepare, begin, complete, fail, recover | read-modify-write; a mutation done whose completion is not recorded |
| remote nodes (`cli/remote.rs`, `app/remote`, `protocol`) | plans and results with their keys on the node (`remote-operations.json`), SSH streams | handshake, plan, apply, direct mutations | lost answers, retries, a plan that is stale when applied; a plan takes effect once, "applied" is true |
| gateway lifecycle (`gateway/service.rs`, `application/gateway.rs`) | the worker and its channel, server task, prober task, `running_port`, the stored and the live configuration | start, stop, reload, reap, shut down; enable, disable, configure, restart, connect, autostart | a task that ends before its start is recorded; abort after a time limit; callers that read, write and command in steps. One server, a true status, the stored configuration in force |
| gateway routing (`gateway/router.rs`, `health.rs`, `pipeline.rs`, `server.rs`) | channel list, map of channel health, kept WebSocket sessions | order, try, fail over, commit, mark, probe | a probe's result inserted over a newer one; stale snapshots of health; a failure after the first event. No candidate is passed over, nothing is sent twice |
| cloud sync (`services/*_sync.rs`, `sync_protocol.rs`, `db/backup.rs`) | manifest and two artifacts on a server; database and skills of each device | upload, download, verify, apply, roll back | two devices uploading; failure or crash between skills and database; rows written meanwhile |
| protocol conversion and streamed answers (`crates/convert`, `gateway/pipeline.rs`) | the state of each converter (open blocks, counters, usage, signatures), the batch being collected, the task that sends it | one event into a converter; read, convert, commit, send, end | events cut anywhere into network reads, blocks that interleave, failure before and after the first event, an upstream that falls silent. The client gets a well-formed answer of its own dialect with nothing lost, and the truth about its end |
| accounts, usage, sessions, MCP, skills, plugins, catalogue, deep links, updates, views | see `PROJECT.json` | | section 7 |

Interactions: every apply goes through the receipt journal; the journal's
recovery asks the database (`config_apply_heads`) which way to go; views read the
device setting without any lock; the command line either forwards a mutation to
the owner or performs it itself under `mutation.lock`; the remote node calls the
same apply; a synced database replaces the tables the receipts speak about.

## 2. Modules

| module | about | proofs |
|---|---|---|
| `ConfigCommit`, `AtomicConfig` | applying and undoing a connection; what the user is promised of it | `ConfigCommitProofs` |
| `OwnerRuntime` | owner lock, record, socket, probe, daemon start, stop and restart, forwarded and direct commands, the operation journal around a mutation | `OwnerRuntimeProofs` |
| `GatewayService` | worker, server task, prober and stored configuration of the gateway | `GatewayServiceProofs` |
| `GatewayRouting` | candidates, failover, commitment, WebSocket sessions and channel health | `GatewayRoutingProofs` |
| `CloudSync` | devices, the three files on the server, applying a snapshot | `CloudSyncProofs` |
| `RemotePlans` | plans, keys and results of a remote node over the operation journal | `RemotePlansProofs` |
| `Dialects`, `StreamConversion` | the stream converters as functions of one event; one streamed answer from the upstream through the task that pumps it to the client | `StreamTalesProofs`, `StreamConversionProofs` |

An `MC` module gives each of them a small instance.  Left to do are the further parts
named in section 7 (official credentials first).

Each module takes its sets as CONSTANTS, has one action per step of the code
between two points where it may crash or lose the processor, and uses no
RECURSIVE operator, so that it can be proved about.

## 3. `ConfigCommit`: how it corresponds to the code

One switch-mode application is modelled, with `NFiles` live files.  The state is
what survives a crash (`durable`): the live files, the receipts, the provider
records, `is_current` (`dbCur`), the `config_apply_heads` row (`head`), the
drafts, and the current connection in `settings.json` (`device`); and what does
not: each process's settings cache, what a thread of it has read and will act
upon (`seen`), the holder of `config-apply.lock` (`guard`) and the holder's
program counter and locals (`pc`, `job`, `mem`).  The lock serialises jobs, so
one `pc` is enough; what runs beside a job (views, deletions, draft edits, other
programs, restarts of other processes) are actions that need no lock.

| `pc` | code |
|---|---|
| `recover`, `recVerify`, `recComplete`, `recLocal` | `recover_pending_config_commits_locked`: for each pending receipt go forward if the database already has its outcome (`Committed`), else roll back |
| `plan` | `prepare_draft_application` / the checks of `undo_config_apply`, `completed_draft_transaction` when the draft is gone |
| `prepare`, `check`, `cas`, `write`, `written` | `FileCommitTransaction::prepare` and `apply`: save the receipt, check all files, then check and replace each, then save FilesWritten |
| `local`, `commit` | `set_current_provider`, then one SQLite transaction (`commit_editor_application`, `restore_editor_application`) |
| `complete`, `markUndone` | the receipt is Completed; for an undo the original is RolledBack |
| `rbRead`, `rbWrite`, `rbSave`, `restore`, `flag` | `rollback`, the device setting put back, `mark_recovery_required` |

Every step that does I/O takes a result: `ok`, `fail` (nothing happened) or
`late` (the bytes are in place but the caller is told it failed:
`atomic_write_with_mode` renames and then syncs the directory).  `Crash` may come
between any two steps.  A file is one of a few whole contents, and a connection
record is the contents it gives each file, so that equality of records stands for
equality of `provider_revision_hash`.

Left out on purpose: credentials of official accounts (only that a gateway
application cannot be undone is kept), common configuration, OMO profiles,
additive mode, the MCP part of a write plan (it is one more file), renaming, and
symlink, mode and directory bookkeeping.  The snapshot taken of the live files
for the drift policy "save" is the live bytes themselves.  A SQLite transaction
commits whole or not at all.  Draft ids are fresh.  Saving a connection that is
not current is one step; saving one that is (it writes live files) is not
modelled; nor is saving other fields of `settings.json`.

`AtomicConfig` is what the user is promised: applying and undoing are single
steps.  `ConfigCommit` implements it (`ImplementsAtomicConfig`) under a mapping
in which the database transaction is the moment an operation takes effect, a file
already written for a receipt that has not taken effect still counts as what it
was (`EffectiveFiles`), and what an application found is what its receipt stores.

### `OwnerRuntime`

The processes are the daemons (`run_foreground`) and the command lines.  Shared
between them are `owner.lock` (`ownerLock`, which a probing command line holds for
a moment too), `owner.json` (`record`), the socket file (`socket`: the daemon that
bound it), `mutation.lock` (`mutLock`) and the journal of operations.

| state of a daemon | code |
|---|---|
| `starting`, `locked`, `recorded` | `OwnerGuard::acquire`: try the lock, write the record |
| `bound`, `serving` | the socket is bound, `Application::open`; the accept loop |
| `closing`, `dropping` | the loop has ended, the listener is dropped and the socket file removed; early returns skip to `dropping` |
| `unrecorded`, `exiting`, `gone` | `Drop for OwnerGuard` in its two steps; `main` returns while handlers may still be running |

| stage of a command | code |
|---|---|
| `backlog`, `queued` | connected and not accepted yet; accepted, or in a direct process |
| `locked`, `clear`, `running` | past `serial.lock()` and `MutationGuard::acquire`; past `blocking_operations`; past `OperationHandle::begin`, inside `dispatch` |
| `over` | returned, or dropped with its process |

A command line (`client[c].pc`) probes (`active_owner`: take the lock, give it back;
or read the record), then acts on what it found, and polls where
`start_background` and `stop_running` do.  Acting is a step of its own, so what was
found may be stale by then.  `half` says which commands have changed a part of what
they had to change: from the moment `begin` has returned until `dispatch` has done
everything.  A write may fail before or after it took place, and any process may
die at any point; the kernel then drops its locks and the files stay.  Accepting an
interrupted operation (`operation recover`) is one step, under the free mutation
lock, by anybody at any time.

Abstracted: the record is read in one step, pids are not reused, one socket path
(no `--socket`), the second look at the record in `resolve_socket` and the look of
a journaled command at the owner (only for the actor's name) are left out, and so
are version, user and data directory checks, which only refuse.  A shutdown request
and its answer are one step, or the answer is late and the request remains.
Left out: `gateway start` on a fresh daemon (a start followed by a forwarded
command) and the ephemeral owner of a remote session, which has no socket; the
remote half of the journal is in `RemotePlans`.  SIGTERM has no handler, so it is a crash.  The desktop
application takes no owner lock and so is no process of this module.

### `GatewayService`

One process (`host`: a daemon, which handles one request at a time, or the
application, whose tasks run side by side) has callers (`client`) and one worker
thread that takes commands from a channel (`inbox`).

| in the module | code |
|---|---|
| `Steps`, `client[c].at` | what `start_gateway`, `enable_gateway`, `run_gateway`, `connect_provider_to_gateway` and start-up do one after the other; `read` and `write` of the stored configuration are two steps |
| `worker.pc` = `load`, `bind`, `publish` | `GatewayWorker::start`: reload, bind and spawn, store `running_port` |
| `stop`, `join` | `GatewayWorker::stop`: take sender and handle, signal, wait five seconds, abort |
| `server[t].phase` | the spawned task: serving, draining after the signal, returned, port cleared, finished |
| `held`, `probers` | the interval `prober_handle` was started with; the probers that really run |
| `stored`, `live`, `shown` | the configuration in the database, `GatewayState.config`, `running_port` |

Faults: the database fails a read or a write, a port is taken by another program, a
server returns by itself, the process is killed, a command-line process of its own
changes the stored configuration (`ConfigureBeside`, whose reload reaches only its
own gateway).  `failed` remembers what has gone wrong, for properties that except it.
Abstracted: aborting the server task ends the task; connections it had accepted are
tasks of their own and may go on answering, they hold no state of the service.  The
other commands of the worker (dialect detection, model lists, endpoint tests) start
a task and keep nothing.

### `GatewayRouting`

A request reads the channel list and a snapshot of health (`route`, `health`), gets a
queue of candidates (`Orders`: enabled channels that serve it, by priority and
dialect, in any order within a group, since the draw there is weighted and random;
healthy ones only, if there are any), and tries them one after the other (`try`,
`next`).  Each attempt may mark health (`mark`, a step of its own, as the map is
locked only then).  From the first event on it is committed (`pump`, `drain`).  A
WebSocket client keeps the session of its last turn (`open`) and offers it the next
turn first (`existing`).  A probe round (`prober`) reads the list, probes channel by
channel, inserts each result and in the end forgets the channels that are gone; a
reload aborts the periodic one anywhere (`Respawn`).  `upstream` is how an upstream
behaves: `half` answers probes well and requests badly, `hung` never answers.
`ever` is history, for `HealthIsTrue`.

The code stores a reason with `Unhealthy`, and the model keeps one bit of it: `bad` is
unreachable, answering 500 and above, or failed before a first event; `refused` is a
WebSocket that was not opened or whose first frame could not be sent (`RefusesSocket`),
which `ws_session` records whatever the reason, a busy channel or a refused key included.
Over HTTP, and once a WebSocket is open, such an attempt is `Passes` or `Refuses` and
leaves no mark.  The router treats both verdicts alike (`Unhealthy`).

Abstracted: the weights, the converted text, usage logging, thinking signatures,
which error is reported.

### `CloudSync`

Each device has a database, a skills directory and local-only tables (`rows`, how
many rows they have); the server has three files.  An operation of a device (`op`)
goes through the `pc`s `zip`, `put_db`, `put_skills`, `put_manifest` of an upload,
or `get_manifest`, `get_db`, `get_skills` of a download and then `save`, `extract`,
`copy`, `snap`, `import`, `rollback`, `restore` of `apply_snapshot`.  The files are
contents, numbered; a hash is the content.  A directory that was being copied when
something failed is `Half`, which stands for every partial copy.  A PUT that fails
may have reached the server.  `Crash` drops the operation and leaves what is on disk.

Nobody looks at what `Backup::step` answers.  When another process has the database
locked for longer than `busy_timeout`, nothing is copied and the code goes on: an export
is `Blank` (`ExportLocked`), the copy of the local-only tables has none of their rows
(`SnapLocked`), or the import is not written and reports success all the same
(`ImportLocked`, which `unwritten` remembers for `AllOrNothing`).  A download of a blank
export is rolled back (`Refuse`: `validate_basic_state`); a content that is not `Blank`
stands for a database with at least one connection or MCP server, which that check
accepts.  In WAL mode a writer does not block the reading, so the first two are rarer than
the third; the code tells none of them from success.  A database lock that another process
holds for less than that is only time.

Left out: the file copy made before an import (`backup_database_file`, whose step is
not looked at either), the debounced upload worker (`start_worker` is never called in this
commit), the legacy remote layout, the stored status of the last synchronisation,
`sync_current_to_live` after a download, a PUT the server performs long after its
client gave up, and WebDAV and S3 in use on one device at the same time, which have
a mutex each and so do not exclude each other.

### `RemotePlans`

A request is an actor on the node: the handler of one frame in some session.
Sessions keep nothing between frames, so they are not modelled.  `plan` is the
planning half (`provider.switch.plan`: dry run, store, journal), `req` the applying
half, `cmd` the command the request has given to the owner, which runs under
`mutation.lock` as in `OwnerRuntime`.  `stored` and `results` are the two maps of
`remote-operations.json`, each access to which is one step under its own file lock.
`took` counts effects and is history.

| `req[r].pc` | code |
|---|---|
| `sent` | `cached_remote_mutation`: a known key is answered or refused |
| `asked`, `known` | `get_remote_plan`; the second dry run |
| `fresh`, `read` | `annotate_operation`, its read and its write |
| `noted`, `waiting`, `done` | the execution is asked for, is waited for, has succeeded; `complete_remote_mutation`, `cache_remote_mutation` |
| `applied`, `refused` | what the desktop is told, or it is told nothing |

A `View` is what tells one preview from another; `current` is the present one, and a
switch takes it to its `target`.  The first test of the number of plans only refuses
earlier and is merged with the second.  The revision a desktop expects is the planned
one, as it comes from the handle.  Direct mutations under one key are alike (the code
compares a hash of the request).  `GiveUp` stands for everything that ends a request
without "applied": an error, a time limit, the death of the session, a lost answer.
`ChangeHere` is the node's own user, who takes no lock.  A full file loses any one of
its results: the oldest by a clock of seconds.  A confirmation that is to happen
outside the program (`externalConfirmation`) changes nothing and is left out, as are
handshake, policies, reads, node updates and the ephemeral owner of a session.
`Overlap` says whether a plan may be sent again while an attempt at it is under way;
the desktop does not do so (`apply_provider_switch` consumes its handle), another
client of the protocol might.

### `Dialects` and `StreamConversion`

`Dialects` has the four converters as functions from a state and an event to a new
state and what comes out (`Yield`): `ChatToMessages` and `ResponsesToMessages` lead to
the dialect in the middle, `MessagesToChat` and `MessagesToResponses` away from it.
`StreamConversion` chains them as the two dialects need (`Inwards`, `Outwards`, `Pass`
for a pair of equal ones) and puts an upstream before them and a client behind.

| in the module | code |
|---|---|
| `wire`, `Read`, `Elapse` | the body stream and `next_stream_batch` with its limit per batch |
| `pump.chunk`, `pump.mid`, `frames` | the events of one read; what the first stage made of one of them; the batch |
| `Failed`, `Fruitless`, `Fruitful`, `Broken` | the outcomes of `next_stream_batch`, and what `start_stream_response` does with each before the first event (`failover`) and after it (`Apology`) |
| `Send`, `SendFails`, `Sent` | `send_stream_frames`, which stops at the first `Done` or when the client is gone |
| `Settle` | the end of the spawned task: captured signatures are stored, usage is logged |

The upstream gives any answer its dialect allows: blocks of text, thinking and tool
calls in any order, each in pieces, thinking signed or not, any reason to stop, an
error or the end of the connection anywhere.  A block may be empty where the dialect can
say so; chat has no event that begins a block of text or thinking, so there such a block
has a piece (`Shut`).  `ContentIsKept` compares all items with what responses repeats at
the end, empty ones included, and `AccountIsTrue` counts a number the upstream has not
given as zero (`Told`), as `usage.rs` does.  The client is an observer: `Allows` is
what its dialect permits next, `ReadFrame` what it understands.

Abstracted: a piece of text is a number and so is an id; a chat chunk carries one
thing (text, thinking, a piece of a tool call, the reason, the usage); the three delta
events of responses have one name and so have the two that close a part; the byte
parser is the cut of the events into reads, a partial event being no read at all.  The
upstream speaks only while the task reads: what it says at any other time can be read
no sooner, so this leaves out no behaviour.  It finishes one tool call before the next
and sends one part per item (section 6 says what happens otherwise).  Left out:
`response.incomplete`, custom tool calls, the legacy `function_call` reason,
refusals as text, annotations, the request's conversion and the conversion of plain
answers, and the marks on channel health, which are in `GatewayRouting`.

## 4. Runs

| run | asks | result |
|---|---|---|
| `switch` | one process switches between two connections of two files, undoes, retries and recovers; two faults, one foreign write or edit, three receipts | files, device setting and database agree when settled; failures leave no trace; undo restores; implements `AtomicConfig` |
| `shared` | GUI and CLI create and apply the same connection, views, deletions and draft edits interleave, gateway and plain inputs | only recorded bytes are replaced; the planned draft is the one consumed |
| `plugin` | a manifest plugin (no device setting) with both `apply` and `execute_files`, with fairness | jobs return; what is interrupted is settled or waits for a person |
| `owner` | two daemons, one command line that runs commands and one that starts and restarts the daemon, two commands, one fault | a serving daemon can be reached; no lock is left behind; at most one operation is prepared; nothing changes over a half-made change |
| `ownerlive` | one daemon, one command line that does both, two commands, one fault, with fairness | command lines return; commands that were taken up end |
| `gateway` | two callers of one gateway, any two operations, one fault of server, database or process, one other program or process | one server; status and answers are true; the stored configuration is in force and the stored intent followed; every caller is answered |
| `routing` | one client of all kinds, two channels, periodic and manual probe rounds, one change anywhere | the only untrue mark is that of a refused WebSocket; health converges once none is refused; no candidate is passed over; nothing is sent again once answered; turns end |
| `sync` | two devices upload, one downloads, one edit, two failures, lost answers, locks held too long or crashes | no mix is applied; a download is all or nothing, or met a locked database; an upload alone is whole; a device that keeps asking gets database and skills |
| `syncloss` | what a comment says of the local-only tables | violated, see section 6 |
| `remote` | two plans, two requests, two keys, full files, one change on the node, one fault | a plan takes effect once; "applied" is true; interrupted operations block |
| `remotestale` | what a document says of a plan whose revision has changed | violated, see section 6 |
| `stream` | every pair of dialects, any answer of two blocks and two pieces, errors, breaks and silence anywhere, any cut into reads, a client that may leave | what the client is sent is well formed and complete; it is told the truth about the end; signatures and usage are accounted for; every stream ends |

Bounds.  `Receipt` bounds the applications (three: an application, another on top
of it or its undo, and a retry; the chain of heads and the undo of an undo's
predecessor need no more).  `NFiles = 2` is the least with a partly written
state.  `MaxFaults = 2` lets recovery itself fail or crash.  `MaxEdits = 1` is one
change by somebody else; two such changes to one file differ from one only by the
bytes.  `MaxRev = 2` (where drafts are edited) is one edit after the plan.
`InWindow = FALSE` keeps other programs from writing between the comparison of a
file and its rename: in that window the code cannot protect their bytes, as
`rename` does not compare.  Receipts are interchangeable, so `switch` and
`shared` use symmetry; `plugin`, which checks liveness, does not.

In `owner` two daemons are a daemon and its successor, which is what a restart, a
failed start and a late exit need; two commands are one that is interrupted and one
that comes after it, or two that compete.  `MaxPolls = 2` is one look more than the
first (50 in the code), `MaxFaults = 1` one crash or failed write anywhere.
Daemons are interchangeable and so are commands, hence the symmetry.  `ownerlive` is
smaller, as its state graph is searched for cycles: one daemon and one command line,
which gives up waiting for a command and sends another one, so that two commands
wait for each other in the daemon, or restarts it under them.

Fairness of `ConfigCommit` (`FairSpec`).  `WF(JobStep)`: a running job never waits, as the lock is
tried and not waited for, so the scheduler lets it go on.  `SF` of starting a
recovery: the application recovers at start-up, a user who sees the refusal
starts it again, and while a job holds the lock a recovery is not possible, so
weak fairness would say nothing.  Crashes are not fair and are bounded.

Fairness of `OwnerRuntime`: `WF` for each daemon, each command and each command
line, that is, threads are scheduled and I/O, the network calls of a command
included, comes back (they have time limits).  It is weak, and per actor: nobody
waits for a lock except for `serial`, and what follows it ends by itself.  New
commands, Ctrl-C, crashes and acceptance by a person are not fair.

Bounds of the other runs.  `gateway`: two callers and two operations are what a race
between a start and a stop, or of either with a reload, needs; two server identities
are a server that drains and its successor; two ports, as a reload may change the
port under a listener; intervals 0 (no prober) and 60; one fault.  `routing`: two
channels are one to fail and one to fail over to; one client that asks in all four
ways has everything a request keeps from one turn to the next; the interleaving that
matters is that of requests with rounds, so there are two of those, one periodic;
one change (an edit, an upstream that begins to behave differently, a restart of the
prober) may come anywhere.  `sync`: two devices, one edit, and two faults, so that a
rollback may fail too (a lock held too long is one of the faults); one device downloads, and two downloads of two devices do not
meet, as a download changes nothing on the server.  `remote`: two plans compete for
room for one (`MaxPlans = 1`, `MaxKeys = 1`; 128 and 256 in the code), two requests
may be attempts at one plan or at two, or direct; one change by the node's user, one
fault.  `remotestale` has room for both plans and no fault at all, so that the
disagreement owes nothing to either.  `remote` uses symmetry in all four sets.  `stream`: two blocks are the least that follow each other, in one
kind or two, and two pieces make one block that is continued or two with one each;
`MaxWire = 3`, as the end of a chat answer is three events at once; the routes are all
nine pairs with a prompt of which a part was cached, one with a prompt smaller than
what was cached of it, one without usage and one whose client has not asked for it;
`ErrorThenDone = FALSE` (section 6 says what `TRUE` shows).  Three blocks (3,571,927 distinct states without
liveness) have been checked too; what depends on more than two, the proofs cover.

Fairness.  `GatewayService`: `WF` of the worker and of each caller; the worker's wait
for a server is over after five seconds, and nothing obliges a server to end.
`GatewayRouting`: `WF` of each request's own step except where it waits for a silent
upstream (`Hanging`: nothing limits the wait for headers or a plain body), of each
probe round, and of the start of the periodic one (the interval is above 0).
`CloudSync`: `WF` of each device's step, since every request has a time limit;
uploads, downloads, failures, locks and crashes are not fair; since faults are bounded,
`SettledIsServed` says that nothing an earlier one left behind keeps a device from what is
on the server, not that a database locked for ever gets written.  `HealthConverges` speaks
of a channel that works and that from some point on refuses no client's WebSocket: a client
that is refused again and again marks it anew after every round.  `RemotePlans` states no
liveness: a request may always be given up.  `StreamConversion`: `WF` of the task
(`Pumps`: it is scheduled, and the client reads or is found gone) and of `Elapse`
(time passes); the upstream owes nothing, not even the end of its body.

## 5. Proofs

### `ConfigCommitProofs`

For every number of processes, files, connections, drafts, receipts, faults and
edits, from `ConfigConstants`, `NoneIsNoRecord` and `NoneIsNotFound` (types of the
constants, and that `None` is not one of the values it stands in for):

- `TypeCorrect`.  `TypeOK` is not inductive: after `check` a step reads
  `journal[mem.rcpt].before[mem.idx]`.  `TypeInv` adds what each `pc` knows
  (`ControlOK`: from `check` on there is a receipt in memory, on `cas` and
  `write` the index is a file's, a `commit` has a context) and that the reverse
  receipt's original has a context (`UndoesAnApply`).
- `OnePending` and, with `HeadWritten`, `HistoryAlwaysSound` (the run's
  `HistoryIsSound`).  `PendingInv` says where a pending receipt may be when a job
  runs: between recovery and prepare there is none, after prepare it is the
  job's own.
- `ForeignBytesSurvive`.  With no writer inside the check-and-rename window, a
  step of OcHub changes a file only from the receipt's recorded "before" to its
  "after" or back.  `WindowInv` says that on `write` and `rbWrite` the file still
  holds what the step before compared it with.
- `HeadWritten`.  By itself `HeadIsWritten` is not inductive: an undo makes the
  previous head the head, so that one's own predecessor must be fine as well.
  `HeadInv` gives a finite-or-infinite set of receipts closed under "previous
  head" that are all Completed and none of which is being undone, which needs no
  induction over the chain.
- `ConsumesThePlanned` (the run's `ConsumedDraftIsThePlanned`), without a hypothesis.
  Between the plan and the commit anybody may edit, discard and create drafts.
  `DraftInv` says that the receipt's context is the job's plan (`OfPlan`) and that a
  draft which is at the planned revision still has the planned input and base; the
  commit's comparison of revisions does the rest.
- `FilesMatchHead`, that is `SettledFilesMatchHead`, assumes `Builtin`: a plugin's
  `execute_files` writes files without a head in the database.  The invariant
  `FilesInv` says, for each place of the holder, which files are as the receipt found
  them and which as it gives them, up to bytes of other programs (`HandFiles`); that a
  pending receipt has either been committed or every file is one or the other
  (`PendingFiles`, what a recovery relies on); that at rest all are as the head gave
  them (`RestFiles`); and that each receipt in the journal found what the application
  before it gave (`AllReceipts`, which an undo needs: it goes back two receipts).
- `RestIsInStep` (the run's `SettledIsInStep`), `DriftIsOfTheLeft`
  (`DriftSavedWhenInStep`) and `ReportsHold` (`ReportsAreTrue`) assume `Alone`: a
  built-in application, one process, none of its views deleting.  This is a limit of
  the code: a second process goes by its own copy of settings.json (section 6), and a
  connection deleted during an application leaves the database without a current one.
  `DeviceInv` follows the setting: where it is the connection being left (`From`),
  where the one being selected (`To`), and that only a step which has still to put it
  back (`Putting`) may leave it out of step with the database, unless such a step was
  lost (`unrestored`).  `UndoneInv` adds what an undo has given back by the time it
  reports.
- `AtomicIsImplemented`: the refinement (`ImplementsAtomicConfig`), first state and
  every step.  While a receipt is open, the files it has written count as what they
  were; so the database transaction of an apply or an undo is `Apply` or `Undo`, a
  mark of an undone receipt `Forget`, another program's write `External`, saving a
  connection `Edit`, the step that gives up `Flag`, and every other step is invisible
  (`HiddenMapped`).  A rollback and a recovery's completion are therefore invisible
  too, which is the point, except where a rolled back receipt is closed over bytes of
  another program that equal its own (`External` again: they come into view).  Besides `HeadInv`, `FilesInv` and `WindowInv` it needs
  `HoldInv`: what an application gives the records and the files is the same
  configuration (`Shape`), what is to be undone is done and not in hand (`Originals`),
  and at each place of the holder in which state the receipt is and that the current
  connection is the one it found (`HandStates`).  Its hypotheses: `Builtin` (a plugin
  writes without a head); no view deletes connections (`AtomicConfig` has no deletion);
  `~InWindow`; and `[][NoCoincidence]_vars`: over bytes the open receipt did not find,
  no other program writes exactly those it gives.  The last is needed.  With two
  external contents and three edits TLC finds: a program writes x, an application over
  it is being undone, and before the undo writes a program writes y and then x again.
  The undo's own "after" is x, so the code, which compares bytes and nothing else, has
  to take the second x for its own write, and a rollback would put the application's
  bytes back over it.  With the single external content of the run it cannot happen.

### `OwnerRuntimeProofs`

For every number of daemons, command lines, commands, polls and faults, from
`RuntimeConstants`:

- `RuntimeTypeCorrect`: `TypeOK`, which is inductive here; the polls need their test
  before they are counted.
- `OwnerIsReachable`, from `OwnerInv`: a daemon has a guard exactly while the lock
  names it and a command line probes exactly while the lock names it, so nobody
  else is between taking and dropping; and from its writing on, record and socket
  are the holder's, because their writers hold the lock.
- `LocksAreFreed`, `OnePrepared` and `NothingOverInterrupted`, from `LockInv` and
  `JournalInv`.  None of the three is inductive alone: that a command may begin
  needs that nothing became prepared since it looked, which needs that it is the
  only one past the lock, which needs that the lock is never released for somebody
  else.  `JournalInv` says what each stage knows of the journal, `LockInv` that at
  most one command is past the lock, that its process holds it, and that it is held
  for nothing else.  `ChangesTakeTurns` joins the last two in the run's
  `OneChangeAtATime`.

### `GatewayServiceProofs`

From `ServiceConstants`, for any callers, ports, intervals and bounds.
`ServiceTypeCorrect` needs `InboxInv`: who waits in the channel is a caller that
waits.  `OneServerAlways`, `StatusAlwaysTrue` and `AnswersAlwaysTrue` rest on
`ServerInv`, which says for each `pc` of the worker what sender, handle and task it
has (between spawn and join there is one task and its handle is kept; without a
sender there is no task at all once the worker rests), and `ProberInv`, that the
probers that run are the one `prober_handle` was given.

`InForceAlways` (the run's `ConfigInForce`) has no hypothesis either.  `HeldInv` says
that what the worker has loaded is what is in force and that the prober goes by it.
`ForceInv` is the argument of the code's callers: only the daemon's configure changes
port and interval, and as long as no database step failed and nobody wrote the
configuration beside the daemon, what is in force is what is stored or some caller has
still to reload it.
`IntentAlwaysFollowed` (`IntentIsFollowed`) follows one request of the daemon:
`OneRequest`, that there is one at a time besides a close, and `Progress`, that at each
of its steps the stored intent and the listener are as far as the request is; that the
worker's answer is true (`AnswersAlwaysTrue`) is what joins the two.

### `GatewayRoutingProofs`

From `RoutingConstants`.  `RecInv` relates a request's queue, the channels tried and
the one in use: the queue has no repetitions and no channel already tried, and
queue and tried together are the candidates.  `NeverPassedOver` and
`AlwaysSentOnce` follow from it.  `HealthAlwaysTrue` needs `VerdictInv`, that every
verdict in hand is one its channel has given cause for; `ever` only grows, so what
others do in between cannot make it false.  That a channel which has always worked is never
unhealthy is not true of the code and not what is proved: a refused WebSocket is a cause of
its own (`refused`, section 6).

### `CloudSyncProofs`

From `SyncConstants`.  `NeverApplyAMix`: `SnapInv`, that a manifest on the server and
the one a download holds were built by an upload.  `AlwaysAllOrNothing`: `ApplyInv`,
which says for each stage of an application what database, skills and the saved copy
are (`Stage`); a crash resets the operation, so the next one starts from whatever is
there.  What it says of a download that succeeds has one exception, in the property as in
the code: the database was locked when it was to be written (`unwritten`), and then it is as
it was found.  `AloneIsAlwaysWhole`: `AloneInv`, that as long as an upload is alone the files
it has sent are the ones on the server.  `AlwaysMovedWhole` joins the two in the run's
`MovedWhole`.

### `RemotePlansProofs`

From `RemoteConstants`.  `RemoteTypeCorrect` and `AppliedAlwaysTrue` (`TrueInv`: who
has executed, and every result on file, has an effect behind it) hold without
restriction.  `NeverTwice`, `AlwaysOnceAndTruly` (the run's `AppliedOnceAndTruly`) and
`InterruptedAlwaysBlocks` assume `~Overlap`.  Their
invariant is `LockInv` (one command past the lock), `SingleInv` (one attempt at a
plan at a time), `RecordOf` (a plan whose record says Planned has not taken effect,
and nobody can bring that back), `AttemptOK` (what each stage of an attempt knows of
the record) and `OpenInv` (what has begun is recorded as Prepared).

### `StreamTalesProofs`

Of usage, with no assumption but that `None` is no number: `UsageIsNatural`, no
conversion counts below zero; `UsageComesBack` and `UsageGoesThrough`, the two directions
are inverse to each other, the second as long as the prompt counts in what was cached of
it.

Of types, from `StreamConstants`: `StreamTypeCorrect`.  `TypeOK` is not inductive: that a
converter's output is well typed needs that its input has the kind its name asks for, so
`TypeInv` has `Seq(Msg)` and `Seq(Frame)` for `Seq(Event)`, and `SaidInv`, that a block
the upstream has begun is in what it has said.

The rest are lemmas for `StreamConversionProofs`:

- what each constructor of an event is, and what the converters make of the three kinds of
  events, `Calm`, `Ending` and `Failing`: a calm event yields calm ones only, an error
  event a report of the error, and an end that reaches the client has the mark behind it;
- the invariant `IInv` of how an answer ends.  `FlowInv`: no event under way tells of an
  end the upstream has not made, or of an error while it may still make one.  `BatchInv`: a
  batch is `Orderly`; an end has its mark behind it, a mark its end or error before it, and
  an error is there only if the task knows of it.  `TellInv`: once the client has been told
  of an end or an error, what is left of the batch can only confirm it (`TellsOfError`);
- tales.  A `Tale` is what has come of an answer for somebody who reads at one point of its
  way: how far it is, its content, its usage, its reason, its signatures.  `Tell(t, f)` is
  the tale after one more event, `May(u, d, t, f)` that a teller `u` (an upstream, a
  converter in the middle, the gateway) may say `f` next in dialect `d`, and
  `Along(u, d, a, q, b)` that the events `q` lead from `a` to `b`.  `Along` asks for a
  sequence of tales, one for each place in `q`, and not for a recursive definition, so that
  its laws (`q` empty, one more event, two runs joined, the first event taken off) need no
  induction over data; the client's own reading, `ReadFrame` over `Allows`, follows the
  same tale (`Reads`).

### `StreamConversionProofs`

From `StreamConstants` and `~ErrorThenDone` (section 6 says what happens without), for any
routes, bounds, answers, cuts, breaks and time limits:

- `WellFormedAlways`: the client is sent nothing its dialect forbids.
- `FailureAlwaysTold`: it is told the truth about the end, and the log says the same.
- `ContentAlwaysKept`: nothing is lost, doubled or moved to another block or tool call, and
  "over" means all of it, with the reason.
- `AccountAlwaysTrue`: usage in the log and at the client, captured signatures.

All four follow from one invariant, `IInv` with `KeepInv`.  None of the properties is
inductive, as each compares what the client has heard with what the upstream has said, and
most of that is under way: on the wire, in the chunk being converted, between the two
stages, in the state of a converter, in the batch.  So the invariant says where every part
of the answer is.  Five tales stand for the places: `v` is told by all the upstream has
said, `u` by what has been read of it, `n` by what the first stage has made of `u`, `m` by
what the second stage has read of that, `t` by all that is meant for the client.

- `Source(v)`: the upstream's tale is what it has said, which each of its actions keeps.
- `FirstMakes` ties `u`, the state of the first converter and `n` together; `SecondMakes`
  does it for `m`, the second converter and `t`: the state of a converter is what is open
  in the tale it reads, and what it has yielded tells the same content in its own dialect,
  with usage in its convention.  `PassedOn` is the relation where nothing is converted.
  One lemma per converter and event shows that a push keeps these (`ChatGoesAlways`,
  `ResponsesGoesAlways`, `ChatTellsAlways`, `ResponsesTellsAlways`).
- `OnTheWay` puts the places together; `StoryInv` says that while the task runs there is a
  tale the client has heard, that the batch leads it to `t`, and that the rest is on the way
  unless the task has given up; `RestInv`, that a read is converted whole before anything
  is sent or read.
- `HeardInv` and `AccountInv` keep what is true when the task is over and the tales are
  forgotten: at the end of the upstream's tale `u` has all of it (`ReadToTheEnd`), and
  content, reason, usage and capture follow through the stages (`WayEnds`, `Outcome`).

For each action there is one lemma that it keeps `KeepInv`.  TLC had checked `RestInv`,
`HeardInv` and `AccountInv` on the run's instance before they were proved.  Two
things came out of the proof.  With two blocks TLC had not seen that an empty text block of
a chat upstream, which no chat stream can contain, has no trace in what the client
hears; such an upstream is excluded now and the comparison of items is exact.  And usage
with a part missing was compared with zero without being read as one.

### What is only model-checked

Every invariant and action property of the runs that are expected to pass is proved, as is
that `ConfigCommit` implements `AtomicConfig`.  Only model-checked are the liveness
properties (`InterruptedIsSettled`, `CommandsReturn`, `OperationsEnd`, `HealthConverges`,
`TurnsEnd`, `SettledIsServed`, `StreamEnds`), which are out of the prover's reach, as are
ENABLED and induction over data.

## 6. Where code and text disagree

Shown by a run:

- `syncloss`: the local-only tables are copied, and the imported database is written
  over the old one later; rows other threads have committed in between (a draft, the
  head of an applied change, a request's usage) are lost, although a comment says
  these tables are preserved.
- `remotestale`: a remote plan is refreshed in one execution and applied in another;
  a change in between is overwritten although a document says the old plan is not
  carried out.

Seen while modelling, without a run:

- A channel that answers a WebSocket handshake with 401, 403, 404, 426 or 429, or whose key
  or extra headers make no header value, is recorded as unhealthy (`gateway/server.rs:389`),
  although `gateway/health.rs:3` counts any HTTP response below 500 as healthy, "even
  401/404", docs/design/ochub-console-2026-10-13/DESIGN.md:72 says that 401 and 403 prove a
  channel reachable as well, and requests over HTTP leave no mark for it.  Of
  `\A c \in Channel : health[c] \in Unhealthy => ever[c] # {"up"}` as an invariant of the
  run `routing` TLC finds a counterexample: one WebSocket turn of which the first channel
  refuses the handshake.
- An import that finds the database locked writes nothing and reports success
  (`db/backup.rs:146`: `Ok(StepResult::Busy)` is dropped), so that a download ends well with
  the new skills and the old database, although `services/sync_protocol.rs:322` rolls the
  skills back when the database fails and `db/backup.rs:141` calls the write atomic.
  `AllOrNothing` excepts it (`unwritten`); without the exception TLC finds it violated by an
  upload, a download and one lock, with no other fault.
- The connection being left is taken from the process's own settings cache
  (`application/config_commits.rs:602`), although `services/provider/live.rs:674` says
  the live version goes into the provider being left, and docs/CLI-DESIGN.md:24 wants
  one owner only to write; the GUI takes no owner lock.  After another process's switch, saving the drift stores the live bytes in the
  record of the wrong connection: with `Proc = {"gui", "cli"}` and drift, TLC finds
  `DriftSavedWhenInStep` violated; the runs check it with one process.
- A rollback is recorded before the device setting is put back
  (`application/config_commits.rs:981` and `:347`); a crash or a failed save in
  between leaves the setting on the connection that was never applied, with nothing
  pending to recover.  `DeviceFollowsDb` excepts this (`unrestored`).
- An undo whose last save fails leaves its original Completed; once the restored
  draft is gone a retry of the application is answered "applied".
- A view that found the device connection missing clears the setting after that
  connection has been created and applied (`settings.rs:1052`).
- A command that found no owner takes only `mutation.lock` (`cli/run.rs:176`), which
  an idle daemon does not hold; a daemon that has started in between serves
  meanwhile.
- A server that fails between its spawn and the publication of its port leaves a port
  shown that nobody listens on, until the next start or stop
  (`gateway/service.rs:424`).  `StatusIsTrue` excepts servers that fail by
  themselves.
- In the application two windows may enable and disable the gateway at once: the
  stored intent and the listener can then contradict each other
  (`application/gateway.rs:123`), which is why `IntentIsFollowed` speaks of the daemon.
- Tools are configured with the stored port while the listener may still have an
  older one until it is restarted (`application/gateway.rs:739`).
- Nothing limits the wait for an upstream's headers or for a plain body
  (`gateway/pipeline.rs:1547`).
- A crash between the skills and the database of a download leaves new skills with
  the old database, and the directory set aside is never looked for again.
- With `Overlap = TRUE`, `annotate_operation` of a second attempt at a plan can write
  the record it has read over the first attempt's Prepared or Completed; TLC then
  finds a plan that takes effect twice, also under one key.
- A direct mutation that is retried with its key before its result has been recorded
  (the session died in between) is executed again; docs/REMOTE-NODES-DESIGN.md:408-410
  asks for a retry only where the same key makes it safe.
- With `ErrorThenDone = TRUE` (a chat upstream sends an error and then `[DONE]`, read
  together) TLC violates `FailureIsTold`, and with it `ContentIsKept` and `AccountIsTrue`
  (`WellFormed` holds): the converter makes an end of the `[DONE]`,
  the batch is sent up to that end, and the error frame behind it reaches nobody, so that
  a client of responses is told "completed" of an answer that failed
  (`gateway/pipeline.rs:1904-1924`).
- Chunks of two chat tool calls that interleave are taken for new blocks
  (`chat_upstream.rs:582-590`): a piece that comes back to the first call opens a
  further block with an empty id.
- One counter numbers the blocks of `ResponsesToMessagesStream`
  (`messages.rs:483`, `:644`): an item with several text parts closes one block and
  goes on under an index that was never opened; a custom tool call opens a block that
  nothing closes (`messages.rs:580`); `response.incomplete` ends nothing, so such an
  answer is taken for a broken one.

## 7. Not modelled

- Official credentials and managed accounts: device-code login and token refresh are
  conversations with external services.  Logging in, switching and removing an account
  are commands that run one at a time under `mutation.lock`, which `OwnerRuntime`
  models; refresh beside them would be the part worth a module.
- The text of configuration files (`apps`, `provider_config`, `services/provider`,
  `gateway/apply.rs`): which bytes a connection becomes.  The models take one content
  per connection and file.
- Of protocol conversion (`crates/convert`): requests, plain answers, tool schemas, the
  store of signatures and the byte parser are functions without state between calls,
  mostly wording and layout; `GatewayRouting` keeps of them that a conversion may
  fail.  The stream converters are in `Dialects`.
- Usage, sessions, statistics: parsing of other tools' logs and SQL aggregation.
- MCP servers, skills, prompts, plugins, catalogue: edits of tables and files one at
  a time at a user's request; a manifest plugin's write and the skills directory of a
  download are modelled where they meet other state.
- Views, argument parsing, output, deep links, updates, autostart: presentation and
  the operating system's own mechanisms.
- Schema and migrations: linear SQL, one transaction each; the models assume that a
  SQLite transaction commits whole or not at all.

These parts are most of the repository's lines and few of its state changes: two
thirds of the code is views, tables, parsers and formats.
