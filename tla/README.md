# TLA+ models of the doktainer server

doktainer is a panel for Docker hosts: a Next.js front end, a Fastify server
(`src/src/server`) in one Node.js process, a PostgreSQL database reached through
Prisma, and hosts reached over SSH. This directory models what in the server is
concurrent and hard to test: the layers that run commands on a host, the jobs
that report their output to a browser, the terminals, and the rows, hosts and
files that requests and their background work change at once.

The server has no lock anywhere. Whatever it keeps in memory (queues,
connections, jobs, sessions, caches) is changed by code that runs to its next
`await`, so that the hazards lie between two awaits of one request, and between
rows, memory and hosts. The models take one step per such stretch of code.

## How to run

    tlc -workers 2 -config CommandQueue.cfg CommandQueue
    tlapm SshProofs.tla

`PROJECT.json` lists every run with its module, its configuration and what it
shows, which lines of the source each definition stands for (`map`), and the
hazards with the properties that watch them. A run that expects `violation` shows
a defect of the code and is explained under *Findings*. `PROJECT.json` also names,
for every property, a *mutant*: an operator `Wrong...`, written next to the one it
would replace, that makes the model the way a plausible mistake would make the
code. TLC finds the property violated with it, which shows that the property
can fail in this model at its bounds.

## Inventory

Paths are relative to `src/src/server/`.

| Component | Source | State it keeps | Operations | Module |
|---|---|---|---|---|
| Command queues | `services/ssh-services/commands.ts` 12-225 | per server, the tail of a chain of promises, in two maps | `enqueueCommand` | `CommandQueue` |
| Streamed command | `commands.ts` 14-135, 281-571 | settled flag, abort listener, timer, channel; on the host a wrapper, its child, a pid file | `streamCommand`, abort, timeout, kill script | `StreamCommand` |
| Exec with retry | `commands.ts` 227-375 | an attempt counter | `exec` | `SshExec` |
| Connection pool | `services/ssh-services/connection.ts` | `pool`, `connectionPromises` | `getConnection`, `closeConnection`, lifecycle listeners | `ConnectionPool`, composed in `SshExec` |
| Process jobs | `services/process-job.service.ts`, `routes/containers.ts` 1503-1831 | status, log, cancel function and subscribers of a job; an NDJSON response per stream | create, run, append, cancel, prune, stream | `ProcessJobs` |
| Terminals | `routes/terminal.ts`, `services/terminal-ticket.service.ts` | tickets; sessions with their shell and socket | ticket, open, join, create, list, delete, close, expire | `TerminalSessions` |
| Accounts | `routes/auth.ts`, `routes/organizations.ts`, `routes/users.ts`, `lib/organizations.ts` | users, organizations, memberships, default and active organization, invitations | register, create, switch, delete, invite, accept, add, remove, change role | `Accounts` |
| Authentication | `middleware/auth.ts` | none (throttle of `lastUsedAt`) | resolve user, organization and role of a request | context and role checks in `Accounts` |
| Containers | `routes/containers.ts`, `ssh-services/docker-*.ts` | rows; the host's containers; a metrics cache | list, sync, deploy, action, rebuild, remove | `ContainerInventory` (not the metrics) |
| Apps | `routes/apps.ts`, `app-install-rebuild.service.ts` | rows; cache of runtime states | install, overlay, action, rebuild, remove | `AppInstalls` |
| Domains | `routes/domains.ts`, `domain-provisioning/*` | rows; configuration files of nginx, Caddy, Traefik | create, update, sync, delete | `DomainProvisioning` (not sync) |
| SSL | `routes/ssl.ts`, `ssh-services/ssl.ts` | rows; renewal operations in memory; certbot's lineages; nginx's references to them | issue, renew, delete, sync | `SslCertificates` |
| Backups | `routes/backups.ts`, `storage-destinations.ts` | rows; files on hosts and in S3 | create (in the background), restore, delete, edit a destination | `Backups` |
| Servers | `routes/servers.ts` | rows, cascades over everything on a server | create, test, health, delete | closings in `SshExec`, deletion in `Backups` |
| Projects, networks | `routes/projects.ts`, `routes/networks.ts` | rows; docker networks | create, update, sync, delete | no |
| Two-factor, settings | `routes/auth.ts`, `routes/settings.ts`, `two-factor.service.ts` | pending and active secret of a user; settings | setup, enable, disable, reset | no |
| Notifications, panel access | `notification.service.ts`, `panel-access.service.ts` | de-duplication map; the panel's proxy files | dispatch; configure | no |
| Git, security, web stack, catalog, audit, logs, API keys, libraries | the rest | rows, or nothing | pure I/O, parsing, single writes | no |

How they interact: a route checks the user (`authenticate`, `requireRole`), reads
rows, and awaits commands on a host. A command goes through the server's queue
(`CommandQueue`), takes the server's one connection (`ConnectionPool`), and, inside
a job, is streamed into the job's log (`StreamCommand`, whose output is
`CommandOutput` of `ProcessJobs` and whose `AbortSignal` is `aborted` of both).
`SshExec` puts the two queues and the pool together. Terminals use the pool and bypass
the queues. Two queues share one connection, and
a command that times out, a route that deletes a server or an organization, and a
failed health check close it under everybody.

What is hard, in short (`PROJECT.json` has every hazard at its line): state read
before an await and used after it; late events of an object that was replaced
(connections, sockets, promises); aborts and timeouts that race the step they
should stop; check-then-write across requests; a background task whose row is
deleted meanwhile (its rejection is handled by nobody and ends the process);
rows written from a listing that was overtaken; in-memory operations lost on restart.

## The modules

### `CommandQueue` (with `SerialExecutor`, `SshProofs`)

`enqueueCommand` chains each call's promise `next` after the `queued` promise of the
call before it; the map holds the last one per server. A task is one call. `phase`
says how far its chain has come (`chained`: waits for `previous`; `running`: `task()`
was called; `settled`: `next` has settled and its `finally` is to run; `done`: `queued`
has settled). `Enqueue` is the synchronous part of the call, `RunNext` the reaction to
`previous`, `TaskSettles` the command, `Finally` the `finally` handler with the answer to
the caller, `QueueTimeout` the timer. Timers are macrotasks, so they fire only when
no reaction is pending (`Quiet`). `order` and `arrivals` are history.

`SerialExecutor` is what a caller may rely on, without promises or map: each server
runs what is submitted in order, one at a time, the next one as soon as none runs,
and withdraws only what waits. `Executor` is the refinement mapping: those that wait are
the chained calls that were not cancelled, the active one is that whose task was called
and whose answer has not been given, places are `order`. `ImplementsSerialExecutor` says that
the fair queue implements it, fairness included; that every step is one of the executor's, or
none, is proved (`QueueImplementsExecutor`).

Properties: tasks of a server are exclusive (`MutualExclusion`) and start in order of
arrival (`StartsInOrder`); a call answered with a queue timeout never runs
(`TimedOutNeverRuns`) and a timed call is not stuck behind a hung one
(`TimedCallNotStuck`).

*Bounds.* Three calls on two servers. Three is the least for an older `finally` to
meet a newer entry while a third call arrives; the two maps of the code are
instances of the same function. *Fairness* (`LoopSpec`): the event loop runs every
reaction and timer; nothing is assumed of a command.

### `ConnectionPool` and `SshExec` (with `SshProofs`)

`pool` and `connectionPromises` for one server id, as both maps are only used at the id
at hand. A connection is numbered by its handshake; `conn` follows its transport
(`ending`: disposed, `end` and `close` to come; `closing`: `close` to come).
`GetConnection`, `ConnectOk`, `ConnectFail`, `CloseConnection` and `LifecycleEvent` are the
code's functions; `Drop` is a transport that ends by itself, external to the code,
with the listener it runs. `Reconnect` is what a caller does that failed once: it takes
the failed connection out and asks again.

`SshExec` composes the pool with the commands that use it. That each queue runs one
call at a time is what `CommandQueue` proves (`MutualExclusion`), so that a queue is one
user of the pool here: `Exec` is the present call of `commandQueues`, which may have a
timeout and retries once after a recoverable error, `Stream` that of
`streamCommandQueues`, which does not retry, and whose timeout is armed only in the
callback that brings its channel (`ChannelOpens`, `armed`; `commands.ts:537`). A command
timeout closes the shared connection, also under the other queue's command; routes close it
too. The others that take a connection (shells, metrics) do as an untimed call does.

Properties: the pooled connection is alive although late events of older connections
close whatever is pooled (`PoolIsAlive`); every connection beyond the first is paid for
by a run of `closeConnection` (`ClosesAccountForConnections`), which a retry adds none
to; and a call of `exec` with a timeout is answered, in its first attempt or its second,
and so is a streamed one that has its channel (`TimedCallsSettle`). Nothing of the kind holds
of a call without a timeout, which hangs its queue with its command, nor of a streamed one
whose channel is never opened (`TimedStreamsSettle`, see *Known divergences*).

*Bounds.* Three calls on the two queues, hence at most six handshakes, and one closing
by a route besides those by timeouts: enough for two handshakes in flight, a third that
follows, and a retry that meets the other queue's timeout. *Fairness* (`ExecFairSpec`): one
weak fairness on `Progress`, the disjunction of what `readyTimeout`, the command timer and
the event loop guarantee; as there are finitely many calls and handshakes, it suffices
that one of these happens while one can. Neither a command nor the opening of a channel
is assumed to end.

### `StreamCommand` (with `SshProofs`)

One `streamCommand` call with the wrapper of `buildTrackedCommand` on the host, and the
script of `terminateTrackedRemoteCommand`. `options` are those the callers pass: run id,
signal and perhaps a timeout (`execStrict` within a job), or none (`exec`). `'end'` and
`'close'` of a channel come in either order, since the handlers are written for both. The pid file is
created before it is written, as a shell redirection does it. The script's attempts to kill end in
`|| true` (`commands.ts:72`), so that a host which lets the panel neither signal the
command nor use `sudo -n` leaves it running, unnoticed: `killable`, which stays as it is, says
which host it is. `early` is history: the call was stopped before the wrapper had recorded the pid.

Properties: an aborted call settles even if its command never ends (`AbortSettles`); and of a
stopped one the terminating script has been begun and, once it is through, has killed the
command if the host allows that, or has missed it, which happens to a command that still
runs or is still to come only if the call was stopped early (`StoppedCommandAccounted`). This
is the real extent of what the code achieves: a script that cannot reach the host, a host that
refuses the signal and an early stop leave the command running. *Bounds*: none, the state
is finite. Deadlock is checked: `Over` is the only end. *Fairness*: ssh2 answers or fails what it
is asked, the opening of a channel included (before that nothing of the call listens to its
signal; `SshExec` does without this assumption), scripts run, timers fire; nothing is assumed of
the command, or of the queue before it.

### `ProcessJobs` (with `ProcessJobsProofs`)

The map of jobs, the runner that starts in the microtask after the route that made
the job (`scheduled`; `Idle` says that nothing else runs before it), and the streams. A
log entry is its id. `Heeding` are the jobs whose commands have their turn and heed an
abort; the handler of any other may hang, as one that waits in `exec` does.

Properties: a cancellation, once requested, decides the job (`CancellationDecides`) and
has reached its commands (`CancellingAborts`); a stream shows the entries without gap
(`StreamHasNoGap`) and is up to date, its job not pruned (`StreamUpToDate`); a cancelled
job whose commands heed an abort ends (`CancelledJobEnds`).

*Bounds.* Two jobs (one heeding), two streams, one stored entry per job
(`MaxLogs`; the code keeps more) and a third entry at most by commands, so that trimming
happens at every append. Each client streams once: a second stream is another client.
*Fairness*: microtasks and intervals run; the handler of an aborted heeding job answers.

### `TerminalSessions` (with `MCTerminalSessions`, `TerminalProofs`)

Tickets, web sockets and shells. A socket comes with a ticket (`Open`), its access is
awaited (`Join` or `Create` follow), a shell's opening is awaited (`ShellOpened`), and only
then are the socket's handlers registered: `CloseEvent` before that is seen by nobody. A
session object is a number of `Shells`, and `sessions` are those in the map; a session
put over another of the same id makes that one unreachable. A client that names no id gets a
random one (here the shell's number), which `ready` tells it and a later ticket may name.
`contended` is history: the ids under which two sockets were alive together, whoever's, and
those whose shell was put over one still attached to a socket that had gone before its
handlers were registered. The code does disturb sessions in both cases: that older shell is
detached by nobody, and when it ends, `destroySession(session.id)` (`terminal.ts:132`) destroys
whatever the map then has under the id, another user's shell included. Servers are not told apart:
a ticket for another one is refused as one for another session is.

Properties: a ticket admits one socket (`TicketAdmitsOne`); a socket is attached only
to a shell of its own user and id (`AttachedToOwnShell`); a live shell is in the map
unless a later one of its id replaced it (`LiveShellReachable`); under an id that is not
contended nothing but a deletion and its own end takes an open socket's shell, its output or
its entry away, however many users had the id before (`OnlyOverlapDisturbs`).

*Bounds.* Three sockets and tickets, two users, one id that clients choose (others are
random), two shells: a socket replaced by a second while a third comes is the longest
chain the handlers distinguish. Sockets, tickets and users are interchangeable
(symmetry); only safety is checked.

### `Accounts` (with `MCAccounts`, `AccountsProofs`)

A handler is two steps: what it reads and checks (`Begin...`), and its transaction
(`Commit...`), with other requests between. `Fail` is a query that throws, or a check
between the two that refuses. The deletion of an account ends only those requests that would
write its row; what it had asked for about others goes on (`WritesAccount`). A transaction is one step: PostgreSQL's READ COMMITTED
could let two transactions see each other's halves, which is left out, while every read
that decides something is made in the first step, as in the code. The panel starts
empty. `raced` is history: users about whom two requests were in progress at once.

Properties: the active organization is one of the user's (`ActiveIsMembership`); a user
with organizations has one default (`OneDefault`), and a super admin is never left without
an organization by deletions (`OwnerKeepsOrganization`), these two except where requests
about the same user overlapped.

*Bounds.* Two addresses, three organizations, one invitation, two requests at once:
every check-then-write of the code involves two requests, and "two organizations and one
that remains" is the least in which deletions can differ. Addresses, organizations and
requests are interchangeable.

### `DomainProvisioning` (with `MCDomainProvisioning`, `DomainProofs`)

The rows of an organization's domains on one server against the files of its proxies:
`row` by name (no two rows have one name), `files` by proxy and file name, each the pairs
of host name and upstream it routes. `Begin...` is what a handler checks and decides before
it changes anything; the steps it will make are the set `todo`, taken in the handler's order,
`Rank` (provision, clean up, write the row, rewrite the old group's file, then the new one's; a
deletion erases the row last). Each step
succeeds or fails; what a failure leaves on the host follows from the order of the
commands (`FailedProvisioning`: nginx removes a file it does not accept, also one that was good
before; Caddy's stays). `Restart` ends a request between two steps. Container names
do not enter file names (`buildManagedNginxFileBase` ignores them), so an isolated
domain's file and the group of its registrable domain share a name. Between two requests the row
of a container may be deleted (`DeleteContainer`): its domains lose their target
(`onDelete: SetNull`, `schema.prisma:580`) and keep their port, and an update or a deletion of a shared
domain without a target skips the old group's file (`domains.ts:1905`, `:2119`), which then keeps the
route until another request rewrites it. `disturbed`, `rooted` and `orphaned`
are history: names of requests that failed half way, anchors an isolated domain has used, and
members of groups that lost their container since their group's file was last written.
`WILDCARD` names, legacy file names (removed, never written), `isPrimary` (a comment in the
file) and Traefik (its files behave as Caddy's) are abstracted.

Properties: between requests a proxy serves a name only as recorded
(`ServesOnlyRecorded`), unless a request about it failed or the route is an orphaned one in its group's file;
shared domains with a target are served from their group's file (`GroupServed`), unless a request of the group
failed or an isolated domain took the file's name, which overwrites it; and no step
touches the file of a domain the request is not about (`OthersUndisturbed`), failures
included.

*Bounds.* A registrable domain and one name under it, so that a group can grow, shrink
and lose its last member, and meet an isolated domain in its file; a name of another
organization; two containers and three targets, since a change of port and one of
container differ; nginx and one other proxy; one failure or one deletion of a container (`MaxFaults`
counts both; what happens with both is in the proofs, which bound neither). Requests are taken one at a time:
overlapping requests about a group can overwrite each other's files, which is left to
the plan.

### `ContainerInventory` (with `MCContainerInventory`, `InventoryProofs`)

The containers docker has on a server (`host`, by name), the `Container` and `AppInstall`
rows, and the requests of `routes/containers.ts`: the sync of the inventory, a
deployment from an image or from git, in the foreground or as a job, the six actions (start,
stop, restart, remove, pause, unpause), rebuild, and `DELETE`. A container is created, running, paused,
restarting, exited or dead; `Refuses` and `After` are what docker does with each. `req` holds for each request the await it is
at (`pc`), and what it has read and still relies on: `seen` is docker's listing, `known` the
rows, `ref` the reference to a container that worked. Every command, query and
transaction is one step; a sync is therefore three (list, read, write), and any request
can come between them. A row's `source` stands for what a sync cannot restore.

Properties: requests that come one after the other leave a truthful inventory
(`InventoryExact`), whatever mixture of containers without a row, stale ids and duplicate
rows they found or caused on the way; a row is `STARTING` only while a deployment works on
it, or because docker was restarting, in a loop, the container it names when its status was read
(`StartingIsDeploying`; `mapDockerStatus` and `mapDockerInspectStatus` say STARTING then,
`containers.ts:362`, `:398`, and nothing corrects that before the next sync); no answer of docker ends the panel's process (`SurvivesDocker`), a
row deleted under a deployment may; and a deployment's source is lost only to the removal
of its row or to a sync that did not see its container, or not alone (`SourceKept`).

*Faults*: a docker command fails, with or without its effect; docker restarts a container that
keeps exiting (`looped` are those containers; each counts as a fault); the panel restarts
between two steps. That a container exits, and comes up again, may happen at any time. *Bounds*: two
requests at a time, three in all, on one name, with one fault; requests are interchangeable. Requests about different names meet only in a sync, which treats each
name by itself; a third request is needed for one that meets the leftovers of two that
overlapped.

### `AppInstalls` (with `MCAppInstalls`, `InventoryProofs`)

Extends `ContainerInventory` with the catalog's apps: the three checks before an
installation, each an await of its own, the background work that runs, records and
settles it, start, stop and restart (which records STARTING), rebuild and removal, and the list of apps, which lays docker's
statuses over the stored ones from a cache and writes them back after its reply.
The container requests that meet apps (sync, `DELETE`) are those of
`ContainerInventory`, so that both modules share host and rows. A status docker could not be
asked for (`UNKNOWN`) is never stored over another, and left out.

Properties: requests one after the other leave every app recorded as installed with its
container, the row of this container and no second installation (`InstallsExact`); an
installation is `INSTALLING` only while a request works on it (`InstallingIsWorkedOn`); and
the status of a failed one is replaced only by a request about it or by a list that had
read it before it failed (`FailureShown`). *Bounds*: as above, with four requests and three
installations, so that one can fail, be repeated and meet a third.

### `Backups` (with `MCBackups`, `BackupsProofs`)

Backups of a server, the files in its backup directory, the objects in S3 buckets, the
storage destination, and the deletion of the server. A backup goes on after its reply;
`tasks` holds where its work is and what it read before (the bucket in particular).
The commands of a server run one at a time (`busy`), a dump is started and ended in two
steps, and one that loses its connection is run again by `exec` although the first may
run on (`orphans`). A file is whole, partial or mixed up from two writers. Names of files
are a second wide, so that two backups may share a path. `parseSizeMb` rounds as the code
does. Database failures are modelled only where they decide something: at the first
notification, which precedes the `try`.

Properties: what is shown as `COMPLETED` can be restored, from the server and from the
bucket chosen when it was asked for, whatever is done to the destination meanwhile
(`CompletedRestorable`); a backup is `RUNNING` only while it is worked on (`RunningIsWorkedOn`);
no failure of the server or of S3 ends the panel's process (`SurvivesServer`); a restore
brings back this backup and nothing else (`RestoresOwn`). What they except is what the
code does not guard: a name used twice in one second, a dump run twice, and a full backup,
whose failing `tar` goes unnoticed.

*Bounds.* Two tasks, three requests, two rows, two file names, two buckets, one edit of the
destination, one failure: the interesting cases are a second backup, a deletion or a
restore that meets the first, and an edit between its check and its upload. Tasks, paths
and buckets are interchangeable. Volume and database backups differ only in the command
that is run. `Bytes` are sizes large enough to be shown (see *Known divergences*).

### `SslCertificates` (with `SslProofs`)

The certificates of the nginx domains of a server: certbot's `lineages`, the `SslCert` rows
(`certs`), `sslEnabled`, what each site's nginx file refers to, and `sslRenewOperations`.
The shared domains of a registrable domain have one certificate and one file, an isolated
domain its own. The primary domain of a group may be isolated when a request is made for it
(`alone`): it then acts for its own name only (`routes/ssl.ts:149`, `:1144`), while the requests of the
others go on counting it among the members (`:233`). Issue, renewal (in the background, with waiting for another certbot
and the fallback to the plugin of the web server), deletion and sync are cut at their awaits. A sync
lists the directory (`List`), then reads the names (`ReadNames`) and the rest (`Details`) of one
certificate after the other; a failed command leaves the directory empty, or the certificate
with no name but its own (`ssh-services/ssl.ts:448`), and only the last fails the sync. In `Resolve`
these commands, whose answers a renewal and a deletion use at once, are one step. `Choose` and `Write` are apart: the lineage a file refers to is looked up
before the file is written. `Test` is `nginx -t`, which refuses every file when one refers
to a certificate that is gone.

Properties: the domains of a group show the same certificate, however requests
overlap and whatever fails, unless the code took one name of the group for all (`GroupInStep`); between requests that come one after the
other, rows show what the server has (`RowsFollowServer`) and every site has its file
with a certificate of all its domains (`SitesServed`); and a renewal in the background
ends, although certbot's lock may be held for good (`RenewalEnds`): it would otherwise
block every renewal of the server until a restart. History variables name what the code
does not guard: `narrowed` (one name was taken for the group: the fallback renews for one name only,
`ssh-services/ssl.ts:797`; a sync whose command for the names failed, `:448`, knows of one; the
isolated primary domain acts for itself), `apart` (such a request was made), `bared` (an isolated domain's certificate is deleted while its
file refers to it, `routes/ssl.ts:1446`, so that `nginx -t` fails and the next site written
is removed, `nginx.ts:349`), `adopted` (rows a sync created, whose file is not rewritten), and
`overlapped`, since a renewal that overlaps a deletion brings the rows back.

*Faults*: a failed command, a failed check of nginx, a restart that loses the operations.
*Bounds*: a group of two names and an isolated domain, two requests, one wait for
certbot's lock (36 in the code; the number matters only for its end), one fault; the slots of
tasks are taken in order, as it does not matter which is free. Two
requests are enough because the run starts from every state of the two sites: without a
certificate, pending, used, or on the server without a row. *Fairness* (`FairSpec`): each task
goes on while it can. This assumes that certbot and nginx end what they are asked to
do: their commands have no timeout in a renewal.

## Findings

* `stream_command_exit` (a run with `expect: violation`, `NonZeroExitThrows`): `'end'` settles a
  streamed command with exit code 0 (`commands.ts:527`) before `'close'` reports the real
  one: `execStrict` ("throw on non-zero exit") returns normally for a command that failed.

### Known divergences

These properties state what the code, its comments or its pages promise, and are
violated by what it does. They are defined in their modules and checked by no run;
adding one to the module's configuration shows the trace.

* `LiveConnectionsArePooled` (`ConnectionPool`): `closeConnection` during a handshake
  (`connection.ts:96`) forgets its promise, not the handshake. The next caller begins a
  second, both succeed, and the first to enter the pool is overwritten; it stays open
  and no `closeConnection` finds it.
* `TimedStreamsSettle` (`SshExec`): `streamCommand` arms its `timeoutMs` in the callback that brings
  the channel (`commands.ts:537`); a server that never answers the opening of a channel
  keeps the call, and with it the server's stream queue, for as long as its connection lasts.
* `KeepsAnOrganization` (`Accounts`): the organizations that remain are
  counted before the transaction (`organizations.ts:285`); deleting two at once leaves
  their owner none, and `authenticate` then finds no organization for any request.
* `RevokedIsNotAccepted` (`Accounts`): an acceptance that has passed its checks hashes
  the password (`auth.ts:468`) and creates the account without looking again; an invitation
  revoked in between still makes one, though the page says its link stops working immediately.
* `IsolatedIsServed` (`DomainProvisioning`): an update decides what to provision from name, proxy,
  target and certificate, not from the mode (`domains.ts:1825`). A shared domain that is only
  made isolated gets no file, and leaves its group's: recorded as served, it is not. The
  same property fails when only the container of an isolated domain changes: the new
  file is written and then removed as the old one, which has the same name
  (`domains.ts:1815`, `:1860`).
* `DeleteRemoves` (`ContainerInventory`): `DELETE /containers/:id` ignores every failure of the
  removal ("ignore if already gone", `containers.ts:3828`) and deletes the row; the
  container runs on without one until a sync finds it.
* `EmptyIsEmpty` (`Backups`, with a size such as 5000 in `Bytes`): sizes are rounded to
  hundredths of a megabyte (`backups.ts:21`), so that a backup of less than 5243 bytes is
  refused as empty.

Some behaviours are modelled and contradict no statement of the repository; properties name
them only as what they except. A web socket that closes while its shell is opened leaves a
session attached to a dead socket, which is never pruned (`terminal.ts:406`), and whose end
destroys what another user has under the same id by then (`:132`). Two first
registrations that overlap both make a super admin (`auth.ts:277`). A group's file keeps the route
of a domain whose container was deleted, also after the domain itself was changed or deleted, until another
request rewrites it (`domains.ts:1905`, `:2119`). A sync whose command for the names of a
certificate failed, a renewal that falls back, and a request for an isolated primary domain
part a group's certificate (`ssh-services/ssl.ts:448`, `:797`, `routes/ssl.ts:1144`). A container that docker
restarts in a loop is recorded `STARTING` without any deployment (`containers.ts:362`).

### Properties without a run

Some weaker properties stay defined beside the ones the runs check, hold under the same
configurations, and are read as documentation: `PendingInFlight` (`ConnectionPool`; it is a
conjunct of the proved invariant), `EndedWithFinalStatus` (`ProcessJobs`, proved), `TailIsLatest`
(`CommandQueue`, proved), `AbortHeeded` (`StreamCommand`, proved), `OutputLostToAnother` and `ClosingKeepsShells` (`TerminalSessions`),
`MembersHaveActive` (`Accounts`, proved), `ServedOnce` (`DomainProvisioning`, proved), `FilesHaveRows`
(`Backups`), and the type invariants.

## Proofs

Proved by TLAPS for every value of the constants, under the modules' named
assumptions only (`NoTaskAssumption`, `NoneAssumption`, `DomainAssumption`, `JobsAssumption`, `PoolAssumption`, `ExecAssumption`,
`TerminalAssumption`, `BackupsAssumption`, `NoneIsNoBackup`, `SslAssumption`,
`NoneIsNoCertificate`, `AccountsAssumption`, `InventoryAssumption` and `NoneIsNoRow`). Those about
`None` and `NoTask` say only that it is no record, identifier or value that a variable holds besides.

* `SshProofs`, about the queues: `QueueTypeCorrect`, `Serialised` (`MutualExclusion`), `TimeoutIsFinal`,
  `TailExact` and `FirstComeFirstServed` (`StartsInOrder`). Mutual exclusion is not inductive:
  that a predecessor is done says nothing of the calls before it. The invariant `QueueInv`
  adds that the tasks are numbered by arrival (`OrderOK`), that the entry of the map is
  the latest that is not done (`TailOK`), that a call's predecessor was the latest not done
  when it arrived (`ChainOK`), that whatever was called has only done calls before it
  (`TurnOK`), and that a cancelled call has not started (`CancelOK`). Its preservation has a
  step per action and conjunct; the other theorems are consequences.
  `QueueImplementsExecutor` is the refinement of `SerialExecutor`, its fairness apart. The invariant is joined by
  what a call's answer says of its task (`AnswerOK`), and by the fact that a server has called at
  most one task that is not done, so that the `CHOOSE` of the mapping has one value (`ActiveIs`). A call is
  then a `Submit`; a reaction to `previous` a `Call`, or nothing if it was cancelled; a `finally` a `Return`, or
  nothing; a timeout a `Withdraw`, or nothing; that a command settles is not seen. That `Call` takes the first
  that waits is `TurnOK` of the state after it.
* `SshProofs`, about the pool: `PoolTypeCorrect`, `PoolAlive` (`PoolIsAlive`), `PendingSettles`,
  `ClosesAccounted` (`ClosesAccountForConnections`), and that the commands of both queues
  implement the pool's specification (`ExecImplementsPool`), by which `ExecKeepsPool` carries
  the pool's invariants over to them. That a run of `closeConnection` pays for a
  connection is not inductive: the invariant names the connections that are alive or
  being made without being pooled or pending (the strays), and bounds them by `closes`. A
  step makes a stray only by closing, because the pool and a pending attempt are never
  there both: `getConnection` begins a handshake only if it found neither. The refinement
  is step by step: every step of `SshExec` is one of the pool's or leaves the pool alone.
* `SshProofs`, about the streamed command: `StoppedAccounted` (`StoppedCommandAccounted`) and `AbortIsHeeded`
  (`AbortHeeded`). What the terminating script meets is the question: before the channel is open
  nothing has begun on the host (`NotBegun`), the listener and the timer are there only while the
  call streams (`Watched`), the pid is in its file only while the wrapper waits for the
  command, so that a script that finds it kills the one command there will be, where the host
  allows that (`Found`).
* `ProcessJobsProofs`: `TypeCorrect`, `CancelReachesCommands` (`CancellingAborts`),
  `CancellationIsFinal` (`CancellationDecides`), `StreamsConsecutive` (`StreamHasNoGap`),
  `StreamsUpToDate`, `StreamsEndFinal`, and `UnfinishedNeverPruned`, which no run checks
  because it is part of the argument only. A job's stored entries, and those an open
  stream has shown, are consecutive and end with the one appended last (`EndsAt`): the
  replay hands this over from the one to the other, and appending to both or dropping the
  oldest of the first keeps it. `RunnerOK` ties the status to the runner: while a job is
  running its cancel function is set, because the runner is the microtask after the
  creation and nothing can cancel in between.
* `TerminalProofs`: `TerminalTypeCorrect`, `OneSocketPerTicket` (`TicketAdmitsOne`), `OwnShell`
  (`AttachedToOwnShell`), `ShellsReachable` (`LiveShellReachable`) and `SoleSocketKeepsShell`
  (`OnlyOverlapDisturbs`). A socket's and a shell's
  user and id are read through their tickets, so the invariant says that those are spent,
  that no two sockets have one, and that the shells opened are the first ones; a spent
  ticket never changes, by which what was checked before an await still holds of the
  session found after it. Most steps open no shell and admit no socket: one lemma
  (`KeptInvariant`) covers them all, and the three others have a lemma each. The last theorem
  has a second invariant, `Tidy`: a key of the map names one session (`Keyed`), and under an id that is not
  contended at most one socket is alive (`SoleActive`) and no live shell that has a socket is out of the
  map (`NoneCovered`): who could take an open socket's shell would have to be one of these.
* `BackupsProofs`: `BackupsTypeCorrect`, `RunningHasWorker` (`RunningIsWorkedOn`) and
  `FailuresSurvived` (`SurvivesServer`). That a row has some task is not inductive: the task must
  be at a point from which it still records an end (`Work`), which a restore or a deletion of
  the same backup is not. The end of the process rests on three further facts: the work of
  a backup has a row that was created (`WorkHasRow`), that row is there while no requests
  overlapped, because only a task of its own takes rows away (`Alone`), and a row that
  was taken away never comes back. Most steps only move one task (`TasksKept`).
  `CompletedIsRestorable` (`CompletedRestorable`) and `RestoreIsOwn` (`RestoresOwn`) rest on a second
  invariant, `Owned`: the path and the kind a task, a file, an object or a dump left running carries are those
  of its row for good (`RowsNamed` and its siblings); a backup has one task that
  writes (`OneWriter`), which holds the server's queue while it dumps (`QueueHeld`); and, unless the path was
  used twice or the dump run again, a task keeps at each point what the next one needs of the file
  (`TasksKeep`). What any step may do to
  all of these is stated once (`Trace`) and proved of each action.
* `SslProofs`: `SslTypeCorrect`, `OneCertificatePerGroup` (`GroupInStep`), `LineagesCoverSites`,
  `LineagesAreOwn`, `RowsShowServer` (`RowsFollowServer`) and `SitesAreServed` (`SitesServed`).
  A sync writes, for each domain, the newest lineage of those that covered it when they were
  listed, step by step. That this gives the domains of a group the same one needs more than the rows: every
  lineage covers the whole of its site (`LineagesWhole`), so does every one a sync has listed, unless it has
  read no name of it yet (`SeenWhole`), and a renewal issues for the lineage of its own domain (`RenewsOwn`).
  All of them hold until one name is taken for the group (`narrowed`: a fallback, a listing whose SAN
  command failed, a request of an isolated primary). That a newest lineage exists (`BestTells`) is the
  one place where well-founded induction is needed (`Largest`, by `WFMin`). The last two are about
  requests one after the other: the invariant `Order` says, for each point a task can be at,
  which parts of its site (row, flag, file, lineage) are in order already and which the rest of the
  task will put in order (`Progress`), that every other site is in order, and that a lineage and the
  work on it are of one site (`LineagesOwn`, `WorksOnOwn`), also after a fallback.
* `AccountsProofs`: `AccountsTypeCorrect`, `ActiveOrganizationIsOwn` (`ActiveIsMembership`), `DefaultIsUnique`
  (`OneDefault`), `OwnerStays` (`OwnerKeepsOrganization`) and `ActiveIsKept` (`MembersHaveActive`). The
  handlers check a membership, await, and write the user's row without looking again. The
  invariant says what becomes of such a check (`StillMembers`): the membership is still
  there, or its organization was deleted for good, or the request fails with the account
  that made it. With the foreign keys (`Rows`) and what a request may carry (`Asking`) it is
  inductive; a deletion moves the users it had found, to organizations it looks up as it commits.
  The last three hold of users about whom no two requests were in progress at once: then what a
  deletion or a creation has read of a user is still so when it writes (`SoleRequest`, `Deleting`,
  `Creating`), an organization has at most one super admin, the only one who deletes it (`OneOwner`),
  and the deletions of others leave a user its default (`HasDefault`).

* `InventoryProofs`, about `ContainerInventory` and `AppInstalls`, whose steps meet on the same rows:
  `ContainersAreTyped`, `StartingEnds` (`StartingIsDeploying`), `DockerIsSurvived` (`SurvivesDocker`),
  `SourceIsKept` (`SourceKept`), `InventoryIsExact` (`InventoryExact`); `AppsAreTyped`, `InstallingEnds`
  (`InstallingIsWorkedOn`), `FailureStays` (`FailureShown`) and `InstallsAreExact` (`InstallsExact`). What
  both specifications keep (`Base`) is proved once for each shared action.
  A row that is `STARTING` has a deployment at a point from which it will settle it, or shows a container that
  docker restarts over and over: whatever a request has seen of such a one is in `looped` (`Looping`). And a deployment's
  row is there as long as no requests overlapped (`Survival`; `Working` says the same of
  installations). A sync writes what it listed and read before, so its effect can be told only if
  neither a docker id nor the number of a row ever changes its name: `Named` says so of everything a request
  carries, with two functions from numbers to names that no action has. `Orderly`
  says, for each point of a request that runs alone, whether the rows of its name agree with docker
  (`InStep`), or which of them the request has already looked at and will mend, and that all other names
  are in step; a sync puts all of them in step whatever it finds. `AppOrderly` adds the installations
  of a name, of which only the request at work on one can find it without its row or container.
* `DomainProofs`: `DomainsTypeCorrect`, `OnlyRecordedServed` (`ServesOnlyRecorded`), `NamesAreServedOnce`
  (`ServedOnce`), `GroupsAreServed` (`GroupServed`) and `OthersAreUndisturbed` (`OthersUndisturbed`). They
  speak of the files between requests; the invariant says what is in them between two steps. Every route
  of a name is that of its row, or, of a name in work, its new one, or its old one while a step that
  removes it is still to come (`Routes`, `Removers`); a group's file has all its members but those in
  work (`Whole`). `Routes` has to say where a route is, not only what it routes to: an
  isolated domain with a second route in its group's file would keep that through the next change of its
  port, which rewrites its own file only, so that `ServesOnlyRecorded` needs `ServedOnce`. What is left to do goes with the rows written
  so far (`Shape`), every member that has lost its container is in `orphaned` until the file is rewritten
  (`AdriftKnown`), and every isolated domain that has the name of a group's file is in `rooted`
  (`RootsKnown`). What each change of the files touches is stated once (`Touches`), and what a step must
  do to keep the invariant, once for all steps (`ProceedRoutes`, `ProceedWhole`).

Only model-checked: every liveness property (`RenewalEnds` and the others: the prover does not do fairness), with
them the fairness half of `ImplementsSerialExecutor`; and the divergences above. Every invariant and
every action property that a run checks and that is meant to hold is also proved. The history variables (`overlapped`,
`raced`, `narrowed` and the like) are part of the statements proved, and read as under the module.

## Not modelled

* Projects and networks, two-factor secrets, the cache of container metrics, notifications, panel access: small
  protocols of a few lines that share nothing with the modules here. Their hazards are
  listed in `PROJECT.json` with the reason.
* Git providers, firewall and fail2ban, web stack installation, the app catalog, audit, logs, API
  keys, settings, libraries: I/O, parsing and single writes, with nothing to go
  wrong between two steps.
* The front end: it keeps no state but what the server answers.
* `services/backup/ssh.service.ts`: an earlier copy of the SSH services that nothing imports.

Within the modelled parts: credentials, host keys, the wording of
messages, audit entries (which catch their own errors) and notifications; the access of
members to servers; login and password changes; that rows carry time stamps; database
failures except where `Backups` names one; the sync of domains from a host's files, and two
requests about one group of domains at once; certificates of Caddy and Traefik, which they
renew themselves.

## What could follow

1. `DomainProvisioning`: the sync from a host's files, and two requests about one group.
2. `TwoFactor` (a second setup replaces the pending secret while the first is verified) and
   `MetricsCache` (a failed load deletes the entry of a newer one).
3. Proofs: that `ExecImplementsPool` and `QueueImplementsExecutor` compose, with the queue in the place of
   the two users of the pool.

Runs are few on purpose: one per module or composition, and one for the finding.
