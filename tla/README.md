# TunnelKit: TLA+ models, checks and proofs

TunnelKit keeps reverse SSH tunnels from many small clients to one server. This
directory holds the TLA+ modules that model its concurrent parts, the TLC
configurations that check them on small instances, and TLAPS proofs of the
central safety properties for every instance. `PROJECT.json` is the index: for
each definition the Go lines it models, for each run its properties, for each
property a plausible fault of the code that breaks it.

Source paths below are relative to `src/core/internal/`.

## 1. The system

| Component | State | Operations | Talks to |
|---|---|---|---|
| Connection handler (`tunnelserver/server.go`, `handleConn`) | one goroutine, one `session` (forwards, `done` channel), one SSH connection per client connection | handshake, register, request loop, release, deferred unregister / registry removal | all server parts below |
| Session manager (`sessionManager`) | `byName`: client name -> session | `register` (swap, close the old session, wait for its `done` or `EvictWait`), `unregister` | handlers, through connection closes and `done` channels |
| Forwarded listeners | `session.fwds`, the kernel's port table | `startForward`, `cancelForward`, `closeAll`, `pipe` | registry (`AddPort`), `TrafficStore` (`Add`) |
| Keepalive | one goroutine per session | tick, probe, give up | closes the session's connection |
| `authStore` | cached keys and modification time of `authorized_keys` | `reload`, `lookup` | every handshake; the operator's editor |
| Registry (`monitor/monitor.go`) | remote address -> `Client` record | `Add`, `Del`, `AddPort`, `list` | handlers write it; sampler, panel, heartbeat callbacks read it |
| `TrafficStore` (`monitor/traffic.go`) | per client name: bytes, last seen, availability log; dirty flag; `traffic.json` | `Touch`, `RecordState`, `Add`, saver, load, `uptimePct` | pipes, the 5 s sampler of `Serve`, the 30 s saver, the panel |
| `Attempts` (`monitor/attempts.go`) | per IP: last attempt, failures since the last success, log suppression | `Record`, `Diagnose` | handlers write it; offline rows of `/api/status` read it, with registry and store |
| `MetaStore`, probe gate (`monitor/meta.go`, `probe.go`) | cached `clients.json`; last probe time per port | `refresh`, `Get`; `allow` | HTTP requests, the operator's editor |
| Port probe, speed test (`monitor/probe.go`, `speedtest/`) | one connection, or eight streams per direction, through a tunnel | probe; `Measure`, responder | listeners and `pipe` of the session, the client's ssh, the far service |
| Heartbeat client / server (`heartbeat/`) | outstanding beats, missed count; last beat per client | send, reply, count losses; note, check, callbacks | UDP, `Stats`, the panel |
| Client supervisor (`client/client.go`, `stats/`) | the ssh child process, the settle timer, `Stats` | probe, start, settle, exit, delay, signal | ssh, `/metrics`, `/healthz` |
| Config, host key, commands | none that outlives a call | | |

What is hard here, and where a test hardly reaches:

* reconnects: a client whose link died reconnects, often several times at once,
  while the server still serves the dead session. The new session displaces the
  old under a mutex but closes it and waits for it outside, so displaced,
  closing, waiting and serving sessions of one name coexist;
* the order in which a session lets go: listeners, `done`, `byName`, registry;
* requests already buffered when a connection is closed are still served;
* caches filled by *stat, then lock, then read* while the file changes;
* answers put together from several stores, each read at its own moment;
* connections that outlive their initiator, or wait over a link nobody knows is
  dead;
* UDP replies that come late, twice, reordered or never;
* timers whose callback has started and can no longer be stopped;
* a dirty flag cleared before the write it stands for, and crashes in between.

`PROJECT.json` lists these as hazards, each at its line with the properties that
would catch it.

## 2. Modules

| Module | Models | Run by |
|---|---|---|
| `TunnelServer` | handlers, session manager, listeners, keepalive, registry | `MCTunnelServer` |
| `NameLease` | what manager and listeners promise (abstract) | refined by `TunnelServer` |
| `TunnelServerProofs` | theorems about `TunnelServer`: manager, listeners, refinement | TLAPS |
| `AuthStore`, `AuthStoreProofs` | the key cache, and its theorems | `MCAuthStore`, TLAPS |
| `HeartbeatClient` | `heartbeat.RunClient` | `ClientProcess` |
| `ClientSupervisor` | `client.Run` and `Stats` | `ClientProcess` |
| `ClientProcess`, `ClientProcessProofs` | the two composed: one client process; theorems | itself, TLAPS |
| `HeartbeatServer`, `HeartbeatServerProofs` | `heartbeat.Server`, and its theorems | itself, TLAPS |
| `TrafficStore`, `TrafficStoreProofs` | the store, the sampler, the saver, crashes; theorems | itself, TLAPS |
| `Ledger` | what the store promises of a counter (abstract) | refined by `TrafficStore` |
| `Attempts`, `AttemptsProofs` | failed handshakes, and what the panel says of an offline client | `MCAttempts`, TLAPS |
| `Panel`, `PanelProofs` | panel requests: `MetaStore` and the probe gate | itself, TLAPS |
| `Pipe`, `PipeProofs` | forwarded connections: probes, speed test, `pipe` | itself, TLAPS |

In several modules an operator directly before a definition (introduced as "a
fault would be ...") is a faulty variant of it with the same parameters. It is
used by nothing; it documents the bug that the corresponding property excludes.

### TunnelServer

A session is one accepted connection with its goroutine. `pc` follows
`handleConn`; each critical section and each blocking call is one action:

| pc | code | actions |
|---|---|---|
| new, handshake | accept, `ssh.NewServerConn`, `reg.Add` | `Accept`, `HandshakeOK`, `HandshakeFail` |
| register | the critical section of `register` | `RegisterUnnamed`, `RegisterFirst`, `RegisterSwap` |
| evict, wait | `old.sconn.Close()`, the select on `old.done` and `EvictWait` | `CloseOld`, `WaitDone`, `WaitTimeout` |
| serve | the request loop | `StartForward`, `ForwardRefused`, `CancelForward`, `OtherReq`, `CloseAll` |
| released, unregister, del | `close(done)` and the deferred calls | `CloseDone`, `Unregister`, `DelReg` |

`conn` is the server's end of the SSH connection, `link` whether the path still
carries bytes: a dead path is silent, and only the keepalive (`ka`) finds out.
`reqs` is the channel of requests between the SSH library and the loop; it is
drained after the connection closed. `bound` is the kernel's port table; a port
number of 0 in a request (`AnyPort`) binds a port of the kernel's choice.
`ord`, `nextOrd` and `timedOut` are history variables. The client, the network
and the SSH library's multiplexer are external.

### NameLease

A client name is a lease. One session holds it at a time; only holders bind
listeners, only on ports their key allows; a lease is returned with every
listener closed. `TunnelServer` maps `live` to the sessions between the end of
`register` and `close(done)`, `ended` to the closed `done` channels, `owner` to
the kernel's table.

### AuthStore

`lookup` in steps: stat (no lock), compare (lock), read and assign (lock held),
look up (lock taken again). The operator edits, removes and recreates the file
between any two. `seen` collects what the file contained during a lookup.
A stat or a read may fail at any time, whether the file is there or not; `err`
records that this lookup's own reload failed. `FineMtime` says whether each edit has a modification time of its own; the
properties are conditional on it.

### HeartbeatClient, HeartbeatServer

The client's time is in rounds of one interval. A beat that was written may be
answered at any time; only replies to outstanding beats change anything. The
loss percentage is left out. The server's time is in ticks; ages saturate
at `LostAfter`; the zero time of a new record is older than every limit.
`told` is a history of the callbacks, which the code makes after the unlock.

### ClientSupervisor, ClientProcess

The loop of `client.Run` with `time.AfterFunc`: `timer` is off, armed, or fired
(the callback has started and has not yet called `SetConnectedSince`). Stopping
an armed timer works, stopping a fired one does nothing. `overtaken` records that
a fired callback was still pending when its session's end was recorded.
`ClientProcess` runs this loop and `HeartbeatClient` side by side: the heartbeat
goroutine may or may not be configured, sees the same context, and dies with the
process when `Run` returns.

### TrafficStore

One client's entry, since entries share only the dirty flag and the file. Each
method is one step (it holds the mutex). The sampler lists the registry in one
step and marks in another; the saver takes its snapshot in one and replaces the
file in another. A crash keeps the file only. A start loads the file (`Start`) or,
when it cannot be read or does not parse, ignores the error and has an empty store
(`StartBlank`); `blank` is history: the file was not loaded and no save has gone
through since. `LastSeen` is reduced to whether it
was ever set, the port counters to one counter; the per-day totals are left out.
`full` is the availability log as it would be without pruning, `failed` whether
the last write of the file failed. `Walk` is the loop of `uptimePct` as a function
from the number of events passed to the loop's variables.

### Ledger

A counter that grows while the process is up, is saved now and then (the stored
value becomes something the counter has been since the last save), and is back at
the stored value after a crash and a restart. A process that could not read the
stored value starts at 0, and its first save may bring it back. `TrafficStore` maps `total` to the
bytes in memory, `saved` to those in the file, `up` to the life of the process, `blank` to its own.

### Attempts

`handleConn` asks the registry whose IP a failed handshake came from and then
records it; a success is recorded and then joins the registry. The sampler lists
the registry and then dates (`Touch`) whom it found. `/api/status` reads the
registry, the store, the last IP and the attempts in four steps. Each call is
atomic, nothing else is. The clock counts instants, `Second` of them to a second:
attempts carry the instant, `Touch` the whole second (`Unix`). `heard`, `refused`,
`left`, `late` and `owed` are history: what really happened, against which the text
of `Diagnose` and the log's counts are compared. `left` is when the client left the
registry, `late` when the sampler dated it after that. The text about UDP
heartbeats and the ring of recent failures are left out.

### Panel

A request is `Describe` (a row of `/api/status`) or `Probe`; both go through
`MetaStore`: stat without the mutex (`Stat`, `StatFails`), decide and read with it (`Cleared`,
`Unread`, `ReadFails`, `Load`), take it again for the answer (`Get`). A file is its stamp
(modification time and size, distinct for each edit), whether it parses, and a
URL that `Sanitize` keeps or drops. The gate is a table of ages that saturate past
`Minute`; when it holds more than `MaxEntries` it forgets those. Only ports the
client's record lists get that far.

### Pipe

A connection is a probe or a stream of the speed test. `Dial` is the initiator's
connect together with the accept loop (the kernel completes the connection
either way); `srv` follows `pipe`: accepted, counted and opening the channel,
copying, ended with its deferred calls. `feed` is the second goroutine, which
copies towards the client and half-closes the channel. The client's ssh may pass
that half-close on or not (`halfClose`: openssh does, dropbear does not). The
link may die silently or close. Deadlines may pass at any time, so no property
depends on their lengths. The speed test's arithmetic is `RunParallel`: one unit
of bytes per stream that moved data, over the longest duration; `SinceZero`
stands for `time.Since` of the zero time.

## 3. What is checked

| Run | Instance | Shows |
|---|---|---|
| `server_safety` | 3 connections of one client, 1 port, eviction may time out | type correctness; one live session per name; nothing bound after `done`; ports are free when `register` returns; displaced sessions are closed; no dead entry; no eviction cycle |
| `server_live` | 2 connections, every request kind, fairness, no eviction timeout | evictions complete; a dead link frees ports and the panel row; keepalives end; the server implements `NameLease` |
| `server_ports` | a named and a nameless client, 2 ports, 2 buffered requests | only the owner frees a port |
| `auth_lookup` | 2 lookups, 3 edits, removals, failing stats and reads | lookups answer from contents the file had meanwhile; the cache is never wrongly believed current |
| `client_process` | 5 rounds, two beats outstanding at once; the supervisor unbounded | each beat counted once; an unanswered path is reported; connected means up; staying up is reported; a signal stops the process |
| `beat_server` | 2 clients | only silent clients are flagged, and all of them; one `OnLost` and one `OnResume` per outage |
| `traffic` | 5 instants, log capped at 2, 3 connects or disconnects, starts with and without the file | uptime is exact, whatever was pruned; a clean store is what the file says; the store implements `Ledger`; every byte is saved; absence is recorded |
| `traffic_offline` | the same | *violated*: an unsampled client is offline since 1970 |
| `attempts` | 1 client, 2 addresses, 2 sessions at once, 1 failing handshake at a time, half-second instants | an offline row does not deny what arrived, and says "connected again" only of an address with a session and no failure since; suppressed log lines are all counted |
| `panel` | concurrent requests, 2 edits, 2 ports with room for one entry | answers are current after an edit or a failed read; probes of a port are spaced, also when the gate forgets |
| `pipes` | 1 probe, 1 stream each way, either kind of ssh, fairness | the count of active connections is exact; a refused probe fails; the speed test returns; no stream, and over an ssh with half-close no probe, leaves a pipe behind |
| `speed_upload` | 2 upload streams | *violated*: one silent stream makes the measured upload zero |

**Bounds.** Three connections are the least for a chain of evictions (a session
evicted while it waits for another) and two the least for every other race of
the manager. Liveness with three is out of TLC's reach here, so `EvictionCompletes`
is about a session and the one it displaced; of longer chains `WaitsForEarlier`
says, with three sessions in `server_safety` and for any number by its theorem,
that their waits form no cycle; two ports and two buffered requests let a request for a port the
client never had wait behind others. In `client_process` a path is reported down
after two missed beats, so five rounds leave room for replies before, during and
after an outage; the theorems cover the other values. In `attempts` two
sessions at once are what a roaming client's reconnect looks like; three instants
put an attempt before, in and after the second a client was last seen in. In
`panel` two edits and a removal give a request contents older and newer than its
stat, and a table of one entry makes every second probe purge. In `pipes` one
connection of each kind is enough, since they share only the link, the count and
the speed test; `speed_upload` has two streams of one direction. In `traffic` the window (2), the retention (3) and
the cap (2) are chosen so that pruning, capping and events inside the window all
happen within five instants.
Connections of one client are interchangeable, so `server_safety` uses symmetry;
so do `auth_lookup` for its goroutines and `attempts` for its addresses. The
liveness runs use none.

**Deadlock** is checked where the system cannot stop (`auth_lookup`,
`beat_server`). Elsewhere the bounds, or the end of all sessions
or of the process, stop it.

**Fairness.**

* Goroutines run when they can, handshakes have a deadline, tickers and timers
  fire: weak fairness of the handler's steps, the keepalive, the sampler, the
  saver, the checker, the supervisor's loop and timers.
* `KaDone` gets strong fairness: Go's `select` chooses at random among the ready
  cases, so `done` is not passed over for ever in favour of the ticker.
* In `pipes`: goroutines run, deadlines pass, the client's ssh answers a channel
  request while the link is up, a dead link is given up (the keepalive, checked
  in `server_live`), a service that sees the end of its connection closes.
  The responder has a deadline of its own (`Serve`); a probed service owes
  nothing more.
* Nothing else is assumed of the network, the client, ssh (until it is killed),
  the operator, crashes or restarts. `EvictWait` never elapses in `server_live`, so
  the timer cannot be what resolves an eviction.

**Conditions stated in the properties.** `LookupIsCurrent` exempts the
lookup whose own stat or read failed: it answers from the cache, however old.
`OneLiveSession` and `ReclaimsPorts` hold for clients none of whose eviction waits timed out: after `EvictWait` the
code goes on regardless, by design. `DoneMeansReleased` and `ReclaimsPorts`
exempt keys that may request port 0, whose listeners overwrite each other in
`fwds` and are not all closed. `LostAfterSilence` exempts the client whose very
first heartbeat is being recorded. `ConnectedMeansUp` exempts a callback that
fired just before its session ended; the last two exemptions are hazards the code is
exposed to. `TrafficIsSaved` and `CleanIsSaved`
exempt the time between a failed write, which is not retried, and the next one.
`CleanIsSaved` and `ImplementsLedger` exempt a process that could not load the file,
until and including its first save. `UptimeIsExact` is about windows with fewer
events than the cap. `ArrivalsAreReported` is about rows whose client is still not
connected when the text is made; what arrived between the client's leaving and a
late date of the sampler may be hidden, and "connected again" promises a past
session and no failure worth reporting since, not a new session.
`AnswersAreCurrent` is about requests that neither ran at an edit or a failed stat
or read nor overlap one that did. `ProbesLeaveNothing` is for an
ssh that passes half-closes on.

## 4. What the checks found

Shown by a violated run:

1. An entry created by traffic before the first sample has no last-seen time, and
   its offline row counts from 1970 (`traffic_offline`, `monitor/traffic.go:176`).
2. `streamClientUp` times a stream that never received a byte from the zero time
   and reports no error, so one refused or silent stream makes the measured
   upload zero, whatever the others moved; the comment promises that "as long as
   one works, there is a number" (`speed_upload`, `speedtest/speedtest.go:204`).

Observed while modelling (the models behave like the code; no property asks for
the opposite):

* `cancelForward` leaves the port in the `Client` record, so `/api/probe` still
  accepts it, contrary to its comment (`monitor/monitor.go:549`).
* With `authorized_keys` removed or unreadable, the cached keys stay valid until it
  can be read again; `docs/operations.md:10` says that no client can connect.
* A `traffic.json` that cannot be read or parsed at start is taken for none, and the
  next save replaces it: the history is lost (`monitor/traffic.go:48`).
* While the heartbeat socket cannot be reopened nothing is sent and nothing is
  missed: `udp_ok` stays as it was (`heartbeat/client.go:106`).
* A client's pre-flight probe counts as an attempt without failure, so `Diagnose`
  may say "connected again" of an address from which nothing connected
  (`monitor/attempts.go:114`).
* The sampler lists the registry and dates the clients it found afterwards: one that
  left in between is dated too late, and a failed connection of that moment is
  reported as nothing having arrived (`monitor/monitor.go:431`).
* A client that connects between the status request's list and its read of the
  store can be shown offline, with a text about its past, until the next request.
* An invalid `clients.json` before any valid one leaves `data` nil, so it is read
  and logged on every request, contrary to the comment at `monitor/meta.go:113`.
* Any failed stat of `clients.json` is taken for its removal, and clears the metadata
  (`monitor/meta.go:97`).
* A request whose stat failed may clear metadata another one has just loaded; the
  next request loads it again.
* `probeTCP` takes a channel request the client has not answered yet (a slow or
  dead link) for a service that holds the connection open.
* Over dropbear, a probe of a service that never speaks leaves its pipe open until
  the service or the session ends.
* The package comment of `speedtest` says the responder answers a PUT with
  "OK <bytes>"; it does not.

## 5. What is proved

For every set of sessions, names, ports, keys and requests satisfying
`ConstAssumption` (distinctness of the special values and the types of the
constant functions), and likewise for every value of the other modules' constants
that satisfies the assumption stated there.

`TunnelServerProofs`:

* `TypeCorrect`: `TypeOK`;
* `OneLivePerName`: `OneLiveSession`;
* `NoEvictionCycle`: `WaitsForEarlier`;
* `NoStaleEntry`: `NoDeadEntry`;
* `DisplacedIsClosed`: `StaleIsEvicted`.

`OneLiveSession` is far from inductive: nothing in it says that the session a
newcomer waits for is the *only* one of its name that may still be live. The
invariant `ManagerInv` orders sessions by their passage through the manager's
mutex (`ord`) and says: the entry in `byName` is the latest registration as long
as any session of the name is not done (`LatestInv`); of the sessions that
registered before a waiting one, those after the one it waits for are done
(`GapInv`); when `register` has returned, all earlier ones are done (`PastInv`).
A swap sets `waitFor` to the latest, so the gap is empty; the end of the wait adds
the one that was missing; `unregister` removes an entry only when it is the
session's own, so the latest is never lost. Two live sessions of a name then
contradict `PastInv`.

Of the listeners, in the same module:

* `ListenersReleased`: `DoneMeansReleased`, from `FwdInv` (each listener in `fwds`
  is bound by its session, once, while the loop runs) and the fact that a bound
  port of a key without port 0 is in `fwds`;
* `PortsReclaimed`: `ReclaimsPorts`, from the previous one and `PastInv`;
* `OwnersFree`: `OnlyOwnerFrees`, an action property: by `FwdInv` the listener a
  request or `closeAll` closes is the session's own;
* `ServerImplementsLease`: under `LeaseAssumption` (no eviction timeout, no
  port-0 keys) `Spec` implies `NameLease`'s `Spec` under the mapping above: each
  action is a step of the lease or leaves it unchanged.

`AuthStoreProofs`: `LookupsAreCurrent` and `CacheIsCurrent`, from `AuthInv`. Its
core is that the contents of a cache entry are never older than its time stamp
(the stat precedes the read), so equality of times means equality of contents; a
lookup whose reload did not fail therefore ends it with contents the file has had
since the lookup began in the cache (`ReloadInv`).

`ClientProcessProofs`: `UnansweredReported`, `CountsOnce`,
`ConnectedUp`, all of the composed process (a step of it is a step of the heartbeat,
of the supervisor, or of neither: lemma `Parts`). `UnansweredIsReported` says
nothing of the beats still outstanding, so `BeatInv` accounts for each beat: at
most one was sent per round since an outstanding one (`PaceInv`), those left at the
end of a round are young or the last (`YoungInv`), and every beat since the last
answer is outstanding or among the missed (`MissedInv`, a counting argument with
cardinalities). Enough beats since the answer then leave at least
`MissedBeforeWarn` missed.

`HeartbeatServerProofs`: `LostOnlyAfterSilence`; the invariant is that a record
with a time is no older than its client's silence. `CallbacksPair`: calls of
`OnLost` less calls of `OnResume` are the flag of the record, up to the calls the
checker and the receive loop have pending. This also needs that pending calls and
the first heartbeat being recorded are of clients with a record (`PairInv`).

`AttemptsProofs`: `ArrivalsReported` and `SuppressedCounted`. The invariant says that
the history of an address agrees with its entry (`HistInv`), that a client that is
not connected was last seen no later than it left or was dated late (`SeenInv`, where
rounding down to the second matters), that the same holds of what a request in
progress has read (`ReqInv`), and that the last IP of a client has had a session
(`OkInv`).

`PanelProofs`: `ProbesSpaced`, from `GateInv` (the gate has an entry of the right age
for every port probed within a minute), and `AnswersCurrent`, from `MetaInv`: once
only requests newer than the last edit and the last failed read are running, a cache that carries the
file's stamp holds what the file says, and one that does not will be reloaded.

`PipeProofs`: `ActiveIsExact`, by counting the pipes that have started and not ended,
and `RefusedFails`, since a refused connection has ended and carries no data.

`TrafficStoreProofs`:

* `UptimeExact`: `UptimeIsExact`, in two parts. What the saver leaves of a log is a
  suffix of the complete one that starts before the window: `CutInv` says that
  nothing was cut, or the first event left is older than the retention, or the
  log is as long as the cap; the first two are plain, and with fewer events than
  the cap in the window the third puts the cut before it too (`CutBeforeWindow`).
  Such a suffix starts its window at the same instant and says the same of every
  instant in it (`SuffixAgrees`). The other part is what the loop computes for a
  log of any length (`UpTimeCounts`): after i events it has counted the instants up
  before its cursor, and carries the state of an event that no event still to be
  counted precedes (`LoopInv`). The induction over i is a least-counterexample
  argument: `LeastNat` and `SetInduction` follow from the well-foundedness of `<`,
  stated for sets and not for predicates; that the recursion defining `Walk` has a
  solution at all is `LoopTrace`, proved the same way;
* `CleanSaved`: `CleanIsSaved`. It is not inductive: while the saver writes, it is the
  snapshot that must equal a store that is still clean (`CleanInv`);
* `StoreImplementsLedger`: `Spec` implies `Ledger`'s `Spec`. By `SaveInv` a snapshot
  being written is not newer than the memory and, if the file was loaded, not older
  than the file; this makes the replacement of the file a step of the ledger, every other action is one or
  leaves it unchanged.

The invariants of the proof modules (`StoreInv` among them) were checked with TLC
on the runs' instances before they were proved.

Every safety invariant and action property of the runs that pass is proved. Only
model-checked: the liveness properties, which need fairness and `ENABLED`. The
safety part of `TrafficIsSaved` is `CleanIsSaved`, that of `EvictionCompletes`
is `WaitsForEarlier` with `StaleIsEvicted`; these are proved.

## 6. What is not modelled

* Cryptography and encodings: SSH, HMAC and the heartbeat packet, JSON, the syntax
  of `authorized_keys`.
* Presentation: the HTML page, link templates, messages, the JSON of the rows, the
  scrape of a client's `/metrics` that feeds the sparklines, the loss percentage.
* Configuration, host key handling, the command lines of ssh and dbclient: straight
  line code that runs once and keeps no state.
* The bytes of a connection: `pipe` moves them or not, `TrafficStore` counts them.
* `Registry.Del` is modelled as it is (it removes whatever record the address has),
  but in no run do two sessions share an address.

## 7. Plan

Done: sections 2 to 5. What could follow:

1. Client, server and heartbeat together: a dead link is detected by both sides
   and the tunnel comes back.
2. The per-day totals of `TrafficStore` with their pruning.
3. Abstract specifications for the key cache and the probe gate.
