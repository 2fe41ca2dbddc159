# A TLA+ verification of certdx

certdx is an ACME front end for a fleet: `certdx_server` obtains and caches
certificates and serves them over HTTP and over gRPC SDS (Envoy's secret discovery
protocol); `certdx_client`, a Caddy plugin and one-shot tools consume them. This
directory models the server from renewal to listener, the stream between server and
client, the client daemon and the tools, checks small instances with TLC and proves
the safety properties for all instances with TLAPS.

## The system

| Part | State | Operations | Code | Module |
| --- | --- | --- | --- | --- |
| cache entry | `renewMu`, `cert`, `version`, `updated`, `cancelRenew`, `subscribing` | `renew`, `Snapshot`, `WaitForUpdate`, `subscribe`, `release`, the renewal goroutine | `pkg/server/cert_entry.go`, `server.go` | `CertEntry` |
| cert store | `update` channel, `entries`, `cache.json` | hand-off, `listenUpdate`, `saveEntry`, `Load` | `cert_store.go`, `server.go` | `CertStore` |
| server process | listeners, ACME account key | `Init`, `HttpSrv`, `serveHttps`, `SDSSrv`, `Stop`, `RegisterAccount` | `pkg/server/http.go`, `sds.go`, `pkg/acme/user.go`, `exec/server` | `ServerProcess` |
| SDS stream | at each end a context, `errChan`, two goroutines and one per pack | `StreamSecrets`, `Stream`, `handleCert` | `pkg/server/sds.go`, `pkg/client/sds.go` | `SdsStream` |
| gRPC client | `stateChan`, `mainRetryCount`, `standbyActive`, session, `Received` | `run`, `handleMain`, `handleFailover`, `handleFallback`, `handleRestart`, `GRPCMain` | `pkg/client/grpc_streamer.go` | `GrpcStreamer` |
| client daemon, HTTP mode | `UpdateChan`, `Data`, certificate and key files | `httpPollingCert`, `retry.Do`, `watchUpdate`, `writeCertAndDoCommand`, `loadSavedCert` | `pkg/client/daemon.go`, `handler.go`, `http_poller.go`, `pkg/retry` | `ClientDaemon` |
| updaters | WaitGroup, the daemon's map | register, deliver, wait | `exec/tools/tasks/*Updater` | `UpdaterTasks` |
| mTLS tools | CA, bundles, serial counter | `MakeCA`, `makeCert` | `pkg/tools` | `MtlsFiles` |
| domains | none | `AsKey`, `IsSubdomain`, `AllAllowed` | `pkg/domain` | `Domains` |

SDS handlers (and `serveHttps`) subscribe to a cache entry; the first subscriber
starts the entry's renewal goroutine, the last one cancels it. A renewal, by that
goroutine or by an HTTP request for an entry nobody subscribes to, replaces the
certificate, wakes the subscribers and hands the certificate to the one writer of
`cache.json`. A handler offers the certificate to the client and waits for its
acknowledgement; the client's handler puts it into the `UpdateChan` of a watcher.
On the client, a dispatcher goroutine moves between the main and the standby server
by messages that its own handlers send it; in HTTP mode a poller asks one server,
then the other. `Stop` cancels a root context; `main` then returns.

What is hard: concurrent renewals must collapse into one order and the broadcast must
miss nothing; a renewal goroutine must live exactly as long as its subscribers although
its CancelFunc is called outside the lock; renewals must be persisted in order through
a bounded channel; a watcher that hangs must not hold up other packs; the failover
machine must neither block on its own channel nor run two attempts at once; two renames
are not one, and a process may die between them. `PROJECT.json` lists the hazards with
their lines and the properties that would catch each.

## Modules

| Module | Models |
| --- | --- |
| `CertCell`, `CertFeed` | abstract: what a cache entry, and what an SDS stream, promises |
| `CertEntry`, `CertStore`, `SdsStream`, `GrpcStreamer`, `ClientDaemon`, `ServerProcess`, `UpdaterTasks` | the components |
| `MtlsFiles`, `Domains` | the mTLS files and tools (part of `ServerProcess`); operators on names (used by `UpdaterTasks`) |
| `CertEntryProofs`, ... | the theorems about the component of that name; `UpdaterTasksProofs` also has those about `Domains` |
| `SdsStreamFlow` | the first half of the proofs about `SdsStream`: its types, `FlowInv`, and the steps up to the server's handlers |
| `MCCertEntry`, ... | the instances for TLC |

The components are put together in four places: `CertEntry` and `SdsStream` are shown
to implement `CertCell` and `CertFeed`; `ServerProcess` runs its HTTPS listener over an
instance of `CertCell`; it extends `MtlsFiles`, whose bundles its mTLS endpoints load;
and `CertStore` uses of an entry only what `CertCell` promises.

**CertEntry.** A step is one critical section of `stateMu` or one blocking
operation. `pc` says where each goroutine is: renewers and requests go through
`renewStart`, `renewCheck`, `obtainFails` or `renewPublish`, and `handOff`; streams
through `subscribe`, `firstSnapshot`, `WaitForUpdate`, `wake`, `nextSnapshot`,
`offer`, `release` and `callCancel`. A certificate is the number of its issuance, 0
the zero `CertT`; validity is a Boolean that the environment may clear (`expire`).
Channels are numbered, `updated` is the current one, `closed` the closed ones. A
request's context does not descend from `rootCtx`, the others do (`CtxDone`). The
variables of a handler that has returned are reset, since nobody reads them.

**CertStore.** One renewal of a key at a time, the next after the hand-off of the last.
`os.WriteFile` takes two steps, truncation (`file.ok` becomes false) and completion,
and may fail in either. `start` is `Load` and `loadCertStore`: an unreadable file is
only logged, expired entries are dropped.

**SdsStream.** Both ends have the same shape, so many actions take the end as a
parameter. A send on an unbuffered channel is one step of two goroutines. `wire` holds
the messages under way to each end; the connection may break and the server may be
stopped at any step. `errChan` of one and the wait for the first error are `stream`.
`offerWait`, `offer` and `takeAck` are the server's `handleCert`; `takeOffer`,
`putUpdate` and `sendAck` the client's. The entry behind each pack is its version,
which `issue` raises; `offerWait` waits as `WaitForUpdate` does.

**GrpcStreamer.** `pc` of a goroutine at the name of a state means it is in
`sendState` with it. Each kind of goroutine has more than the slot it should need, so
that a second one could exist if the code allowed it. Sessions need no numbers: all but
the current one are cancelled, so `holds` (who has the current one) and `sessionDone`
suffice. The wait on `Received` is `wait`, and a swap moves waiters to `fired`. The
receiving goroutine may signal after its `Stream` returned (`inHand`). `Kill` only ends
a stream, which may end at any time in the model. The standby's retry counter chooses
only how long a pause lasts and is left out. `StopReturns` is about the goroutines of
the streamer; the WaitGroup also counts the watchers, which `ClientDaemon` models.

**ClientDaemon.** One certificate, a main and possibly a standby server that answer as
`handleCertReq` does: an entry that has a subscriber is not renewed but answered as it
is. `answered`, `refused`, `failed` and `backoff` are `httpRequestCert` under
`retry.Do`; `prepare`, `renameCert`, `renameKey` and `reload` are
`writeCertAndDoCommand`, any of which may fail; `crash` may come between any two, and
`start` loads the two files as they are, or nothing when one is missing or cannot be
read (`loadSavedCert`). After a save that failed, `Data` is ahead of the files until the
next renewal; `DiskMatchesMemory` and `NotOnDiskIsSaved` leave that case out.

**ServerProcess.** `start` to `exit` is `main`. `HttpSrv` takes one of three forms by
`auth`; `serveHttps` waits for a first certificate, binds, and rebinds when the watcher
has cancelled `iterCtx` for a new one. `saveKey` and `register` are `RegisterAccount`,
called by the server or by `google-account`; with the mock provider (`mock`) there is no
account. A file is absent, torn or whole. In `MtlsFiles` a certificate is its serial
number, the CA's own included. `MakeCA` signs the CA with 0 and saves 0 as the next
number, although `counter` is said to be "incremented after every successful signing"
(`pkg/tools/cert.go:29-31`): the first certificate always repeats the CA's number
(`FirstBundleRepeatsCA`). `SerialsRepeatOnlyIfUnsaved` is about the numbers of server and
client certificates among themselves.

**UpdaterTasks.** Both updaters, which differ in how they choose their tasks, in the
deadline, and in whether a handler is guarded by a `sync.Once`. `certs` is the daemon's
map, in which the last of two tasks with the same domain set has the place. The Tencent
Cloud updater registers an entry once for each certificate of the cloud it matches
(`txcMatches`); an entry that repeats a name may match two, and `wg` counts both.

**Domains.** A name is its labels, its case and whether it ends in a dot;
`normalizeName` forgets the last two. `AsKey` is the set of normal forms, the empty one
left out: the hash of the code is taken to be free of collisions.

Operators named `X_Something` before an operator `X` ("Slip" in the comments) are
deliberate mistakes; replacing `X` by one must break the property `PROJECT.json`
pairs it with, and does.

## Runs

Each run that passes also checks `TypeOK`, but for `entry_live`.

| Run | Instance | Shows |
| --- | --- | --- |
| `entry_safety` | 2 streams, 1 request, 2 renewers, 2 renewals | `NoRedundantObtain`, `MissFree`, `NoLeakedRenewer`, `EntryTended`, `ServesRealCert`, `OffersAdvance`, `ImplementsCell` |
| `entry_live` | 1 stream, 1 request, 2 renewers, 1 renewal | `SleepersWake`, `SubscribedIsRenewed`, `StopDrains` |
| `store` | 2 keys, channel of 2, 3 certificates per key | `PersistInOrder`, `NothingLost`, `MapOnDisk`, `RenewalReachesDisk` |
| `store_exit` | 2 keys, channel of 2, 2 certificates per key | violates `DrainedAtExit` |
| `streamer` | 2 main, 2 standby, 2 fallback, 1 restart goroutine, budget 2; with and without a standby | `OneDriver`, `SessionSwapAlone`, `RecoveryEndsStandby`, `StopReturns`, `MainTriedAgain` |
| `streamer_wedge` | 1 main, 1 standby, 2 fallback, 1 restart goroutine | violates `MainRetried` |
| `sds` | 2 packs, 2 renewals each; faults on streams of one pack | `AckMatchesOffer`, `NoHeadOfLine`, `ImplementsFeed`, `IssueReachesWatcher`, `StreamsEnd` |
| `client` | budget 1, 2 certificates; with and without a standby | `DiskMatchesMemory`, `NotOnDiskIsSaved`, `PollsForEver`, `StopReturns` |
| `client_empty` | as `client` | violates `FreshMaterial` |
| `updaters` | 2 tasks, 2 cloud certificates, 6 domain lists, 2 attempts; 2 deliveries (Kubernetes), 1 (Tencent Cloud) | `SuccessMeansAllDone`, `UpdaterReturns` |
| `updaters_wait` | 2 deliveries in both | violates `WaitsForEveryHandler` |
| `server` | 2 names, 1 lost write of the counter, 2 certificates; every endpoint configuration, a real or the mock provider | `KeyOnFileIsRegistered`, `SerialsRepeatOnlyIfUnsaved`, `ServesWhileUp` |

Why the bounds are enough.

- Two streams and two renewers let a release overlap a subscribe with the old and the
  new renewal goroutine alive; two renewals let a stream fall behind while it offers.
- A channel smaller than the number of certificates lets it fill and block (its capacity
  of 10 is a constant of the code).
- Two slots per goroutine of the streamer are enough to see a second one; the restart
  goroutine needs one, by `AttemptInOneHand`.
- Two packs are enough for one to hold up the other. With faults the goroutines of two
  packs are too many for TLC, so a stream that is refused, broken or stopped has one
  pack (`FaultPacks`); the theorems about `SdsStream` have no such bound. What is left
  unchecked is `StreamsEnd` with two packs.
- Two certificates let a poll find a newer one than the files hold, and a crash between
  the renames leave one of each.
- Two tasks can share a domain set; the six lists have one name in two spellings, a
  name below it, no name, a name outside the allow-list, and a name twice, which matches
  two other lists.
- The Tencent Cloud handler is called once in `updaters`; what happens with two calls is
  `updaters_wait`. `MaxVersion` and `MaxCert` only limit how long a run renews.

Deadlock is not checked where the program may stop: the entry after `Stop`, `GRPCMain`
after it returned, an ended stream, an updater that has returned. It is checked in
`store`, `client` and `server`, whose processes may always be started again.

### Fairness

- Goroutines that can run do (weak fairness per goroutine); timers and deadlines fire.
- `sync.Mutex` does not starve a waiter (strong fairness of `renewCheck`), and Go
  queues channel senders in order (strong fairness of `send`).
- A `select` with two ready cases does not take the same one for ever (strong fairness
  of `pollerStops`).
- ACME calls return, and do not fail for ever (strong fairness of `renewPublish`; in
  `ServerProcess`, weak fairness of the renewal of a subscribed entry).
- A client's `Stream` returns once its context is done, a listener once its context is;
  `main` returns after `Stop`.
- The daemon delivers a certificate to each updater handler that has a place in its map.
  `UpdaterReturns` rests on it for the Tencent Cloud updater, which has no deadline.

Nothing else is asked of the environment: peers, servers and connections need do
nothing, a listener need not fail, a reload command and a watcher need not return. Where
a property depends on one of them it says so (`PollsForEver`, `IssueReachesWatcher`).

### What the violated properties show

- `DrainedAtExit`: `listenUpdate` drains the channel on shutdown "so a renewal that
  landed right at shutdown is not silently dropped" (`cert_store.go:103-105`), but
  `main` returns as soon as `Wait` does (`exec/server/main.go:107`) and does not wait
  for it: a queued renewal can be lost, and `cache.json` can be left half written.
- `MainRetried` with a standby: the next attempt is lost when `handleRestart` runs
  under a cancelled session. Main answers; the fallback goroutine cancels the session;
  main fails again with its budget used up before the standby goroutine has reset
  `standbyActive`; `handleMain` asks for RESTART_MAIN; `handleRestart` sees the
  cancelled session and exits. Nothing tries either server again. A late signal on
  `Received` gives a second route. By `OneDriver` the attempt cannot be lost while the
  session is live, and `MainTriedAgain` says that this is the only way.
- `FreshMaterial`: `handleCertReq` answers 200 with an empty certificate when the entry
  has a subscriber whose first renewal has not succeeded (`http.go:92`). The client takes
  it for a new certificate, runs the handlers "invoked whenever a watched cert receives
  fresh material" (`handler.go:21-22`), and replaces its files.
- `WaitsForEveryHandler`: `WaitReplaceTask` "blocks until every registered handler has
  completed or ctx fires" (`txcCertificateUpdater/updater.go:188-189`), but a handler
  counts down on every delivery (line 155): two deliveries to one task end the wait
  before another's first. The Kubernetes updater has a `sync.Once` there.

## Proofs

The theorems are of the form `Spec => ...`, without fairness, or state what an operator
returns. They hold for every value of the constants that the `ASSUME` of the module
admits: sets of goroutines, packs, tasks or names are finite where they are counted,
budgets and bounds are naturals, model values such as `None` differ from the values they
stand beside. The bounds on renewals are constants too, so a theorem covers each of them.
In parentheses: the property of a run that the theorem is about. The others state a
definition of the proof module, or the formula in their own statement.

| Module | Theorems |
| --- | --- |
| `CertEntryProofs` | `TypeCorrect`, `RenewCorrect` (`NoRedundantObtain`), `BroadcastIsMissFree` (`MissFree`), `RealCertServed` (`ServesRealCert`), `EveryOfferAdvances` (`OffersAdvance`), `NoRenewerLeaks` (`NoLeakedRenewer`), `SubscribedEntryTended` (`EntryTended`), `EntryImplementsCell` (`ImplementsCell`) |
| `CertStoreProofs` | `TypeCorrect`, `MapIsOnDisk` (`MapOnDisk`), `PersistedInOrder` (`PersistInOrder`), `NothingIsLost` (`NothingLost`), `FileNeverGoesBack` |
| `SdsStreamProofs` | `TypeCorrect`, `AcksMatchOffers` (`AckMatchesOffer`), `DeliveredMeansPut`, `ReceiverNeverWaits` (`NoHeadOfLine`), `StreamImplementsFeed` (`ImplementsFeed`) |
| `GrpcStreamerProofs` | `TypeCorrect`, `AttemptInOneHand` (`OneDriver`), `SwapAlone` (`SessionSwapAlone`), `StandbyFlag`, `GoroutinesNeverPileUp` |
| `ClientDaemonProofs` | `TypeCorrect`, `MemoryOnDisk` (`DiskMatchesMemory`), `UnsavedIsSaved` (`NotOnDiskIsSaved`), `ReloadOverMatchingFiles` |
| `ServerProcessProofs` | `TypeCorrect`, `FiledKeyIsRegistered` (`KeyOnFileIsRegistered`), `SerialNumbers` (`SerialsRepeatOnlyIfUnsaved`), `FirstBundleRepeatsCA`, `BundlesAreKept`, `NoRenewalMissed`, `FailedEndpointStops` |
| `UpdaterTasksProofs` | `TypeCorrect`, `SuccessIsComplete` (`SuccessMeansAllDone`), `DoneNeverPanics`, `DuplicatesNeverSucceed`, `AnnotationKeepsKey`, `WatchedAreAdmitted`; of `Domains`: `SameKeySameAdmission`, `SameKeySameAllowList`, `AdmissionComposes` |

Few of these are inductive by themselves. What each argument needs in addition:

**CertEntry.** Three parts, each proved on top of `TypeOK` (and `WaitInv` of `RenewInv`
too). `RenewInv` ties `renewMu` to the program counters, without which nothing excludes
two ACME calls. `WaitInv` says that channel number and version agree, that exactly the
older channels are closed, and that a stream is as far behind in certificates as in
versions; the last is what makes an offer after a wait strictly newer. `RefInv` equates
the refcount with the cardinality of the subscribed streams and says where each
CancelFunc is, so that a late `callCancel` never hits the current renewer. The
refinement maps `handing` to the certificate of the goroutine in the hand-off;
`renewPublish` is `Renew`, `handOff` is `Settle`, `expire` is `Expire`, and every other
step stutters.

**CertStore.** `Bounded`: no certificate anywhere has a higher number than the last
issued, so a renewal is newer than all; it must speak of the file too, which a restart
reads back. `PipelineInv` says order and newness of the channel's places one by one, and
that the certificate in the hand-off is the cached one; without the latter, giving up a
hand-off could lose another certificate than the one `gaveUp` records. `DiskInv` puts the
file behind the map, the channel and the hand-off. It must compare the file with the
channel directly, since `start` may have dropped a key from the map that the file still
has. From it `FileNeverGoesBack`: a step may take a key out of `cache.json`, but leaves no
older certificate there.

**SdsStream.** `Typed` is `TypeOK` without its bound on the wires. `FlowInv` says of each
pack that its offer, or the acknowledgement of that offer, is one token in one place: a
wire, a receiving goroutine's hand or the client's handler; that the server's handler
waits for that token, and for that version, or has exited; and that until it is put, it is
newer than what the watcher has or will take next. Before the first request is delivered
there is no token at all (`OpenInv`), which is how a handler starts without one. In the
refinement `issue` is `Issue`, `takeUpdate` is `Apply`, and every other step stutters.
`PutInv` follows the token on its way back: its version is the one put to the watcher,
on the wire, in the receiver's hand and when the server's handler waits for the next
renewal (`DeliveredMeansPut`). `putUpdate` keeps it because the token is alone, a
step that moves the token takes the version along, and any other step brings that pack
nothing new on the way back (`Quiet`). The bound on
a wire, `WireBound`, counts: its messages are of different packs, so its length is at most
their number.

**GrpcStreamer.** `DriverInv` adds to `OneDriver` that a working `handleRestart` belongs
to the current session and that `handleMain` says STOP only after `Stop`: the two places
where an attempt is dropped. `AloneInv`: without a standby nothing of the failover cycle
exists and the session ends only by `Stop`, so that the attempt is never dropped at all.
`StandbyInv`: at most one `handleFailover`, `standbyActive` exactly as long as there is
one, and FAILOVER on its way only when it is not set. `GoroutinesNeverPileUp` follows from
both: a state in the channel is itself the one hand that has the attempt.

**ClientDaemon.** `BudgetLeft` for the types (`retry.Do` waits only while attempts are
left) and `DiskInv`, which says what the save under way has already renamed, and that a
chain and a key that do not match are in memory only before the first save. Memory is
then empty or what the files hold, so an update that the files do not hold differs from
it (`UnsavedIsSaved`).

**ServerProcess.** `SerialInv`: the serial numbers in use stay behind the counter, and
when the counter's own number is used already, a lost write has left room for one more
repetition. `CounterInv`: the counter on file is at most the number of bundles, which is
its type; with no bundle it is 0, the number of the CA, which is why the first bundle has
that number. `KeyInv` adds only the places of `RegisterAccount`. `CellInv` bounds the cell of
the HTTPS certificate. `HttpsInv` says of each place of `serveHttps` how its snapshot and
the version it has seen relate to the cell: equal versions mean equal certificates, except
between a wait that returned and the next snapshot. `NoRenewalMissed` and
`FailedEndpointStops` are what safety there is in `ServesWhileUp`.

**UpdaterTasks.** `CountInv`: the WaitGroup's counter is the number of registered tasks
that have not come to `wg.Done`, plus the matches beyond the first of each entry
(`Surplus`, which no handler counts down), and a failed task has recorded its error. This
fails for handlers that are called twice and not guarded, hence `CalledOnce` in three
theorems: the Kubernetes updater, or one delivery per task. `PlaceInv`: only a task with
a place in the daemon's map is called, and it has the place of its own domain set.
`MatchInv`: what the Tencent Cloud updater registers are the entries matched. `AskedInv`:
a registered secret passed `areDomainsAllowed`.

**Domains.** A suffix of a suffix is a suffix, and two names with one normal form are
alike to `IsSubdomain`; so a set of names is admitted, and admits, by its key. These are
the lemmas behind `WatchedAreAdmitted`, which assumes that the server admits what the
client's configuration lists, and concludes that no secret the updater watches is
refused. The theorems on lists are about non-empty names (`Names`), but
`AnnotationKeepsKey`, where empty ones are dropped.

Only model-checked: liveness (`SleepersWake`, `SubscribedIsRenewed`, `StopDrains`,
`RenewalReachesDisk`, `RecoveryEndsStandby`, `StopReturns`, `MainTriedAgain`,
`IssueReachesWatcher`, `StreamsEnd`, `PollsForEver`, `UpdaterReturns`, `ServesWhileUp`),
since fairness is out of the proof system's reach. Every other property that a passing
run checks is also a theorem.

## Not modelled

- ACME orders and challenge providers: calls of libraries and services. `CertEntry`
  models `Obtain` as a call that fails or succeeds.
- The Caddy plugin: `Start` and `Stop` call the client daemon and `GetCertificate` reads
  it; the rest parses a Caddyfile.
- Configuration, paths, logging, command lines, token check, routing and the encoding of
  requests: no state that changes after the start.
- The map of cache entries: that `get` returns one entry per domain set follows from one
  mutex around the whole of it. Entries share nothing but the update channel, which
  `CertStore` models for several keys.
- Two SDS streams, to main and standby, that feed one watcher at the same time: within a
  stream order is `ImplementsFeed`, between two of them the code promises none.
- The grace period of the HTTP server at shutdown: requests under way hold no state that
  outlives them but the entry's, which `CertEntry` models.
- Several runs of the tools at the same time: they share the files without a lock, and no
  document says that they may be.
- Contents of certificates and keys. A certificate is a number, and its chain and key
  match when their numbers do.
