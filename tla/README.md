# A TLA+ verification project for cd-operator

## 1. The system

cd-operator is a Kubernetes operator: it watches `Application` objects, fetches the
manifests an Application names from a git server and applies them to a cluster. Its
process holds several goroutines that share state without locks.

| Component | Source | State it keeps | Operations | Talks to |
|---|---|---|---|---|
| Application controller | `controllers/application_controller.go` | the `Application` object (finalizer, conditions, secret, sync status) | `Reconcile`, `handleFinalizer`, `setWebhookRegisteredCond`, `setReadyCond` | API server through the informer cache, git server, sync managers |
| Periodic sync routines | same file, `pkg/sync/sync.go` | `syncStopFlags`, `syncTickers`, one goroutine per ready Application | `manageSyncRoutine`, `registerSyncFlag`, `deleteSyncFlag`, `PeriodicSyncCheck` | the controller's worker over unbuffered channels |
| Sync dispatch | `pkg/sync/sync.go` | the process-wide `PlainYamlManager`, `HelmManager` | `CheckSync` | every caller: worker, periodic routines, webhook and API handlers |
| Plain YAML manager | `pkg/manifestmanager/{manifestmanager,plainyaml}.go` | `TargetCli`, `GitCli`; DeployResources and deployed objects in clusters | `Sync`, `Clear` | API servers of two clusters, git server |
| Helm manager | `pkg/manifestmanager/helm.go`, `util/{helmclient,gitclient,exec}` | clone under `/tmp`, helm client, releases | `Sync`, `Clear` | helm, git, API server |
| Webhook server, dispatcher | `pkg/server`, `pkg/dispatcher` | plugin table | `ServeHTTP`, `HandleEvent`, `Handle` | git server's deliveries, `CheckSync` |
| Aggregated API server | `pkg/apiserver`, `internal/apiserver`, `internal/wrapper` | router tree, certificate | `Authorize`, `syncHandler` | Kubernetes aggregation layer, `CheckSync` |
| Config controller | `controllers/configmap_controller.go`, `internal/configs` | the `configs` variables, `lastResourceVersions`, update channels | `Reconcile`, `ApplyControllerConfigChange` | expose controller, `main` |
| Expose controller | `controllers/expose_controller.go` | `lastResource` per watcher, `CurrentExternalHostName` | `watchResource`, the two `reconcile`s, `updateExternalURL` | API server, webhook registration |
| Git clients | `pkg/git` | none (the fake one keeps a store) | hook registration, manifest listing, webhook parsing, paging | GitHub, GitLab |
| Cluster access, utilities, start-up | `pkg/cluster`, `internal/utils`, `cmd/controller` | none | - | - |

### How the parts interact

- **Calls.** The controller's one worker, every periodic routine, every webhook
  delivery and every call of the sync API end in `CheckSync` (`pkg/sync/sync.go`), which
  uses one `PlainYamlManager` for all Applications. The worker alone calls `Clear`.
- **Shared state without locks.** `syncStopFlags`/`syncTickers` (worker only), the manager's
  `TargetCli` and `GitCli` (all callers), the `configs` variables (config controller
  writes, watchers, updater and worker read), the slice of update channels.
- **Channels.** Unbuffered stop channels (worker to routine), update channels of capacity
  one (config controller to watchers), an unbuffered host channel (watchers to updater),
  `ControllerInitCh` (config controller to `main`).
- **Kubernetes.** Reads come from an informer cache that lags; `Update` carries a
  resourceVersion and can conflict; the status patch carries none and always lands.
- **Git server.** Webhooks are listed, registered and deleted by address; manifests are
  listed per repository and path.

### What is hard, and what correctness means

| Component | Hard behaviour | What makes it correct |
|---|---|---|
| Application controller | stale copies, two kinds of write, deletion during the first Reconciles, retries, crashes | the finalizer goes last, a gone Application leaves nothing, deletions complete |
| Periodic routines | stopping a goroutine that is busy, a blocking send in the only worker | map and goroutines agree; no stop blocks; nobody runs beside `finalizeApp` |
| Webhook and status | lost replies, lagging cache, list-valued patch | one webhook per address; secret and readiness are kept by every Reconcile that read the stored version; condition and webhooks agree |
| Plain YAML manager | several callers, one `TargetCli`; a failing call in the middle | objects only in their cluster, pruning only one's own and only what was removed, a Clear that leaves nothing its list of DeployResources showed, convergence |
| Config and expose controllers | notifications that merge, conflicts, unlocked variables, start-up order | once nothing is left to do, Service, Ingress and host are as configured |
| Helm manager | clone, releases and DeployResources left by a step that failed, panics, one client for all callers | what is installed is what was recorded, the finalizer leaves nothing, deletions complete, releases follow the target revision |
| Servers | requests side by side, look-ups that fail, Applications and permissions that change meanwhile | events say what the server's parser can tell of what happened, only signed pushes and permitted users force a sync, no push is lost on the way |
| Git clients | several requests for one answer, two servers with different words | listings miss and invent nothing, statuses come back as set |

The list of hazards, each at its line, is in `PROJECT.json`.

## 2. Plan

Written, in this order:

1. `SyncRoutine` with `SyncRoutineProofs`: worker, finalizer, periodic routines.
2. `PlainYamlSync` with `PlainYamlSyncProofs`: what one `CheckSync` does, call by call, with
   several callers.
3. `WebhookRegistration` with `WebhookRegistrationProofs`: secret, webhook, conditions.
4. `Expose` with `ExposeProofs`: config controller, expose controller and the start of `main`.
5. `ManifestManager`: what `Sync` and `Clear` promise, implemented by `PlainYamlSync`.
6. `HelmSync` with `HelmSyncProofs`: the other manager, with the clone, the dry run and the
   releases of helm.
7. `GitClient` with `GitClientProofs`: the calls of the git clients that take several requests.
8. `Requests` with `RequestsProofs`: both HTTP servers, the parsers of deliveries, dispatcher
   and authorizer.

To come: a composition of the deletion in `SyncRoutine` with the calls of `PlainYamlSync`;
an abstract "host = function of the settings" implemented by `Expose`.

Theorems planned next: those of the two modules to come.

No module that is proved about uses a RECURSIVE operator; parameters are CONSTANTS with
named assumptions; bounds (`Max...`) occur only as guards.

## 3. Modules

Definitions keep the names of the functions they stand for; an action stands for what the
code does between two points where somebody else can see or change something.

### SyncRoutine

*Code*: `Reconcile`, `handleFinalizer`, `finalizeApp`, `manageSyncRoutine`,
`registerSyncFlag`, `deleteSyncFlag`, `PeriodicSyncCheck`, the forced syncs of
`deploy.go` and `dispatcher.go`.
*State*: `obj` (API server), `cached`/`current` (informer), `queue`, `worker` (program
counter, original copy, changed copy, is its resourceVersion current), `syncStopFlags`,
`routine` (goroutine per channel), `handler`, `managerReady`, `deployed`, `hooked` (a
webhook with the Application's address is at the git server), `crashes`.
`syncTickers` is always set and deleted with `syncStopFlags` and is folded into it. Every
Application has a token; one without is ready as soon as its secret is stored.

- A Reconcile is the chain `ReconcileHookOk/Failed`, `ManageSyncRoutine`,
  `WorkerCheckSyncOk/Err`, `SetDefaultValuesOk/Err`, one of `HasFinalizer`,
  `AddFinalizer`, `HandleDeletion` with `FinalizeStop`, `FinalizeClearOk/Err`,
  `RemoveFinalizer`, and always `StatusPatch`, the deferred function, or `StatusPatchErr`,
  which is only logged.
- A registration is refused for an address that has a webhook. One that took effect
  without being recorded (a lost reply, a lost patch, a crash) is therefore refused for ever:
  `Unrecorded`, the one exception of the two liveness properties.
- A check that fails, the worker's, a routine's or a forced one, may have built the manager and
  deployed a part.
- `UpdateOk`/`UpdateErr` are the optimistic lock; `Patched` is the merge patch of the
  difference between original and changed copy.
- A send on a stop channel is one step of worker and routine together, possible only while
  the routine is in its select (`StopDelivered`).
- A ticker with period zero and a call of the nil manager panic: `Panic` kills the process,
  and `Crash` does so at any step. `Restart` keeps what is stored and deployed.

### PlainYamlSync

*Code*: `CheckSync`, `Sync`, `Clear`, `setTargetClient`, `GetDeployResourceList` and the
other methods of `plainyaml.go` and `manifestmanager.go`.
*State*: `manifest` (repositories), `live` (objects per cluster), `records` (the
DeployResources stored), `cached` (the informer's copy of them, which the manager's client
lists and looks up), `gitCli`, `targetCli`, `proc` (each caller's program counter and local
variables), `reported`, counters of pushes, drift and faults, and two history variables of what
the copy has kept from a call: `proc.hidden`, the DeployResources its list did not show, and
`skipped`, those not made because the copy still showed a deleted one.

Every call to a server is a step, and each reads `targetCli` anew. `SetTargetClient`,
`GetManifestInfos`, `GetDeployResourceList` begin a Sync; per manifest come
`ObjectFromManifest`, `UpdateDeployResource` (the Get), `CreateDeployResource` (which fails with
AlreadyExists where the copy lags), `CompareDeployWithManifest`, `ApplyManifest`;
`EndOfManifests`, then per deprecated record `DeleteRecord`, `GetDeprecated`,
`DeleteDeprecated`; `Finish`. `CallFails` is an error at any of these. `CacheRecord` lets the
copy catch up with one DeployResource, in any order; `MaxLag` bounds how many it is behind.
Simplifications: an object per file; the Get and the dry-run Update of a comparison are one
step; the set of Applications is fixed.

### WebhookRegistration

*Code*: the same `Reconcile`, seen from the status: `setWebhookRegisteredCond`, `setReadyCond`,
`setSecretString`, `clearWebhook`.
*State*: `obj`, `events` (versions on their way to the
informer), `cached`, `queued`, `worker` (with `lagged`: its copy was old when it was read),
`hooks` (on the git server), `host` (`CurrentExternalHostName`), `replaced` (a stored secret has
been overwritten), `crashes`. `MaxLag` says how many versions the cache may lag when a Reconcile
starts; 0 is the case in which the informer has caught up. `Draw` takes a secret that nothing
uses (`InUse`). `ListWebhookOk/Err`, `RegisterWebhookOk/Lost/Err` are the calls of the
registration, `ClearWebhookList`, `ClearWebhookEntry` (one turn of the loop), `ClearWebhookEnd`
those of the finalizer; `StatusPatch` or `StatusPatchErr` ends every Reconcile. `Reply` is what
decoding the reply of `Update` leaves of the in-memory status.

### Expose

*Code*: `configmap_controller.go`, `internal/configs`, `expose_controller.go`, the start of
`main`.
*State*: `log` (the settings cd-config has had), `rsc`/`events` (Service and Ingress and the
versions their watches have not delivered), `ctrl`, `config` (the variables), `main`,
`initCh`, `chans`, `cfgCh`, `watcher` (the two goroutines), `updater`, `current`.
The four variables are written one by one in any order (`GetVar`); `IngressHost` and
`ExternalHostName` are read twice, as in the code (`ReconcileIngress` and
`AssignIngressHost`, `UpdateExternalURL` and `AssignExternalHost`). `ReadChans` and
`RegisterChan` are the two halves of the unlocked append. `failed` and `Turned`'s reset of
dead local variables are the model's own. `IngressClass` is left out.

### ManifestManager

The abstract specification of the interface of that name: per Application, what its
repository and its cluster hold. `Deploy` (objects become as the repository has them, by
policy or force), `Prune` (what the repository has dropped goes), `Clear`, and what others
do: `Commit`, `Drift`. `PlainYamlSync` implements it under the mapping at its end
(`Manager`, property `ImplementsManager`), which shows of each cluster the Application's own
objects: each of the many steps of a call is one of these steps or a stutter.

### HelmSync

*Code*: `helm.go`, `util/helmclient`, `util/gitclient`, the calls of `manifestmanager.go` it
uses, and `clearGitRepo`.
*State*: `head` (charts in the repositories), `target` (TargetRevision), `clones` (under
`/tmp`), `helmClient`, `release` and `live` per cluster, `records`, `app`, `proc` (each
caller's program counter and local variables), `events`.

A Sync is `Fetch` (`Clone`, `Pull` or `PullRefused`), `SetTargetClient`, `GetDeployResourceList`,
`ObjectFromManifest` (the dry run), `SetTargetClient` again for the objects,
`UpdateDeployResource` per object, `EndOfManifest`, per left-over record `DeleteDeployResource`
and `DeleteDeprecated`, `InstallHelmChart` and `InstallEnd`. A Clear is `SetTargetClient`,
`UninstallRelease`, `GetDeployResourceList`, `ClearDeployResource`, `EndOfClear`; `ClearGitRepo`
and `RemoveFinalizer`, the Update that may fail after it, follow. `Panic` ends a handler, which
net/http catches, and in the worker the process; with its container go the clones. go-git's pull
merges what HEAD of the server names, and only as a fast-forward. A chart is the set of objects
it renders to; helm changes the objects at the start of an installation and refuses another while
the release is pending. An Application is not made again, and the periodic routine, which does
what Reconcile does, is not a process of its own. DeployResources are listed as they are stored:
the cache behind the code's list is assumed to have caught up after the clone or pull, or the
installation and its removal, that come before it.

### GitClient

*Code*: `http.go`, `linkparser.go`, `github.go`, `gitlab.go`.
*State*: `api` (which server), `hooks`, `statuses`, `tree` of the repository, `call` (the
client's call under way), `wrote` and `since` (what the properties compare with), `events`.

Each HTTP request is a step: `GetPaginatedRequest` reads one page and follows `NextLink`;
`GetManifestInfos` reads one directory and `ObjectFromManifest` one file.
`RequestFails` at any of them. Others push, delete
webhooks and set statuses in between. `StatusRequest` and `CommitState` are GitLab's words,
`FirstOfContext` what is left of GitHub's log. Setting and listing statuses has no
caller in `src/` yet.

### Requests

*Code*: `pkg/server`, `pkg/dispatcher`, `ParseWebhook` with both `parser.go` and `webhook.go`,
`authorize.go`, `deploy.go`.
*State*: `api`, `tip`, `pull`, `hook` of the repository, `net` (deliveries on their way), `app` and
`allowed`, `req` (the handlers), `seen` (the commit synced last), `missed` (history: commits whose
delivery or sync was lost or ended in an error, and those an older sync took back), `events`.

What happens in the repository (`Pushed`, `Merged`, `Labelled`, ...; "assigned" stands for the
further actions of a pull request that both parsers hand on) is sent as a `Delivery`,
which `GithubBody` and `GitlabBody` put in the server's words. A handler is the chain
`ServeHTTP`, `GetApplication`, `ParseWebhook` (verification, ignored events), `Lookup` per
request to the git server, `HandleEvent`, `Handle`, `CheckSync`, `Apply`; for the sync API
`RequestSync`, `Authorize`, `GetApplication`, `CheckSync`, `Apply`. `GithubEvent` and
`GitlabEvent` are the parsers' results, with what they looked up. A forced sync reads the branch
(`CheckSync`) and applies what it read or fails (`Apply`), beside others; the steps in between are
those of `PlainYamlSync` and `HelmSync`. Signatures are the secret they were made with; names of
users, titles and addresses are left out.

### How they fit together

`SyncRoutine` reduces what a Sync deploys to a Boolean and a registration to "worked or
not"; `PlainYamlSync` and `HelmSync` have the detail of the first, `WebhookRegistration` of the
second, `Expose` of the host name the second uses. `GitClient` has the requests behind the
listings and registrations that are one step there; `Requests` has what comes before the forced
syncs of all the others. The `MC` modules only give the instances.

## 4. Runs

| Run | Question | Bounds |
|---|---|---|
| `sync_routine_safety` | do map and goroutines agree, can the worker block, does anything run beside `finalizeApp`? | 1 Application, 2 channels, 1 crash, every environment event but resync, forced syncs |
| `sync_routine_gone` | does a gone Application leave anything; does the finalizer go last? | 2 Applications, 3 channels, 2 crashes, no failures and no edits; Applications and channels are symmetric |
| `sync_routine_live` | do deletions complete, does a live Application get its routine, unless its webhook stays unrecorded? | 1 Application, failing calls, resync, 1 crash, fair |
| `plain_serial` | what does one Sync or Clear after the other promise, and is that what the interface promises? | 2 Applications, 3 objects with 2 contents, 3 pushes, 1 drift, the list of DeployResources lags by 1; contents and the two objects of one Application are symmetric |
| `plain_concurrent` | what is left of it with two callers, a failure or a crash? | 1 Application, 2 objects with 2 contents, 2 pushes, 1 drift, 1 fault, no lag, fair |
| `plain_race` | does an Application's object ever reach another cluster? It does. | 2 Applications, 2 callers |
| `hook_once` | is an address registered twice; who may take secret and readiness back; do webhooks carry the stored secret? | 2 hosts, cache 1 version behind, lost replies, failing updates, 1 crash |
| `hook_status` | do condition and webhooks agree, is readiness reached, are the webhooks gone in the end? | cache caught up, all other failures, manual registration, 2 crashes, fair |
| `expose` | is everything as configured when nothing is left to do? | 6 settings, 1 edit, 1 address, 1 fault |
| `helm` | does a Sync install what it recorded, a Clear remove it, and does either get there after failures and follow the target revision? | 2 Applications in 2 clusters, 2 branches, 1 forced sync beside the worker, 2 events (commits, edits, forced syncs, failures, crashes), fair |
| `git_client` | what is a result of several requests worth while others change the repository? | both servers, pages of 1 entry, GitLab trees of 2, 3 files in 2 directories, 2 contexts, 3 events |
| `requests` | what do events tell of what happened, who can force a sync, is a push ever lost? | both servers, 2 handlers, 1 label, 2 events (happenings, deletions, permissions, API requests, crashes), fair |

*Why these bounds are enough.* Two channels for an Application let a restart of its
routine use a fresh one; a third lets two Applications do so at once. Two objects let one be
pruned while another is applied, the third belongs to the other Application. A lag of one
DeployResource is enough for a Clear to miss what the Sync before it has made and for a Sync to
skip what the one before has deleted. A cache one version behind lets a second Reconcile draw a
second secret after the webhook was registered with the first, and take readiness back; two
secrets in use at a time hold both. Three webhooks allow a duplicate beside a manual
registration. In `expose` one
edit meets either watcher at any step of its turn, and the first configuration counts as
another; a second edit made the state space too large for the time a run should take.
In `helm` two events are enough for a commit or a crash at every step beside a failing call, and
for a forced sync that meets the worker. A page of one entry makes two webhooks a listing of two
pages. In `requests` two events are two pushes, a push and any change beside it, or a request
of the API and a withdrawn permission, in two handlers at once.
The passing runs take between seconds and about three minutes.

`CHECK_DEADLOCK FALSE` stands in the `hook_...` runs, where a system whose Application is
gone has stopped, in `expose`, which waits for the next edit, in `helm`, where every
Application may be gone, and in `requests`, where the servers wait for the next request.

*Fairness.* Goroutines run and server calls return (weak fairness). Strong fairness is used
for the successes of calls that are retried for ever (an assumption about the servers; a
registration can succeed only while its address has no webhook, so after one that was
not recorded nothing is assumed), for
names in the work queue (first in, first out), for the delivery of a stop (Go's select takes
ready cases at random, and a sender stays queued) and for each Application's periodic
Sync. In `HelmSync` the steps of goroutines are weakly fair and the work queue hands out
each Application in turn (strongly fair); in `Requests` the arrival of deliveries that are not
lost and the handlers' steps are weakly fair. Users, failures and crashes are never fair.

Every property of a passing run has a mutant, a definition marked "Mutant of ..." that
changes one definition the way a slip in the code would and breaks that property.

## 5. Proofs

Checked by TLAPS for all values of the constants that satisfy the modules' named
assumptions. Where a theorem needs more, it is a hypothesis of its statement, an instance a run
checks satisfies it, and the reason is given here.

In `SyncRoutineProofs`:

- `TypeCorrect`.
- `RoutinesAreRegistered`, `StopsAreHeard`: `NoUnstoppableRoutine` and `NoBlockedStop`. The
  inductive invariant is the agreement of map and goroutines in both directions: a registered
  channel has a routine of that name, a running routine's channel is registered under its name.
  Each direction alone is not inductive, because a restart needs one to know which routine to
  stop and the other to know that there is no second.
- `ClearIsUndisturbed`: `StoppedBeforeClear`; between the stop and the removal of the
  finalizer the worker starts no routine, and nobody else does.
- `FinalizerGoesLast`: `FinalizedIsClean`, assuming `Forced = {}`. The strengthening adds
  that no handler runs and that a cleared Application stays undeployed while its worker is at
  `remove`.
- `PeriodsAreDefaulted`: `PeriodIsDefaulted`, assuming `Calm` (no edits, failing updates, foreign
  finalizers or names used again; resyncs, forced syncs and crashes may happen). What a version of
  an Application, stored or cached, says of finalizer, period and status goes together (`Sound`),
  since the first Update stores finalizer and period before any status is patched; a cache
  that knows no finalizer is up to date (`VersionsAgree`), and `WorkerKnows` follows a Reconcile's
  copy step by step.
- `NothingOutlives`: `GoneMeansClean`, assuming `Undisturbed` (`Calm`, no resync, no forced syncs).
  No Reconcile works on a copy with the finalizer once the stored object has lost it
  (`FinalizerKnown`), so whatever is deployed or runs has its finalizer stored
  (`CleanWithoutFinalizer`). `sync_routine_gone` satisfies the hypotheses.

In `PlainYamlSyncProofs`, for any number of Applications, callers, objects and clusters:

- `TypeCorrect`, with what a call's local variables hold by the time they are used (`CallsKnow`).
- `DestinationsKept`: `DeployedInDestination`, assuming `OneRepository` and, as `plain_race`
  shows to be necessary, `OneCaller` or `OneCluster`: `TargetCli` is then the client of the
  cluster of whoever uses it (`Directed`).
- `PruningIsOwn`: `PrunesOwnOnly`, if labels differ: what a call keeps in `old` and deletes is of
  its own label (`OldIsOwn`), whatever fails and however calls overlap.
- `PruningIsOfTheRemoved`: `PrunesOnlyRemoved`, for any number of callers and failures, while
  nobody pushes during a call: a listed record without the mark of a manifest met has none, or
  the loop has still to come to it (`KnownManifests`).
- `DeployedAreTracked`, `ClearingIsComplete`, `SyncedMeansAgreed`: `Tracked`, `ClearIsComplete`,
  `SyncedIsTrue`, for one caller without failing calls, however far the informer lags (any
  `MaxLag`); the last also without pushes and drift during a call. A record precedes the object
  and outlives it, or the copy made a Sync skip it (`Traced`, `RecordedFirst`, `TrackedByOwner`), so
  the list a call took covers the cluster but for what it did not show (`ClearsAll`, `SyncSeesAll`).
- `ManagerImplemented`: `ImplementsManager`, under the hypotheses of `DestinationsKept` and
  with manifests of each Application deployed to a cluster by nobody else
  (`TargetsDiffer`): each step of a call is a step of `ManifestManager` or a stutter,
  with failures and crashes.

  The runs `plain_serial` and `plain_concurrent` satisfy these hypotheses.

In `ExposeProofs`:

- `TypeCorrect`.
- `ResourcesSettle` and `HostSettles`: `SettledResources` and `SettledHost`, assuming `InOrder`:
  `main` adds its handler before the first event and no append to the slice of channels is
  lost (the other case is in section 6). The invariant follows a change from ConfigMap to
  host name. `Startup` and `Registration` say which watchers are registered by when,
  `ConfigFollows` that a variable is the last setting's or still to be written, `VersionsFollow`
  that a watcher's version is the stored one or a newer one is under way. `ResourcesKept` says
  of each watcher "done or due": its resource is as configured, or a notification, an event
  or a turn under way will make it so. `TurnsAgree` and `HostOk` say the same of what a turn
  has read and of the host name in the updater's hands.

In `GitClientProofs`, without any hypothesis, for both servers, any tree and any page size:

- `TypeCorrect`.
- `ManifestsGenuine`, `ManifestsComplete`: `ManifestsAreGenuine` and `ManifestsAreComplete`. What
  has been read was there at some time since the call began (`Genuine`); what was there all
  the time has been read, or is below a directory still to be read, or was cut off (`Complete`).
- `HooksAreListed`: `ListsAllHooks`. A server numbers its webhooks upwards (`HooksInOrder`), and
  the pages read so far are the beginning of its list as long as none is deleted
  (`HooksSoFar`).
- `StatusesAreListed`: `StatusIsListed`; the server shows for a context what was written
  last, and the pages read so far begin its list (`StatusesKept`).

In `RequestsProofs`, for any number of handlers, labels and happenings:

- `EventsAreTrue`, `SyncsAreAsked`: `EventsTellWhatHappened` and `ForcedSyncsAreAsked`. The
  invariant says of a delivery on its way that something in the repository made it
  (`DeliveriesFit`) and of a handler, step by step, what it has verified and looked up
  (`Handled`). What `EventsTellWhatHappened` asks of a pull request's action is `ActionsFor`: the
  words of `git_types.go` where the parser has them, the server's own for a merge or an edit, and
  for labels on GitLab only that they changed (section 6).

In `HelmSyncProofs`, without any hypothesis, for any number of Applications, objects, branches,
clusters, callers and failures:

- `TypeCorrect`, with what a call and the manager must hold by the time it is used (`CallOK`).
- `InstallsMatch`, `FinalizerLeavesNothing`, `DeathsAreKnown`: `InstallsWhatWasRecorded`,
  `FinalizedIsClean` and `DiesOnlyOf`. They speak of calls that had the manager to themselves,
  so the invariant says of any such call what it has found and done and that nobody undid
  it (`AloneKnows`): its clone is there and its dry run is of that clone (`KnowsClone`), the
  DeployResources are those it listed, with what it has added and without what it has deleted
  (`KnowsRecords`), its release is as it left it (`KnowsRelease`). That is inductive because no
  other goroutine is in the manager meanwhile (`Exclusive`). Whatever calls overlapped before,
  the objects in a cluster belong to the releases there (`LiveIsReleased`, since charts of different
  Applications render to different objects), and only the worker finalizes (`WorkerFinalizes`).
  They rest on a list of DeployResources that shows what is stored.

In `WebhookRegistrationProofs`:

- `TypeCorrect`.
- `NoDuplicateWebhook`: `RegisteredOnce`, assuming ListWebhook does not fail
  (`"listErr" \notin Env`), for any lag and any number of crashes. The strengthening
  `AddressIsNew` says that while the worker is about to register an address, no webhook of
  the operator has it; the worker is the only one to register, and users are told apart.
- `StatusIsFinal`: `StatusOnlyGrows`, without hypotheses: at every lag, only the patch of a
  Reconcile that read a lagging copy takes secret or readiness back. The invariant `StatusInv`
  follows a Reconcile from copy to patch: the cache is the stored object or lags it by events
  whose last is the stored one (`CacheFollows`), an object not created is blank
  (`UncreatedIsBlank`), a copy that did not lag when it was read has what was stored then, and
  nobody but this Reconcile changes the status meanwhile (`OriginalIsStored`, `LaggedIsOld`), the
  changed copy only adds to it (`CopyExtends`).
- `WebhooksVerify`: `DeliveriesVerify`, without hypotheses: at every lag, until a stored secret
  has been replaced, webhooks and copies know no other than the stored one (`OneSecret`), since one
  is drawn only where none is stored and registered only after it is drawn.
- `HooksFollowStatus`: `HooksMatchStatus`, assuming `Untroubled` (`MaxLag = 0`, no failing
  `Update` but the refusal of an old copy, one host), under which no copy lags and no
  secret is replaced (`Current`); section 6 says what happens otherwise. A
  secret is stored only with or after the finalizer (`FinalizerFirst`, `CopyKnows`), so nothing is
  registered for an Application without one (`WorkerAims`), and the finalizer goes when
  `clearWebhook` has met every webhook of the operator (`OperatorHooks`); a condition that says
  "registered", stored or still in the copy, is true (`OkIsRegistered`). `hook_status`
  satisfies the hypothesis.

*Only model-checked*: every liveness property (`DeletionCompletes` and `LiveGetsRoutine` of
`SyncRoutine`, `AutoSyncKeepsSynced`, `ManifestsGetDeployed`, `BecomesReady`, `EveryPushIsSynced`,
`DeletionCompletes` and `ReleaseFollowsTarget` of `HelmSync`), since liveness under
fairness is out of the prover's reach.

## 6. What the models show about the code

A disagreement between code and text has a run (`PROJECT.json`, "findings"): `plain_race`.

The following the code does too; the properties above exclude them by the constants named
here, and TLC shows each when they are changed:

- `FinalizedIsClean` and `GoneMeansClean` fail with forced syncs (`Forced`): the goroutine of
  `deploy.go` may deploy an Application that has just been cleared. `GoneMeansClean` also
  fails with `"edit"`, `"recreate"`, `"err"` or `"foreign"`, and with a crash and
  `"resync"`: a Reconcile of a cached copy starts routine and deployment again.
- `PeriodIsDefaulted` fails with `"zero"` and `"edit"`, `"err"`, `"foreign"` or `"recreate"`: the
  default period is stored only by the finalizer's `Update`; when it conflicts or is not made, a
  ticker with period zero panics in every later Reconcile.
- `LiveGetsRoutine` needs `"resync"`: a failed registration queues nothing; with `"zero"`
  and `"err"` it fails by the panic above.
- An Application that is deleted in a process that has not synced anything makes `Clear` use a nil
  manager: a panic after every restart, until some Application has been synced.
- A crash or a failed patch between registration and status leaves the webhook unrecorded: every later
  Reconcile reports "same webhook has already registered", the Application never gets ready nor its
  routine, and its deletion meets the panic of the item before. `DeletionCompletes` and
  `LiveGetsRoutine` of `SyncRoutine` fail without their exception `Unrecorded`.
- The list of DeployResources comes from a cache (`manifestmanager.go:26`, `main.go:90`). CheckSync
  and Clear follow one another in one Reconcile: a Clear whose list does not yet show what the Sync
  has made succeeds and leaves the object; a Sync to which a deleted DeployResource still shows
  does not make it again. `ClearIsComplete`, `Tracked` and `SyncedIsTrue` fail without their exceptions
  (`Unseen`) when `MaxLag` is 1.
- `PrunesOnlyRemoved` fails with pushes during a Sync (`"midway"`), and so does
  `AutoSyncKeepsSynced` with two callers: two Syncs with pushes between their listings leave an
  object without DeployResource, which no later Sync removes. A failing call after
  `DeleteRecord` does the same.
- `PrunesOwnOnly` fails for equal labels: `x` in namespace `y-z` and `x-y` in `z`.
- An unforced Sync without AutoSync prunes: the loop looks at neither. `Prune` of
  `ManifestManager` states it as it is.
- Applications of different repositories are all synced from that of whichever was synced
  first: `sync.go:62` keeps its git client (`gitCli` in `PlainYamlSync`), although
  `application_types.go:120` calls RepoURL the repository "that contains the application
  manifests". The runs give all Applications one repository.
- A Reconcile on a copy one version behind (`MaxLag = 1`) draws a second secret and stores it after
  the webhook was registered with the first, or replaces a ready condition: `StatusOnlyGrows` says
  that only such a Reconcile does, `DeliveriesVerify` holds until the secret is
  replaced. From then on the webhook's deliveries do not verify, and nothing corrects that.
- `RegisteredOnce` fails with `"listErr"`; `HooksMatchStatus` and `BecomesReady` are checked with
  `MaxLag = 0`, since a lagging Reconcile may take back what they are about; `HooksMatchStatus`
  (its part `NoHookOfGone`) also fails with `"hosts"` or `"updateErr"`. "same webhook has already
  registered" is never left: `BecomesReady` names it as the other end of a registration whose
  reply was lost. With `"hosts"` a webhook may be registered before any host is known.
- `SettledHost` needs `exposeMode` to be kept: after a change the watcher that still works
  with the old mode may send last. `SettledResources` fails with `"lostAppend"` and with
  `"slowAdd"` (then `main` waits for ever).

- Helm, with two callers at once: the shared `helmClient` makes one install or uninstall in the
  other's cluster, or panic; `proc.alone` excludes that. A process that dies during an
  installation leaves the release pending, and every later dry run panics (`Stuck`). The
  deletion of an Application that is synced by hand and has no release panics after every
  restart.
- Helm: `clones` are never made again (`helm.go:59`), so edits of RepoURL and TargetRevision are
  not followed, although `application_types.go:65` says that AutoSync keeps an application
  "synced to the target revision", `:124` that TargetRevision "defines the revision of the source
  to sync the application to", and `docs/quickstart.md` (44, 47) that what is pushed to
  targetRevision is deployed. `ReleaseFollowsTarget` therefore promises it only where
  TargetRevision is in the end the default branch; without that exception one `EditTarget`
  violates it. A pull merges the server's default branch into the clone of any other, or is
  refused at every later Sync, and then a deletion does not get to its finalizer either
  (`Diverted`). `deleteDeployResource` deletes in the operator's own cluster. An Application
  synced by hand stays "Unknown".
- `ListsAllHooks` fails when a webhook is deleted between two pages; `ManifestsAreComplete` for
  a directory of GitLab with more entries than a page. GitHub's files are read at whatever
  the branch is by then: a Sync may deploy a mixture of two commits.
- GitLab's parser returns "unlabeled" for labels added and "labeled" for labels removed
  (`DiffLabels`, `gitlab/parser.go:278-283`, against the names in `git_types.go:54-55`), so
  `EventsTellWhatHappened` asks of it only that labels changed, and which. It leaves "merge" and
  "update" as they are, and answers 500 when it cannot look up
  an author or a branch, where GitHub's parser goes on.
- Of two forced syncs at once the one that read the branch first may apply last and take the cluster
  back to an older commit, until the next sync; a forced sync that fails is not tried again.
  `EveryPushIsSynced` counts both as `missed`.
- A RepoURL without a path makes `GetRepository` (`application_types.go:144`) panic in every
  Reconcile; the models' Applications have valid ones.
- The dispatcher's OutOfSync is overwritten by the Unknown of `CheckSync`; an error of a
  forced sync is answered with 200. A webhook an earlier Application left behind makes
  every delivery to the new one fail verification. A sync request whose path ends in a slash, a
  route the wrapper registers, is always refused (fault `"slash"`).

## 7. Not modelled

The certificate of the API server, its discovery documents and the building of its routers;
labels, comments, diffs, merging and other requests of the git clients that nothing in `src/` calls,
and the fake client of the tests; the race of two first `CheckSync` calls building a manager each;
the syntax of URLs, addresses and YAML; `IngressClass`, annotations and ports of the expose
controller; flags, metrics, probes and leader election; stateless helpers in `internal/utils` and
`pkg/cluster`; logging and generated code.
