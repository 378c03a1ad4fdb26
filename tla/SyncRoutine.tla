----------------------------- MODULE SyncRoutine -----------------------------
(***************************************************************************)
(* The Application controller's worker and the goroutines it starts: one   *)
(* periodic sync routine per ready Application, stopped over an unbuffered *)
(* channel that the maps syncStopFlags and syncTickers remember            *)
(* (controllers/application_controller.go, pkg/sync/sync.go).              *)
(*                                                                         *)
(* The worker reads Applications from an informer cache that lags the API  *)
(* server, works on its private copy and writes back in two ways: Update   *)
(* carries the copy's resourceVersion and conflicts when the copy is old,  *)
(* the deferred status patch carries none and lands on whatever is stored. *)
(* Users, the webhook and sync-API handlers, failures and restarts of the  *)
(* process run beside it.                                                  *)
(*                                                                         *)
(* Abstractions.  A resourceVersion is a Boolean: is this copy the stored  *)
(* version?  Status is two facts: the secret is set, the Ready condition   *)
(* is True.  A ticker may fire whenever its routine is in select.  What a  *)
(* Sync deploys is one Boolean per Application; PlainYamlSync has the      *)
(* detail.  So is its webhook, and every Application has a token (the one  *)
(* without is ready as soon as its secret is set); WebhookRegistration has *)
(* the detail.                                                             *)
(***************************************************************************)
EXTENDS Naturals, FiniteSets

CONSTANTS Apps,        \* names of Applications; a name may be created again
          Chans,       \* identities of stop channels, used again once free
          Nil,         \* the missing map entry
          Env,         \* what the environment may do, a subset of EnvEvents
          Forced,      \* Applications whose webhook or sync API is called
          MaxCrashes   \* bound: how often the process is killed

EnvEvents == {"edit",      \* a user edits an Application
              "foreign",   \* another finalizer keeps a deleted Application
              "err",       \* calls to git and API servers may fail
              "recreate",  \* a name is created again while still in use here
              "resync",    \* the informer's periodic resync is due now and then
              "touch",     \* a status patch may change the sync status
              "zero"}      \* Applications are created without a period

ASSUME EnvAssumption == Env \subseteq EnvEvents
ASSUME NilAssumption == Nil \notin Apps \cup Chans
ASSUME ForcedAssumption == Forced \subseteq Apps
ASSUME MaxCrashesAssumption == MaxCrashes \in Nat

VARIABLES obj,            \* the Applications the API server stores
          cached,         \* the informer's copies of them
          current,        \* is the informer's copy the stored version?
          queue,          \* the controller's work queue
          worker,         \* the one worker, inside Reconcile
          syncStopFlags,  \* per Application the registered stop channel
          routine,        \* per channel the goroutine that listens to it
          handler,        \* is a forced CheckSync running for it?
          managerReady,   \* has CheckSync built PlainYamlManager?
          deployed,       \* resources of it are in the target cluster
          hooked,         \* a webhook with its address is at the git server
          crashes

vars == <<obj, cached, current, queue, worker, syncStopFlags, routine,
          handler, managerReady, deployed, hooked, crashes>>

apiVars     == <<obj, cached, current>>
routineVars == <<syncStopFlags, routine>>
effectVars  == <<managerReady, deployed, hooked>>

Application ==
    [phase  : {"none", "live", "deleting"},
     fin    : BOOLEAN,     \* cd.tmax.io/finalizer is in metadata.finalizers
     hold   : BOOLEAN,     \* so is somebody else's finalizer
     secret : BOOLEAN,     \* Status.Secrets is set
     ready  : BOOLEAN,     \* the Ready condition is True
     period : BOOLEAN]     \* Spec.SyncPolicy.SyncCheckPeriod is positive

Absent == [phase |-> "none", fin |-> FALSE, hold |-> FALSE,
           secret |-> FALSE, ready |-> FALSE, period |-> FALSE]

Exists(x) == x.phase # "none"

WorkerPc == {"idle", "manage", "sync", "defaults", "finalizer", "stop",
             "clear", "remove", "patch"}

Worker ==
    [pc : WorkerPc, app : Apps \cup {Nil},
     original : Application,   \* the copy as it was read
     copy     : Application,   \* the copy as Reconcile has changed it
     fresh    : BOOLEAN,       \* its resourceVersion is the stored one
     updated  : BOOLEAN,       \* r.Update stored a new version in this Reconcile
     err      : BOOLEAN]       \* Reconcile will return an error

Idle == [pc |-> "idle", app |-> Nil, original |-> Absent, copy |-> Absent,
         fresh |-> FALSE, updated |-> FALSE, err |-> FALSE]

NoRoutine == [pc |-> "none", app |-> Nil]

(***************************************************************************)
(* Writes to the API server.                                               *)
(***************************************************************************)

\* One more version of a is stored as x: the informer and the worker's copy lag.
Store(a, x, workerNow) ==
    /\ obj' = [obj EXCEPT ![a] = x]
    /\ current' = [current EXCEPT ![a] = FALSE]
    /\ worker' = IF workerNow.app = a THEN [workerNow EXCEPT !.fresh = FALSE]
                                      ELSE workerNow
    /\ UNCHANGED cached

\* An object being deleted goes away with its last finalizer.
Collected(x) ==
    IF x.phase = "deleting" /\ ~x.fin /\ ~x.hold THEN Absent ELSE x

\* Neither informer, queue, worker nor a handler is busy with a gone name.
Settled(a) ==
    /\ ~Exists(obj[a]) /\ current[a]
    /\ a \notin queue /\ worker.app # a /\ ~handler[a]

CreateApp(a) ==
    /\ ~Exists(obj[a])
    /\ "recreate" \in Env \/ Settled(a)
    /\ \E period \in IF "zero" \in Env THEN BOOLEAN ELSE {TRUE} :
         Store(a, [Absent EXCEPT !.phase = "live", !.period = period], worker)
    /\ UNCHANGED <<queue, routineVars, handler, effectVars, crashes>>

EditApp(a) ==
    /\ "edit" \in Env
    /\ Exists(obj[a])
    /\ current[a]              \* one edit per delivery bounds the versions
    /\ Store(a, obj[a], worker)
    /\ UNCHANGED <<queue, routineVars, handler, effectVars, crashes>>

DeleteApp(a) ==
    /\ obj[a].phase = "live"
    /\ \E hold \in IF "foreign" \in Env THEN BOOLEAN ELSE {FALSE} :
         Store(a, Collected([obj[a] EXCEPT !.phase = "deleting", !.hold = hold]),
               worker)
    /\ UNCHANGED <<queue, routineVars, handler, effectVars, crashes>>

ReleaseHold(a) ==
    /\ obj[a].hold
    /\ Store(a, Collected([obj[a] EXCEPT !.hold = FALSE]), worker)
    /\ UNCHANGED <<queue, routineVars, handler, effectVars, crashes>>

\* A watch event: the informer catches up and the controller queues the name.
CacheSync(a) ==
    /\ ~current[a]
    /\ cached' = [cached EXCEPT ![a] = obj[a]]
    /\ current' = [current EXCEPT ![a] = TRUE]
    /\ queue' = queue \cup {a}
    /\ UNCHANGED <<obj, worker, routineVars, handler, effectVars, crashes>>

\* controller-runtime's resync (10 hours by default) queues what is cached.
Resync(a) ==
    /\ "resync" \in Env
    /\ Exists(cached[a])
    /\ a \notin queue
    /\ queue' = queue \cup {a}
    /\ UNCHANGED <<apiVars, worker, routineVars, handler, effectVars, crashes>>

(***************************************************************************)
(* The maps of stop channels.  Only the worker uses them.                  *)
(***************************************************************************)

\* `syncStopFlags[appKeyName] <- true` goes on when the goroutine is in select.
StopDelivered(a) ==
    syncStopFlags[a] # Nil => routine[syncStopFlags[a]].pc = "select"

\* Mutant of StopRoutine: the map entry is dropped, nothing is sent.
StopRoutineUnsent(a) == routine

StopRoutine(a) ==
    IF syncStopFlags[a] = Nil THEN routine
    ELSE [routine EXCEPT ![syncStopFlags[a]] = NoRoutine]

\* Mutant of DeleteSyncFlag: delete(syncStopFlags, ...) is missing.
DeleteSyncFlagKept(a) ==
    /\ StopDelivered(a)
    /\ routine' = StopRoutine(a)
    /\ UNCHANGED syncStopFlags

DeleteSyncFlag(a) ==
    /\ StopDelivered(a)
    /\ routine' = StopRoutine(a)
    /\ syncStopFlags' = [syncStopFlags EXCEPT ![a] = Nil]

\* deleteSyncFlag, registerSyncFlag and the go statement of manageSyncRoutine.
RestartRoutine(a, c) ==
    /\ StopDelivered(a)
    /\ StopRoutine(a)[c].pc = "none"
    /\ routine' = [StopRoutine(a) EXCEPT ![c] = [pc |-> "select", app |-> a]]
    /\ syncStopFlags' = [syncStopFlags EXCEPT ![a] = c]

(***************************************************************************)
(* Reconcile.                                                              *)
(***************************************************************************)

WorkerAt(a, pc) == worker.pc = pc /\ worker.app = a

Goto(pc) == worker' = [worker EXCEPT !.pc = pc]

\* Reconcile returns an error: the deferred patch is next.
Fail == worker' = [worker EXCEPT !.pc = "patch", !.err = TRUE]

\* setWebhookRegisteredCond registers: the secret is set, the condition is not.
Registers(a) == cached[a].secret /\ ~cached[a].ready

\* An address that ListWebhook shows already is refused, for ever unless a user
\* edits it (its host, the token or the repository).  A registration that is
\* reported to have failed may have reached the git server.
RegisterHook(a, hookRegistered) ==
    \/ ~Registers(a) /\ UNCHANGED hooked
    \/ /\ Registers(a) /\ hookRegistered
       /\ hooked[a] => "edit" \in Env
       /\ hooked' = [hooked EXCEPT ![a] = TRUE]
    \/ Registers(a) /\ ~hookRegistered /\ UNCHANGED hooked
    \/ /\ Registers(a) /\ ~hookRegistered /\ "err" \in Env
       /\ hooked' = [hooked EXCEPT ![a] = TRUE]

\* Mutant of ReconcileStart: only an Application that turns ready is managed.
ReconcileStartOnce(a, hookRegistered) ==
    LET copy == [cached[a] EXCEPT !.ready = @ \/ (cached[a].secret /\ hookRegistered)]
    IN  /\ worker.pc = "idle" /\ a \in queue /\ Exists(cached[a])
        /\ queue' = queue \ {a}
        /\ worker' = [Idle EXCEPT !.pc = IF copy.ready /\ ~cached[a].ready
                                         THEN "manage" ELSE "defaults",
                                  !.app = a, !.original = cached[a],
                                  !.copy = copy, !.fresh = current[a]]
        /\ RegisterHook(a, hookRegistered)
        /\ UNCHANGED <<apiVars, routineVars, handler, managerReady, deployed, crashes>>

\* setReadyCond: once the secret is set and the hook is registered.
ReconcileStart(a, hookRegistered) ==
    LET copy == [cached[a] EXCEPT !.ready = \/ cached[a].ready
                                            \/ cached[a].secret /\ hookRegistered]
    IN  /\ worker.pc = "idle"
        /\ a \in queue
        /\ Exists(cached[a])
        /\ queue' = queue \ {a}
        /\ worker' = [Idle EXCEPT !.pc = IF copy.ready THEN "manage" ELSE "defaults",
                                  !.app = a, !.original = cached[a],
                                  !.copy = copy, !.fresh = current[a]]
        /\ RegisterHook(a, hookRegistered)
        /\ UNCHANGED <<apiVars, routineVars, handler, managerReady, deployed, crashes>>

ReconcileHookOk(a)     == ReconcileStart(a, TRUE)
ReconcileHookFailed(a) == ReconcileStart(a, FALSE)

\* Get finds nothing: Reconcile returns nil.
ReconcileNotFound(a) ==
    /\ worker.pc = "idle"
    /\ a \in queue
    /\ ~Exists(cached[a])
    /\ queue' = queue \ {a}
    /\ UNCHANGED <<apiVars, worker, routineVars, handler, effectVars, crashes>>

ManageSyncRoutine(a) ==
    /\ WorkerAt(a, "manage")
    /\ worker.copy.period
    /\ \E c \in Chans : RestartRoutine(a, c)
    /\ Goto("sync")
    /\ UNCHANGED <<apiVars, queue, handler, effectVars, crashes>>

\* CheckSync builds the manager on its first call and deploys.
CheckSyncOk(a) ==
    /\ managerReady' = TRUE
    /\ deployed' = [deployed EXCEPT ![a] = TRUE]
    /\ UNCHANGED hooked

\* GetGitCli fails, or Sync does before or after its first resource.
CheckSyncErr(a) ==
    /\ "err" \in Env
    /\ \/ UNCHANGED <<managerReady, deployed>>
       \/ /\ managerReady' = TRUE
          /\ deployed' \in {deployed, [deployed EXCEPT ![a] = TRUE]}
    /\ UNCHANGED hooked

WorkerCheckSyncOk(a) ==
    /\ WorkerAt(a, "sync")
    /\ CheckSyncOk(a)
    /\ Goto("defaults")
    /\ UNCHANGED <<apiVars, queue, routineVars, handler, crashes>>

WorkerCheckSyncErr(a) ==
    /\ WorkerAt(a, "sync")
    /\ CheckSyncErr(a)
    /\ Fail
    /\ UNCHANGED <<apiVars, queue, routineVars, handler, crashes>>

SetDefaultValuesOk(a) ==
    /\ WorkerAt(a, "defaults")
    /\ worker' = [worker EXCEPT !.copy = [@ EXCEPT !.secret = TRUE, !.period = TRUE],
                                !.pc = "finalizer"]
    /\ UNCHANGED <<apiVars, queue, routineVars, handler, effectVars, crashes>>

SetDefaultValuesErr(a) ==
    /\ WorkerAt(a, "defaults")
    /\ "err" \in Env
    /\ Fail
    /\ UNCHANGED <<apiVars, queue, routineVars, handler, effectVars, crashes>>

\* r.Update: the reply replaces the copy's conditions by the stored ones.
UpdateOk(a, stored) ==
    /\ worker.fresh
    /\ obj' = [obj EXCEPT ![a] = stored]
    /\ current' = [current EXCEPT ![a] = (stored = obj[a] /\ current[a])]
    /\ worker' = [worker EXCEPT !.pc = "patch", !.fresh = Exists(stored),
                                !.updated = (stored # obj[a]),
                                !.copy = [@ EXCEPT !.ready = worker.original.ready]]
    /\ UNCHANGED cached

UpdateErr ==
    /\ worker.fresh => "err" \in Env
    /\ Fail
    /\ UNCHANGED apiVars

HasFinalizer(a) ==
    /\ WorkerAt(a, "finalizer")
    /\ worker.copy.phase = "live" /\ worker.copy.fin
    /\ Goto("patch")
    /\ UNCHANGED <<apiVars, queue, routineVars, handler, effectVars, crashes>>

\* Mutant of AddFinalizer: the copy gets the finalizer, Update is not called.
AddFinalizerUnsaved(a) ==
    /\ WorkerAt(a, "finalizer")
    /\ worker.copy.phase = "live" /\ ~worker.copy.fin
    /\ Goto("patch")
    /\ UNCHANGED <<apiVars, queue, routineVars, handler, effectVars, crashes>>

\* Mutant of AddFinalizer: only metadata is written, not the default period.
AddFinalizerMetadata(a) ==
    /\ WorkerAt(a, "finalizer")
    /\ worker.copy.phase = "live" /\ ~worker.copy.fin
    /\ UpdateOk(a, [obj[a] EXCEPT !.fin = TRUE]) \/ UpdateErr
    /\ UNCHANGED <<queue, routineVars, handler, effectVars, crashes>>

AddFinalizer(a) ==
    /\ WorkerAt(a, "finalizer")
    /\ worker.copy.phase = "live" /\ ~worker.copy.fin
    /\ \/ UpdateOk(a, [obj[a] EXCEPT !.fin = TRUE, !.period = worker.copy.period])
       \/ UpdateErr
    /\ UNCHANGED <<queue, routineVars, handler, effectVars, crashes>>

\* The deletion branch: finalizeApp first if our finalizer is in the copy.
HandleDeletion(a) ==
    /\ WorkerAt(a, "finalizer")
    /\ worker.copy.phase = "deleting"
    /\ Goto(IF worker.copy.fin THEN "stop" ELSE "remove")
    /\ UNCHANGED <<apiVars, queue, routineVars, handler, effectVars, crashes>>

\* Mutant of FinalizeStop: finalizeApp leaves the routine running.
FinalizeStopForgotten(a) ==
    /\ WorkerAt(a, "stop")
    /\ Goto("clear")
    /\ UNCHANGED <<apiVars, queue, routineVars, handler, effectVars, crashes>>

FinalizeStop(a) ==
    /\ WorkerAt(a, "stop")
    /\ DeleteSyncFlag(a)
    /\ Goto("clear")
    /\ UNCHANGED <<apiVars, queue, handler, effectVars, crashes>>

\* clearDeployedResources, clearWebhook, clearGitRepo.
FinalizeClearOk(a) ==
    /\ WorkerAt(a, "clear")
    /\ managerReady
    /\ deployed' = [deployed EXCEPT ![a] = FALSE]
    /\ hooked' = [hooked EXCEPT ![a] = FALSE]
    /\ Goto("remove")
    /\ UNCHANGED <<apiVars, queue, routineVars, handler, managerReady, crashes>>

FinalizeClearErr(a) ==
    /\ WorkerAt(a, "clear")
    /\ managerReady
    /\ "err" \in Env
    /\ deployed' \in {deployed, [deployed EXCEPT ![a] = FALSE]}
    /\ \/ UNCHANGED hooked
       \/ ~deployed'[a] /\ hooked' = [hooked EXCEPT ![a] = FALSE]
    /\ Fail
    /\ UNCHANGED <<apiVars, queue, routineVars, handler, managerReady, crashes>>

\* Mutant of RemoveFinalizer: the finalizer leaves the copy, Update is not called.
RemoveFinalizerUnsaved(a) ==
    /\ WorkerAt(a, "remove")
    /\ Goto("patch")
    /\ UNCHANGED <<apiVars, queue, routineVars, handler, effectVars, crashes>>

RemoveFinalizer(a) ==
    /\ WorkerAt(a, "remove")
    /\ \/ UpdateOk(a, Collected([obj[a] EXCEPT !.fin = FALSE,
                                               !.period = worker.copy.period]))
       \/ UpdateErr
    /\ UNCHANGED <<queue, routineVars, handler, effectVars, crashes>>

\* What the deferred patch makes of the stored object x: it holds the status
\* fields that Reconcile changed, and its resourceVersion if Update changed that.
Patched(x) ==
    IF Exists(x) /\ (worker.updated => worker.fresh)
    THEN [x EXCEPT !.secret = @ \/ (worker.copy.secret /\ ~worker.original.secret),
                   !.ready  = @ \/ (worker.copy.ready /\ ~worker.original.ready)]
    ELSE x

\* The deferred patch; then the controller queues the name again on an error.
StatusPatch(a) ==
    /\ WorkerAt(a, "patch")
    /\ IF Patched(obj[a]) # obj[a]
       THEN Store(a, Patched(obj[a]), Idle)
       ELSE \/ Store(a, obj[a], Idle) /\ Exists(obj[a]) /\ "touch" \in Env
            \/ worker' = Idle /\ UNCHANGED apiVars
    /\ queue' = IF worker.err THEN queue \cup {a} ELSE queue
    /\ UNCHANGED <<routineVars, handler, effectVars, crashes>>

\* The error of a failing patch is only logged.
StatusPatchErr(a) ==
    /\ WorkerAt(a, "patch")
    /\ "err" \in Env
    /\ worker' = Idle
    /\ queue' = IF worker.err THEN queue \cup {a} ELSE queue
    /\ UNCHANGED <<apiVars, routineVars, handler, effectVars, crashes>>

(***************************************************************************)
(* PeriodicSyncCheck, the routine of channel c.                            *)
(***************************************************************************)
PeriodicCheckStart(c) ==
    /\ routine[c].pc = "select"
    /\ routine' = [routine EXCEPT ![c].pc = "checking"]
    /\ UNCHANGED <<apiVars, queue, worker, syncStopFlags, handler, effectVars, crashes>>

PeriodicCheckOk(c) ==
    /\ routine[c].pc = "checking"
    /\ routine' = [routine EXCEPT ![c].pc = "select"]
    /\ CheckSyncOk(routine[c].app)
    /\ UNCHANGED <<apiVars, queue, worker, syncStopFlags, handler, crashes>>

\* Mutant of PeriodicCheckErr: an error leaves the loop in an unknown state.
PeriodicCheckErrReturned(c) ==
    /\ routine[c].pc = "checking"
    /\ "err" \in Env
    /\ routine' = [routine EXCEPT ![c].pc = "returned"]
    /\ UNCHANGED <<apiVars, queue, worker, syncStopFlags, handler, effectVars, crashes>>

\* The error is logged and the loop goes on.
PeriodicCheckErr(c) ==
    /\ routine[c].pc = "checking"
    /\ CheckSyncErr(routine[c].app)
    /\ routine' = [routine EXCEPT ![c].pc = "select"]
    /\ UNCHANGED <<apiVars, queue, worker, syncStopFlags, handler, crashes>>

(***************************************************************************)
(* The webhook dispatcher and the sync API: a forced CheckSync in a        *)
(* goroutine of its own, on a copy read from the informer's cache.         *)
(***************************************************************************)
ForcedSyncStart(a) ==
    /\ a \in Forced
    /\ Exists(cached[a])
    /\ ~handler[a]
    /\ handler' = [handler EXCEPT ![a] = TRUE]
    /\ UNCHANGED <<apiVars, queue, worker, routineVars, effectVars, crashes>>

ForcedSyncEnd(a) ==
    /\ handler[a]
    /\ handler' = [handler EXCEPT ![a] = FALSE]
    /\ CheckSyncOk(a) \/ CheckSyncErr(a)
    /\ UNCHANGED <<apiVars, queue, worker, routineVars, crashes>>

(***************************************************************************)
(* The process dies and is started again: the informer lists everything    *)
(* and queues every Application it finds.                                  *)
(***************************************************************************)
Restart ==
    /\ cached' = obj'
    /\ current' = [a \in Apps |-> TRUE]
    /\ queue' = {a \in Apps : Exists(obj'[a])}
    /\ worker' = Idle
    /\ syncStopFlags' = [a \in Apps |-> Nil]
    /\ routine' = [c \in Chans |-> NoRoutine]
    /\ handler' = [a \in Apps |-> FALSE]
    /\ managerReady' = FALSE
    /\ UNCHANGED <<deployed, hooked>>

Crash ==
    /\ crashes < MaxCrashes
    /\ crashes' = crashes + 1
    /\ UNCHANGED obj
    /\ Restart

\* time.NewTicker panics on a period that is not positive; mgr.Clear panics on
\* the nil manager of a process that has not synced yet.  The deferred status
\* patch still runs.
Panics(a) ==
    \/ WorkerAt(a, "manage") /\ StopDelivered(a) /\ ~worker.copy.period
    \/ WorkerAt(a, "clear") /\ ~managerReady

Panic(a) ==
    /\ Panics(a)
    /\ obj' = [obj EXCEPT ![a] = Patched(obj[a])]
    /\ Restart
    /\ UNCHANGED crashes

(***************************************************************************)
(* The specification.                                                      *)
(***************************************************************************)
Init ==
    /\ obj = [a \in Apps |-> Absent]
    /\ cached = obj
    /\ current = [a \in Apps |-> TRUE]
    /\ queue = {}
    /\ worker = Idle
    /\ syncStopFlags = [a \in Apps |-> Nil]
    /\ routine = [c \in Chans |-> NoRoutine]
    /\ handler = [a \in Apps |-> FALSE]
    /\ managerReady = FALSE
    /\ deployed = [a \in Apps |-> FALSE]
    /\ hooked = [a \in Apps |-> FALSE]
    /\ crashes = 0

UserStep(a) ==
    CreateApp(a) \/ EditApp(a) \/ DeleteApp(a) \/ ReleaseHold(a)

ReconcileStep(a) ==
    \/ ReconcileHookOk(a) \/ ReconcileHookFailed(a) \/ ReconcileNotFound(a)
    \/ ManageSyncRoutine(a)
    \/ WorkerCheckSyncOk(a) \/ WorkerCheckSyncErr(a)
    \/ SetDefaultValuesOk(a) \/ SetDefaultValuesErr(a)
    \/ HasFinalizer(a) \/ AddFinalizer(a) \/ HandleDeletion(a)
    \/ FinalizeStop(a) \/ FinalizeClearOk(a) \/ FinalizeClearErr(a)
    \/ RemoveFinalizer(a)
    \/ StatusPatch(a) \/ StatusPatchErr(a)
    \/ Panic(a)

RoutineStep(c) ==
    PeriodicCheckStart(c) \/ PeriodicCheckOk(c) \/ PeriodicCheckErr(c)

HandlerStep(a) == ForcedSyncStart(a) \/ ForcedSyncEnd(a)

Next ==
    \/ \E a \in Apps : \/ UserStep(a) \/ CacheSync(a) \/ Resync(a)
                       \/ ReconcileStep(a) \/ HandlerStep(a)
    \/ \E c \in Chans : RoutineStep(c)
    \/ Crash

Spec == Init /\ [][Next]_vars

(***************************************************************************)
(* Fairness.  The scheduler runs every goroutine; Go's select takes a      *)
(* ready case at random and channel sends queue in order, so a stop that   *)
(* stays offered is received (strong fairness); the work queue is first in *)
(* first out, so a queued name is taken (strong fairness); a call retried  *)
(* for ever is assumed to succeed in the end (strong fairness of the       *)
(* successes), but where the code itself refuses: a registration of an     *)
(* address that is registered (RegisterHook) is not enabled.  Nothing      *)
(* makes a user, a handler or a crash act.                                 *)
(***************************************************************************)
Fairness ==
    /\ \A a \in Apps :
         /\ WF_vars(CacheSync(a)) /\ WF_vars(Resync(a))
         /\ WF_vars(ReconcileStep(a))
         /\ SF_vars(ReconcileHookOk(a))
         /\ SF_vars(ReconcileNotFound(a))
         /\ SF_vars(ManageSyncRoutine(a))
         /\ SF_vars(WorkerCheckSyncOk(a))
         /\ SF_vars(SetDefaultValuesOk(a))
         /\ SF_vars(FinalizeStop(a))
         /\ SF_vars(FinalizeClearOk(a))
         /\ SF_vars(AddFinalizer(a) /\ worker'.err = FALSE)
         /\ SF_vars(RemoveFinalizer(a) /\ worker'.err = FALSE)
         /\ SF_vars(StatusPatch(a) /\ obj' # obj)
    /\ \A c \in Chans : WF_vars(PeriodicCheckOk(c) \/ PeriodicCheckErr(c))

FairSpec == Spec /\ Fairness

(***************************************************************************)
(* Properties.                                                             *)
(***************************************************************************)

\* The values the variables take.
TypeOK ==
    /\ obj \in [Apps -> Application]
    /\ cached \in [Apps -> Application]
    /\ current \in [Apps -> BOOLEAN]
    /\ queue \subseteq Apps
    /\ worker \in Worker
    /\ syncStopFlags \in [Apps -> Chans \cup {Nil}]
    /\ routine \in [Chans -> [pc : {"none", "select", "checking"},
                             app : Apps \cup {Nil}]]
    /\ handler \in [Apps -> BOOLEAN]
    /\ managerReady \in BOOLEAN
    /\ deployed \in [Apps -> BOOLEAN]
    /\ hooked \in [Apps -> BOOLEAN]
    /\ crashes \in 0..MaxCrashes

RunsFor(c, a) == routine[c].pc # "none" /\ routine[c].app = a

\* Every routine can still be stopped: syncStopFlags holds the channel it
\* listens to.  So manageSyncRoutine never leaves two routines for one name.
NoUnstoppableRoutine ==
    \A a \in Apps, c \in Chans : RunsFor(c, a) => syncStopFlags[a] = c

\* deleteSyncFlag sends to a channel somebody listens to, the name's own
\* routine: otherwise the only worker would block for ever.
NoBlockedStop ==
    \A a \in Apps : syncStopFlags[a] # Nil => RunsFor(syncStopFlags[a], a)

\* From the stop on the channel until the finalizer is removed, finalizeApp
\* works undisturbed: no routine of the name runs.
StoppedBeforeClear ==
    \A a \in Apps :
        \/ WorkerAt(a, "clear")
        \/ WorkerAt(a, "remove") /\ worker.copy.fin
        => \A c \in Chans : ~RunsFor(c, a)

\* The finalizer goes only from an Application whose resources are cleared and
\* whose routine is stopped (if no forced sync is under way: see the README).
FinalizedIsClean ==
    [][\A a \in Apps : obj[a].fin /\ ~obj'[a].fin
           => ~deployed'[a] /\ \A c \in Chans : ~RunsFor(c, a)']_vars

\* Nothing is left in process or cluster of a name that is gone once nobody
\* works on it any more.
GoneMeansClean ==
    \A a \in Apps : Settled(a) => ~deployed[a] /\ \A c \in Chans : ~RunsFor(c, a)

\* time.NewTicker never gets a period of zero: the default is in the stored
\* object before the Application is ready.  It holds while no Update fails.
PeriodIsDefaulted ==
    \A a \in Apps : WorkerAt(a, "manage") => worker.copy.period

\* Its webhook is at the git server, but the Application does not say so: a
\* reply, a status patch or the process was lost in between.  From then on each
\* Reconcile reports "same webhook has already registered".
Unrecorded(a) == Exists(obj[a]) /\ hooked[a] /\ ~obj[a].ready

\* A deletion is carried out: no step of finalizeApp waits for ever.  Unless the
\* webhook stays unrecorded: such an Application is never synced, so a process
\* that has synced nothing else panics in Clear on the nil manager, each time it
\* is started again.
DeletionCompletes ==
    \A a \in Apps : \/ obj[a].phase = "deleting" ~> obj[a].phase # "deleting"
                   \/ <>[]Unrecorded(a)

\* A live Application gets its routine, also after a restart of the process,
\* unless its webhook stays unrecorded.
LiveGetsRoutine ==
    \A a \in Apps : \/ obj[a].phase = "live"
                        ~> obj[a].phase # "live" \/ syncStopFlags[a] # Nil
                   \/ <>[]Unrecorded(a)
=============================================================================
