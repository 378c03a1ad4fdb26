-------------------------- MODULE SyncRoutineProofs --------------------------
(***************************************************************************)
(* Theorems of SyncRoutine, for every set of Applications and channels,    *)
(* every environment and every number of crashes.                          *)
(***************************************************************************)
EXTENDS SyncRoutine, TLAPS

(***************************************************************************)
(* Type correctness.                                                       *)
(***************************************************************************)

\* The records the model starts from are of their types.
LEMMA Constants ==
    /\ Absent \in Application
    /\ Idle \in Worker
    /\ NoRoutine \in [pc : {"none", "select", "checking"}, app : Apps \cup {Nil}]
    /\ Application =
        [phase : {"none", "live", "deleting"}, fin : BOOLEAN, hold : BOOLEAN,
         secret : BOOLEAN, ready : BOOLEAN, period : BOOLEAN]
BY DEF Absent, Idle, NoRoutine, Application, Worker, WorkerPc

\* Storing an Application keeps the API server's and the worker's types.
LEMMA StoreType ==
    ASSUME TypeOK, NEW a \in Apps, NEW x \in Application, NEW w \in Worker,
           Store(a, x, w)
    PROVE  /\ obj' \in [Apps -> Application]
           /\ cached' \in [Apps -> Application]
           /\ current' \in [Apps -> BOOLEAN]
           /\ worker' \in Worker
BY DEF TypeOK, Store, Worker

\* An object without finalizers that is collected is still an Application.
LEMMA CollectedType ==
    ASSUME NEW x \in Application
    PROVE  Collected(x) \in Application
BY Constants DEF Collected

\* What the deferred status patch stores is an Application.
LEMMA PatchedType ==
    ASSUME TypeOK, NEW x \in Application
    PROVE  Patched(x) \in Application
<1>1. worker.copy \in Application /\ worker.original \in Application
  BY DEF TypeOK, Worker
<1>2. [x EXCEPT !.secret = @ \/ (worker.copy.secret /\ ~worker.original.secret),
                !.ready  = @ \/ (worker.copy.ready /\ ~worker.original.ready)]
        \in Application
  BY <1>1 DEF Application
<1> QED  BY <1>2 DEF Patched

\* So does stopping a name's routine keep the table of routines.
LEMMA StopRoutineType ==
    ASSUME TypeOK, NEW a \in Apps
    PROVE  StopRoutine(a) \in [Chans -> [pc : {"none", "select", "checking"},
                                         app : Apps \cup {Nil}]]
BY Constants DEF TypeOK, StopRoutine

\* A restarted process is well-typed, whatever it was doing.
LEMMA RestartType ==
    ASSUME TypeOK, Restart, obj' \in [Apps -> Application],
           crashes' \in 0..MaxCrashes
    PROVE  TypeOK'
BY Constants DEF TypeOK, Restart

\* The steps of users and of the informer keep the types.
LEMMA UserType ==
    ASSUME TypeOK, NEW a \in Apps, UserStep(a)
    PROVE  TypeOK'
<1>0. obj[a] \in Application /\ worker \in Worker
  BY DEF TypeOK
<1>1. CASE CreateApp(a)
  <2>1. PICK period \in BOOLEAN :
          Store(a, [Absent EXCEPT !.phase = "live", !.period = period], worker)
    BY <1>1 DEF CreateApp
  <2>2. [Absent EXCEPT !.phase = "live", !.period = period] \in Application
    BY DEF Absent, Application
  <2> QED  BY <1>0, <1>1, <2>1, <2>2, StoreType
           DEF CreateApp, TypeOK, routineVars, effectVars
<1>2. CASE EditApp(a)
  BY <1>0, <1>2, StoreType DEF EditApp, TypeOK, routineVars, effectVars
<1>3. CASE DeleteApp(a)
  <2>1. PICK hold \in BOOLEAN :
          Store(a, Collected([obj[a] EXCEPT !.phase = "deleting", !.hold = hold]),
                worker)
    BY <1>3 DEF DeleteApp
  <2>2. [obj[a] EXCEPT !.phase = "deleting", !.hold = hold] \in Application
    BY <1>0 DEF Application
  <2> QED  BY <1>0, <1>3, <2>1, <2>2, StoreType, CollectedType
           DEF DeleteApp, TypeOK, routineVars, effectVars
<1>4. CASE ReleaseHold(a)
  <2>1. [obj[a] EXCEPT !.hold = FALSE] \in Application
    BY <1>0 DEF Application
  <2> QED  BY <1>0, <1>4, <2>1, StoreType, CollectedType
           DEF ReleaseHold, TypeOK, routineVars, effectVars
<1> QED  BY <1>1, <1>2, <1>3, <1>4 DEF UserStep

\* The steps of the worker inside Reconcile keep the types.
LEMMA ReconcileType ==
    ASSUME TypeOK, NEW a \in Apps, ReconcileStep(a)
    PROVE  TypeOK'
<1>0. /\ worker \in Worker /\ worker.copy \in Application
      /\ worker.original \in Application /\ worker.app \in Apps \cup {Nil}
      /\ obj[a] \in Application /\ cached[a] \in Application
      /\ current[a] \in BOOLEAN
  BY DEF TypeOK, Worker
<1>1. ASSUME NEW hookRegistered \in BOOLEAN, ReconcileStart(a, hookRegistered)
      PROVE  TypeOK'
  <2> DEFINE copy == [cached[a] EXCEPT !.ready = \/ cached[a].ready
                                                 \/ cached[a].secret /\ hookRegistered]
  <2>1. copy \in Application
    BY <1>0 DEF Application
  <2>2. worker' = [Idle EXCEPT !.pc = IF copy.ready THEN "manage" ELSE "defaults",
                               !.app = a, !.original = cached[a],
                               !.copy = copy, !.fresh = current[a]]
    BY <1>1 DEF ReconcileStart
  <2>3. worker' \in Worker
    <3> HIDE DEF copy
    <3> QED  BY <1>0, <2>1, <2>2 DEF Idle, Worker, WorkerPc
  <2>4. hooked' \in [Apps -> BOOLEAN]
    BY <1>1 DEF ReconcileStart, RegisterHook, TypeOK
  <2> QED  BY <1>1, <2>3, <2>4 DEF ReconcileStart, TypeOK, apiVars, routineVars
<1>2. CASE ReconcileNotFound(a)
  BY <1>2 DEF ReconcileNotFound, TypeOK, apiVars, routineVars, effectVars
<1>3. CASE ManageSyncRoutine(a)
  <2>1. PICK c \in Chans : RestartRoutine(a, c)
    BY <1>3 DEF ManageSyncRoutine
  <2>2. routine' \in [Chans -> [pc : {"none", "select", "checking"},
                                app : Apps \cup {Nil}]]
    BY <2>1, StopRoutineType DEF RestartRoutine
  <2>3. worker' \in Worker
    BY <1>0, <1>3 DEF ManageSyncRoutine, Goto, Worker, WorkerPc
  <2> QED  BY <1>3, <2>1, <2>2, <2>3
             DEF ManageSyncRoutine, RestartRoutine, TypeOK, apiVars, effectVars
<1>4. CASE WorkerCheckSyncOk(a)
  BY <1>0, <1>4 DEF WorkerCheckSyncOk, CheckSyncOk, Goto, WorkerPc, TypeOK, Worker,
                    apiVars, routineVars
<1>5. CASE WorkerCheckSyncErr(a)
  BY <1>0, <1>5 DEF WorkerCheckSyncErr, CheckSyncErr, Fail, WorkerPc, TypeOK, Worker,
                    apiVars, routineVars, effectVars
<1>6. CASE SetDefaultValuesOk(a)
  <2>1. [worker.copy EXCEPT !.secret = TRUE, !.period = TRUE] \in Application
    BY <1>0 DEF Application
  <2>2. worker' \in Worker
    BY <1>0, <1>6, <2>1 DEF SetDefaultValuesOk, Worker, WorkerPc, Application
  <2> QED  BY <1>6, <2>2
             DEF SetDefaultValuesOk, TypeOK, apiVars, routineVars, effectVars
<1>7. CASE SetDefaultValuesErr(a)
  BY <1>0, <1>7 DEF SetDefaultValuesErr, Fail, WorkerPc, TypeOK, Worker,
                    apiVars, routineVars, effectVars
<1>8. CASE HasFinalizer(a)
  BY <1>0, <1>8 DEF HasFinalizer, Goto, WorkerPc, TypeOK, Worker,
                    apiVars, routineVars, effectVars
<1>9. CASE HandleDeletion(a)
  BY <1>0, <1>9 DEF HandleDeletion, Goto, WorkerPc, TypeOK, Worker,
                    apiVars, routineVars, effectVars
<1>10. ASSUME NEW x \in Application, UpdateOk(a, x) \/ UpdateErr,
              UNCHANGED <<queue, routineVars, handler, effectVars, crashes>>
       PROVE  TypeOK'
  <2>1. CASE UpdateOk(a, x)
    <3>1. [worker.copy EXCEPT !.ready = worker.original.ready] \in Application
      BY <1>0 DEF Application
    <3>2. worker' \in Worker
      <4> DEFINE c == [worker.copy EXCEPT !.ready = worker.original.ready]
                 e == Exists(x)
                 u == x # obj[a]
      <4>1. worker' = [worker EXCEPT !.pc = "patch", !.fresh = e,
                                     !.updated = u, !.copy = c]
        BY <2>1 DEF UpdateOk
      <4>2. c \in Application /\ e \in BOOLEAN /\ u \in BOOLEAN
        BY <3>1 DEF Exists
      <4> HIDE DEF c, e, u
      <4> QED  BY <1>0, <4>1, <4>2 DEF Worker, WorkerPc
    <3> QED  BY <1>0, <1>10, <2>1, <3>2
               DEF UpdateOk, TypeOK, routineVars, effectVars
  <2>2. CASE UpdateErr
    BY <1>0, <1>10, <2>2 DEF UpdateErr, Fail, WorkerPc, TypeOK, Worker,
                             apiVars, routineVars, effectVars
  <2> QED  BY <1>10, <2>1, <2>2
<1>11. CASE AddFinalizer(a)
  <2>1. [obj[a] EXCEPT !.fin = TRUE, !.period = worker.copy.period] \in Application
    BY <1>0 DEF Application
  <2> QED  BY <1>10, <1>11, <2>1 DEF AddFinalizer
<1>12. CASE RemoveFinalizer(a)
  <2>1. [obj[a] EXCEPT !.fin = FALSE, !.period = worker.copy.period] \in Application
    BY <1>0 DEF Application
  <2> QED  BY <1>10, <1>12, <2>1, CollectedType DEF RemoveFinalizer
<1>13. CASE FinalizeStop(a)
  BY <1>0, <1>13, StopRoutineType
     DEF FinalizeStop, DeleteSyncFlag, Goto, WorkerPc, TypeOK, Worker,
         apiVars, effectVars
<1>14. CASE FinalizeClearOk(a)
  BY <1>0, <1>14 DEF FinalizeClearOk, Goto, WorkerPc, TypeOK, Worker,
                     apiVars, routineVars
<1>15. CASE FinalizeClearErr(a)
  BY <1>0, <1>15 DEF FinalizeClearErr, Fail, WorkerPc, TypeOK, Worker,
                     apiVars, routineVars
<1>16. CASE StatusPatch(a)
  <2>1. \/ \E x \in Application : Store(a, x, Idle)
        \/ worker' = Idle /\ UNCHANGED apiVars
    BY <1>0, <1>16, PatchedType DEF StatusPatch
  <2>2. /\ obj' \in [Apps -> Application]
        /\ cached' \in [Apps -> Application]
        /\ current' \in [Apps -> BOOLEAN]
        /\ worker' \in Worker
    BY <2>1, Constants, StoreType DEF TypeOK, apiVars
  <2> QED  BY <1>16, <2>2 DEF StatusPatch, TypeOK, routineVars, effectVars
<1>17. CASE Panic(a)
  BY <1>0, <1>17, PatchedType, RestartType DEF Panic, TypeOK
<1>18. CASE StatusPatchErr(a)
  BY <1>18, Constants DEF StatusPatchErr, TypeOK, apiVars, routineVars, effectVars
<1> QED  BY <1>1, <1>2, <1>3, <1>4, <1>5, <1>6, <1>7, <1>8, <1>9, <1>11, <1>12,
            <1>13, <1>14, <1>15, <1>16, <1>17, <1>18
         DEF ReconcileStep, ReconcileHookOk, ReconcileHookFailed

\* Every variable keeps its type in every step.
LEMMA TypeStep == TypeOK /\ [Next]_vars => TypeOK'
<1> SUFFICES ASSUME TypeOK, [Next]_vars
             PROVE  TypeOK'
  OBVIOUS
<1>1. ASSUME NEW a \in Apps, CacheSync(a) \/ Resync(a)
      PROVE  TypeOK'
  BY <1>1 DEF CacheSync, Resync, TypeOK, apiVars, routineVars, effectVars
<1>2. ASSUME NEW a \in Apps, HandlerStep(a)
      PROVE  TypeOK'
  BY <1>2 DEF HandlerStep, ForcedSyncStart, ForcedSyncEnd, CheckSyncOk, CheckSyncErr,
              TypeOK, apiVars, routineVars, effectVars
<1>3. ASSUME NEW c \in Chans, RoutineStep(c)
      PROVE  TypeOK'
  <2>1. CASE PeriodicCheckStart(c)
    BY <2>1 DEF PeriodicCheckStart, TypeOK, apiVars, effectVars
  <2>2. CASE PeriodicCheckOk(c)
    BY <2>2 DEF PeriodicCheckOk, CheckSyncOk, TypeOK, apiVars
  <2>3. CASE PeriodicCheckErr(c)
    <3>1. /\ managerReady' \in BOOLEAN /\ deployed' \in [Apps -> BOOLEAN]
          /\ hooked' \in [Apps -> BOOLEAN]
      BY <2>3 DEF PeriodicCheckErr, CheckSyncErr, TypeOK
    <3> QED  BY <2>3, <3>1 DEF PeriodicCheckErr, TypeOK, apiVars
  <2> QED  BY <1>3, <2>1, <2>2, <2>3 DEF RoutineStep
<1>4. CASE Crash
  BY <1>4, MaxCrashesAssumption, RestartType DEF Crash, TypeOK
<1>5. CASE UNCHANGED vars
  BY <1>5 DEF vars, TypeOK
<1> QED  BY <1>1, <1>2, <1>3, <1>4, <1>5, UserType, ReconcileType DEF Next

\* Every variable always has its type.
THEOREM TypeCorrect == Spec => []TypeOK
<1>1. Init => TypeOK
  <2> SUFFICES ASSUME Init
               PROVE  TypeOK
    OBVIOUS
  <2>1. crashes \in 0..MaxCrashes
    BY MaxCrashesAssumption DEF Init
  <2> QED  BY <2>1, Constants DEF Init, TypeOK
<1> QED  BY <1>1, TypeStep, PTL DEF Spec

(***************************************************************************)
(* The registry of stop channels.  NoUnstoppableRoutine and NoBlockedStop  *)
(* are inductive together: each says of the other's direction that the     *)
(* map and the goroutines agree.                                           *)
(***************************************************************************)
Registry == NoUnstoppableRoutine /\ NoBlockedStop

\* Stopping a name's routine clears its entry on both sides.
LEMMA StopKeepsRegistry ==
    ASSUME TypeOK, Registry, NEW a \in Apps, DeleteSyncFlag(a)
    PROVE  Registry'
BY NilAssumption
   DEF TypeOK, Registry, NoUnstoppableRoutine, NoBlockedStop, RunsFor,
       DeleteSyncFlag, StopRoutine, NoRoutine

\* The channel a restarted routine gets is nobody else's.
LEMMA RestartKeepsRegistry ==
    ASSUME TypeOK, Registry, NEW a \in Apps, NEW c \in Chans,
           RestartRoutine(a, c)
    PROVE  Registry'
<1> DEFINE stopped == StopRoutine(a)
<1>1. stopped \in [Chans -> [pc : {"none", "select", "checking"},
                             app : Apps \cup {Nil}]]
  BY StopRoutineType
<1>2. \A d \in Chans : stopped[d] = IF syncStopFlags[a] = d THEN NoRoutine
                                                           ELSE routine[d]
  BY NilAssumption DEF TypeOK, StopRoutine
<1>3. /\ routine' = [stopped EXCEPT ![c] = [pc |-> "select", app |-> a]]
      /\ syncStopFlags' = [syncStopFlags EXCEPT ![a] = c]
      /\ stopped[c].pc = "none"
  BY DEF RestartRoutine
<1>4. \A b \in Apps \ {a} : syncStopFlags[b] # c
  BY <1>2, <1>3, NilAssumption
     DEF TypeOK, Registry, NoUnstoppableRoutine, NoBlockedStop, RunsFor
<1>5. NoUnstoppableRoutine'
  <2> SUFFICES ASSUME NEW b \in Apps, NEW d \in Chans, RunsFor(d, b)'
               PROVE  syncStopFlags'[b] = d
    BY DEF NoUnstoppableRoutine
  <2>1. CASE d = c
    BY <1>1, <1>3, <2>1 DEF RunsFor, TypeOK
  <2>2. CASE d # c
    <3>1. stopped[d].pc # "none" /\ stopped[d].app = b
      BY <1>1, <1>3, <2>2 DEF RunsFor
    <3>2. syncStopFlags[a] # d /\ RunsFor(d, b)
      BY <1>2, <3>1 DEF NoRoutine, RunsFor
    <3> QED  BY <1>3, <3>2 DEF Registry, NoUnstoppableRoutine, TypeOK
  <2> QED  BY <2>1, <2>2
<1>6. NoBlockedStop'
  <2> SUFFICES ASSUME NEW b \in Apps, syncStopFlags'[b] # Nil
               PROVE  /\ routine'[syncStopFlags'[b]].pc # "none"
                      /\ routine'[syncStopFlags'[b]].app = b
    BY DEF NoBlockedStop, RunsFor
  <2>1. CASE b = a
    BY <1>1, <1>3, <2>1 DEF TypeOK
  <2>2. CASE b # a
    <3> DEFINE d == syncStopFlags[b]
    <3>1. d = syncStopFlags'[b] /\ d \in Chans /\ d # c /\ RunsFor(d, b)
      BY <1>3, <1>4, <2>2 DEF Registry, NoBlockedStop, TypeOK
    <3>2. syncStopFlags[a] # d
      BY <2>2, <3>1, NilAssumption DEF Registry, NoBlockedStop, RunsFor, TypeOK
    <3> QED  BY <1>1, <1>2, <1>3, <3>1, <3>2 DEF RunsFor
  <2> QED  BY <2>1, <2>2
<1> QED  BY <1>5, <1>6 DEF Registry

\* The steps that leave both sides alone.
LEMMA UnchangedKeepsRegistry ==
    ASSUME Registry, UNCHANGED routineVars
    PROVE  Registry'
BY DEF Registry, NoUnstoppableRoutine, NoBlockedStop, RunsFor, routineVars

\* A process that has just started has no entry and no routine.
LEMMA RestartHasRegistry ==
    ASSUME Restart
    PROVE  Registry'
BY NilAssumption
   DEF Restart, NoRoutine, Registry, NoUnstoppableRoutine, NoBlockedStop, RunsFor

\* deleteSyncFlag and registerSyncFlag keep both sides in step; nothing else
\* touches them but a restart, which empties both.
LEMMA RegistryStep == TypeOK /\ Registry /\ [Next]_vars => Registry'
<1> SUFFICES ASSUME TypeOK, Registry, [Next]_vars
             PROVE  Registry'
  OBVIOUS
<1>1. ASSUME NEW a \in Apps, ManageSyncRoutine(a)
      PROVE  Registry'
  BY <1>1, RestartKeepsRegistry DEF ManageSyncRoutine
<1>2. ASSUME NEW a \in Apps, FinalizeStop(a)
      PROVE  Registry'
  BY <1>2, StopKeepsRegistry DEF FinalizeStop
<1>3. ASSUME NEW a \in Apps, Panic(a)
      PROVE  Registry'
  BY <1>3, RestartHasRegistry DEF Panic
<1>4. ASSUME NEW c \in Chans, RoutineStep(c)
      PROVE  Registry'
  <2>1. /\ syncStopFlags' = syncStopFlags
        /\ routine[c].pc # "none"
        /\ \A d \in Chans :
             /\ routine'[d].app = routine[d].app
             /\ routine'[d].pc # "none" <=> routine[d].pc # "none"
    BY <1>4 DEF RoutineStep, PeriodicCheckStart, PeriodicCheckOk,
                PeriodicCheckErr, TypeOK
  <2>2. NoUnstoppableRoutine'
    BY <2>1 DEF Registry, NoUnstoppableRoutine, RunsFor
  <2>3. NoBlockedStop'
    BY <2>1, NilAssumption DEF TypeOK, Registry, NoBlockedStop, RunsFor
  <2> QED  BY <2>2, <2>3 DEF Registry
<1>5. CASE Crash
  BY <1>5, RestartHasRegistry DEF Crash
<1>6. CASE UNCHANGED vars
  BY <1>6, UnchangedKeepsRegistry DEF vars, routineVars
<1>7. ASSUME NEW a \in Apps, UserStep(a) \/ CacheSync(a) \/ Resync(a) \/ HandlerStep(a)
      PROVE  Registry'
  BY <1>7, UnchangedKeepsRegistry
     DEF UserStep, CreateApp, EditApp, DeleteApp, ReleaseHold, CacheSync, Resync,
         HandlerStep, ForcedSyncStart, ForcedSyncEnd
<1>8. ASSUME NEW a \in Apps, ReconcileStep(a)
      PROVE  Registry'
  BY <1>1, <1>2, <1>3, <1>8, UnchangedKeepsRegistry
     DEF ReconcileStep, ReconcileHookOk, ReconcileHookFailed, ReconcileStart,
         ReconcileNotFound, WorkerCheckSyncOk, WorkerCheckSyncErr,
         SetDefaultValuesOk, SetDefaultValuesErr, HasFinalizer, AddFinalizer,
         HandleDeletion, FinalizeClearOk, FinalizeClearErr, RemoveFinalizer,
         StatusPatch, StatusPatchErr
<1> QED  BY <1>4, <1>5, <1>6, <1>7, <1>8 DEF Next

\* Each goroutine is the one its name's stop channel reaches, and each
\* registered channel has a goroutine: at most one routine per Application,
\* none beyond the worker's reach, no send that nobody will receive.
THEOREM RoutinesAreRegistered ==
    Spec => [](NoUnstoppableRoutine /\ NoBlockedStop)
<1>1. Init => Registry
  BY NilAssumption
     DEF Init, NoRoutine, Registry, NoUnstoppableRoutine, NoBlockedStop, RunsFor
<1>2. Registry => NoUnstoppableRoutine /\ NoBlockedStop
  BY DEF Registry
<1> QED  BY <1>1, <1>2, RegistryStep, TypeCorrect, PTL DEF Spec

\* deleteSyncFlag's send on the unbuffered channel always has the routine of
\* that name at its other end: the only worker does not block in it for ever.
THEOREM StopsAreHeard == Spec => []NoBlockedStop
<1>1. NoUnstoppableRoutine /\ NoBlockedStop => NoBlockedStop
  OBVIOUS
<1> QED  BY <1>1, RoutinesAreRegistered, PTL

(***************************************************************************)
(* Finalisation.  The strengthening says what finalizeApp relies on between *)
(* its steps: the copy knows of the stored finalizer, the routine stays     *)
(* stopped, the resources stay cleared.  Without forced syncs (Forced = {}) *)
(* nobody else deploys.                                                     *)
(***************************************************************************)
NoHandler == \A a \in Apps : ~handler[a]

\* A copy that is the stored version has the stored finalizer.
FreshCopy ==
    /\ \A a \in Apps : current[a] => cached[a] = obj[a]
    /\ \A a \in Apps : (worker.pc # "patch" /\ worker.app = a /\ worker.fresh)
                         => worker.copy.fin = obj[a].fin /\ Exists(obj[a])
    /\ \A a \in Apps : ~Exists(obj[a]) => ~obj[a].fin

ClearedBeforeRemove ==
    \A a \in Apps : WorkerAt(a, "remove") /\ worker.copy.fin => ~deployed[a]

\* Storing an Application that keeps its finalizer keeps the copies' knowledge.
LEMMA StoreKeepsFreshCopy ==
    ASSUME TypeOK, FreshCopy, NEW a \in Apps, NEW x \in Application,
           Store(a, x, worker) \/ Store(a, x, Idle), ~Exists(x) => ~x.fin
    PROVE  FreshCopy'
<1>1. /\ obj' = [obj EXCEPT ![a] = x] /\ obj'[a] = x
      /\ current' = [current EXCEPT ![a] = FALSE]
      /\ cached' = cached
      /\ \A b \in Apps \ {a} : obj'[b] = obj[b]
  BY DEF Store, TypeOK
<1>2. \A b \in Apps : current'[b] => cached'[b] = obj'[b]
  BY <1>1 DEF FreshCopy, TypeOK
<1>3. \A b \in Apps : (worker'.pc # "patch" /\ worker'.app = b /\ worker'.fresh)
                         => worker'.copy.fin = obj'[b].fin /\ Exists(obj'[b])
  <2>1. CASE Store(a, x, worker)
    BY <1>1, <2>1 DEF Store, FreshCopy, TypeOK, Worker
  <2>2. CASE Store(a, x, Idle)
    BY <2>2, NilAssumption DEF Store, Idle
  <2> QED  BY <2>1, <2>2
<1>4. \A b \in Apps : ~Exists(obj'[b]) => ~obj'[b].fin
  BY <1>1 DEF FreshCopy, Exists
<1> QED  BY <1>2, <1>3, <1>4 DEF FreshCopy, Exists

\* What a step that stores an Application does to the worker.
LEMMA StoreKeepsWorker ==
    ASSUME TypeOK, NEW a \in Apps, NEW x, Store(a, x, worker)
    PROVE  /\ worker'.pc = worker.pc /\ worker'.app = worker.app
           /\ worker'.copy = worker.copy
BY DEF Store, TypeOK, Worker

\* Collecting leaves no finalizer of ours on an object that is gone.
LEMMA CollectedFin ==
    ASSUME NEW x \in Application, ~Exists(x) => ~x.fin
    PROVE  ~Exists(Collected(x)) => ~Collected(x).fin
BY DEF Collected, Absent, Exists

\* A copy with the stored resourceVersion agrees with the store on finalizer and
\* deletion: whatever is stored in between makes the copy an old one.
LEMMA FreshCopyStep ==
    ASSUME TypeOK, FreshCopy, [Next]_vars
    PROVE  FreshCopy'
<1>0. /\ worker \in Worker /\ worker.copy \in Application
      /\ \A a \in Apps : obj[a] \in Application /\ cached[a] \in Application
  BY DEF TypeOK, Worker
<1>1. ASSUME NEW a \in Apps, UserStep(a)
      PROVE  FreshCopy'
  <2>1. CASE CreateApp(a)
    <3>1. PICK period \in BOOLEAN :
            Store(a, [Absent EXCEPT !.phase = "live", !.period = period], worker)
      BY <2>1 DEF CreateApp
    <3>2. /\ [Absent EXCEPT !.phase = "live", !.period = period] \in Application
          /\ Exists([Absent EXCEPT !.phase = "live", !.period = period])
      BY DEF Absent, Application, Exists
    <3> QED  BY <3>1, <3>2, StoreKeepsFreshCopy
  <2>2. CASE EditApp(a)
    BY <1>0, <2>2, StoreKeepsFreshCopy DEF EditApp
  <2>3. CASE DeleteApp(a)
    <3>1. PICK hold \in BOOLEAN :
            Store(a, Collected([obj[a] EXCEPT !.phase = "deleting", !.hold = hold]),
                  worker)
      BY <2>3 DEF DeleteApp
    <3>2. /\ [obj[a] EXCEPT !.phase = "deleting", !.hold = hold] \in Application
          /\ Exists([obj[a] EXCEPT !.phase = "deleting", !.hold = hold])
      BY <1>0 DEF Application, Exists
    <3> QED  BY <3>1, <3>2, CollectedType, CollectedFin, StoreKeepsFreshCopy
  <2>4. CASE ReleaseHold(a)
    <3> DEFINE x == [obj[a] EXCEPT !.hold = FALSE]
    <3>1. x \in Application /\ (~Exists(x) => ~x.fin)
      BY <1>0 DEF Application, Exists, FreshCopy
    <3>2. Store(a, Collected(x), worker)
      BY <2>4 DEF ReleaseHold
    <3> QED  BY <3>1, <3>2, CollectedType, CollectedFin, StoreKeepsFreshCopy
  <2> QED  BY <1>1, <2>1, <2>2, <2>3, <2>4 DEF UserStep
<1>2. ASSUME NEW a \in Apps, CacheSync(a)
      PROVE  FreshCopy'
  BY <1>2 DEF CacheSync, FreshCopy, TypeOK, Exists
<1>3. ASSUME UNCHANGED apiVars, UNCHANGED worker
      PROVE  FreshCopy'
  BY <1>3 DEF apiVars, FreshCopy, Exists
<1>4. ASSUME UNCHANGED apiVars, worker'.app = worker.app,
             worker'.pc = "patch" \/
               (/\ worker.pc # "patch" /\ worker'.fresh = worker.fresh
                /\ worker'.copy.fin = worker.copy.fin)
      PROVE  FreshCopy'
  BY <1>4 DEF apiVars, FreshCopy, Exists
<1>5. ASSUME Restart, \A a \in Apps : ~Exists(obj'[a]) => ~obj'[a].fin
      PROVE  FreshCopy'
  BY <1>5, NilAssumption DEF Restart, Idle, FreshCopy, Exists
<1>6. ASSUME NEW a \in Apps, ReconcileStep(a)
      PROVE  FreshCopy'
  <2>1. ASSUME NEW hookRegistered \in BOOLEAN, ReconcileStart(a, hookRegistered)
        PROVE  FreshCopy'
    <3>1. /\ worker'.app = a /\ worker'.fresh = current[a]
          /\ worker'.copy.fin = cached[a].fin
          /\ Exists(cached[a]) /\ UNCHANGED apiVars
      BY <1>0, <2>1 DEF ReconcileStart, Idle, Application
    <3> QED  BY <3>1 DEF apiVars, FreshCopy, Exists
  <2>2. CASE ReconcileNotFound(a)
    BY <1>3, <2>2 DEF ReconcileNotFound
  <2>3. CASE ManageSyncRoutine(a)
    BY <1>0, <1>4, <2>3 DEF ManageSyncRoutine, WorkerAt, Goto, Worker
  <2>4. CASE WorkerCheckSyncOk(a) \/ WorkerCheckSyncErr(a)
    BY <1>0, <1>4, <2>4
       DEF WorkerCheckSyncOk, WorkerCheckSyncErr, WorkerAt, Goto, Fail, Worker
  <2>5. CASE SetDefaultValuesOk(a) \/ SetDefaultValuesErr(a)
    <3>1. CASE SetDefaultValuesOk(a)
      <4> DEFINE c == [worker.copy EXCEPT !.secret = TRUE, !.period = TRUE]
      <4>1. c \in Application /\ c.fin = worker.copy.fin
        BY <1>0 DEF Application
      <4>2. worker' = [worker EXCEPT !.copy = c, !.pc = "finalizer"]
        BY <3>1 DEF SetDefaultValuesOk
      <4>3. worker'.copy = c /\ worker'.app = worker.app /\ worker'.fresh = worker.fresh
        <5> HIDE DEF c
        <5> QED  BY <1>0, <4>2 DEF Worker
      <4> QED  BY <1>4, <3>1, <4>1, <4>3 DEF SetDefaultValuesOk, WorkerAt
    <3>2. CASE SetDefaultValuesErr(a)
      BY <1>0, <1>4, <3>2 DEF SetDefaultValuesErr, Fail, Worker
    <3> QED  BY <2>5, <3>1, <3>2
  <2>6. CASE HasFinalizer(a) \/ HandleDeletion(a)
    BY <1>0, <1>4, <2>6 DEF HasFinalizer, HandleDeletion, WorkerAt, Goto, Worker
  <2>7. CASE FinalizeStop(a) \/ FinalizeClearOk(a) \/ FinalizeClearErr(a)
    BY <1>0, <1>4, <2>7
       DEF FinalizeStop, FinalizeClearOk, FinalizeClearErr, WorkerAt, Goto,
           Fail, Worker
  <2>8. ASSUME NEW x \in Application, UpdateOk(a, x), ~Exists(x) => ~x.fin
        PROVE  FreshCopy'
    <3>1. worker'.pc = "patch"
      BY <1>0, <2>8 DEF UpdateOk, Worker
    <3>2. \A b \in Apps : current'[b] => current[b] /\ obj'[b] = obj[b]
      BY <2>8 DEF UpdateOk, TypeOK
    <3>3. \A b \in Apps : ~Exists(obj'[b]) => ~obj'[b].fin
      BY <2>8 DEF UpdateOk, TypeOK, FreshCopy
    <3> QED  BY <2>8, <3>1, <3>2, <3>3 DEF UpdateOk, FreshCopy, Exists
  <2>9. CASE UpdateErr
    BY <1>0, <1>4, <2>9 DEF UpdateErr, Fail, Worker
  <2>10. CASE AddFinalizer(a)
    <3> DEFINE x == [obj[a] EXCEPT !.fin = TRUE, !.period = worker.copy.period]
    <3>1. CASE UpdateOk(a, x)
      <4>1. x \in Application
        BY <1>0 DEF Application
      <4>2. Exists(x)
        BY <1>0, <2>10, <3>1
           DEF AddFinalizer, WorkerAt, UpdateOk, FreshCopy, Exists, Application
      <4> QED  BY <2>8, <3>1, <4>1, <4>2
    <3> QED  BY <2>9, <2>10, <3>1 DEF AddFinalizer
  <2>11. CASE RemoveFinalizer(a)
    <3> DEFINE x == [obj[a] EXCEPT !.fin = FALSE, !.period = worker.copy.period]
    <3>1. x \in Application /\ ~x.fin
      BY <1>0 DEF Application
    <3> QED  BY <2>8, <2>9, <2>11, <3>1, CollectedType, CollectedFin
             DEF RemoveFinalizer
  <2>12. Patched(obj[a]) \in Application
    BY <1>0, PatchedType
  <2>13. ~Exists(Patched(obj[a])) => ~Patched(obj[a]).fin
    BY <1>0 DEF Patched, Exists, FreshCopy, Application
  <2>14. CASE StatusPatch(a)
    <3>1. ASSUME worker' = Idle, UNCHANGED apiVars
          PROVE  FreshCopy'
      BY <3>1, NilAssumption DEF Idle, apiVars, FreshCopy, Exists
    <3> QED  BY <1>0, <2>12, <2>13, <2>14, <3>1, StoreKeepsFreshCopy
             DEF StatusPatch, FreshCopy
  <2>15. CASE Panic(a)
    BY <1>0, <1>5, <2>13, <2>15 DEF Panic, TypeOK, FreshCopy
  <2>16. CASE StatusPatchErr(a)
    BY <2>16, NilAssumption DEF StatusPatchErr, Idle, apiVars, FreshCopy, Exists
  <2> QED  BY <1>6, <2>1, <2>2, <2>3, <2>4, <2>5, <2>6, <2>7, <2>10, <2>11,
              <2>14, <2>15, <2>16 DEF ReconcileStep, ReconcileHookOk, ReconcileHookFailed
<1>7. CASE Crash
  BY <1>5, <1>7 DEF Crash, FreshCopy
<1>8. ASSUME NEW a \in Apps, Resync(a) \/ HandlerStep(a)
      PROVE  FreshCopy'
  BY <1>3, <1>8 DEF Resync, HandlerStep, ForcedSyncStart, ForcedSyncEnd
<1>9. ASSUME NEW c \in Chans, RoutineStep(c)
      PROVE  FreshCopy'
  BY <1>3, <1>9
     DEF RoutineStep, PeriodicCheckStart, PeriodicCheckOk, PeriodicCheckErr
<1>10. CASE UNCHANGED vars
  BY <1>3, <1>10 DEF vars, apiVars
<1> QED  BY <1>1, <1>2, <1>6, <1>7, <1>8, <1>9, <1>10 DEF Next

\* A routine's own step does not change whose routine it is.
LEMMA RoutineStepKeepsApp ==
    ASSUME TypeOK, NEW c \in Chans, RoutineStep(c)
    PROVE  \A d \in Chans, a \in Apps :
             routine'[d].pc # "none" /\ routine'[d].app = a => RunsFor(d, a)
BY DEF RoutineStep, PeriodicCheckStart, PeriodicCheckOk, PeriodicCheckErr,
       TypeOK, RunsFor

\* Once manageSyncRoutine's stop is delivered, the name has no routine.
LEMMA StopLeavesNone ==
    ASSUME TypeOK, Registry, NEW a \in Apps, DeleteSyncFlag(a)
    PROVE  \A c \in Chans : ~(routine'[c].pc # "none" /\ routine'[c].app = a)
BY NilAssumption
   DEF TypeOK, Registry, NoUnstoppableRoutine, RunsFor, DeleteSyncFlag,
       StopRoutine, NoRoutine

\* Between the stop and the removal of the finalizer the worker is the only one
\* that could start a routine, and it does not.
LEMMA StoppedStep ==
    ASSUME TypeOK, Registry, StoppedBeforeClear, [Next]_vars
    PROVE  StoppedBeforeClear'
<1> USE DEF StoppedBeforeClear, WorkerAt, RunsFor
<1>0. worker \in Worker /\ worker.copy \in Application
  BY DEF TypeOK, Worker
<1>1. ASSUME UNCHANGED routine, worker'.pc = worker.pc, worker'.app = worker.app,
             worker'.copy = worker.copy
      PROVE  StoppedBeforeClear'
  BY <1>1
<1>2. ASSUME worker'.pc \notin {"clear", "remove"}
      PROVE  StoppedBeforeClear'
  BY <1>2
<1>3. ASSUME NEW a \in Apps, UserStep(a)
      PROVE  StoppedBeforeClear'
  <2>1. UNCHANGED routine /\ \E x : Store(a, x, worker)
    BY <1>3 DEF UserStep, CreateApp, EditApp, DeleteApp, ReleaseHold, routineVars
  <2> QED  BY <1>1, <2>1, StoreKeepsWorker
<1>4. ASSUME NEW a \in Apps, CacheSync(a) \/ Resync(a) \/ HandlerStep(a)
      PROVE  StoppedBeforeClear'
  BY <1>1, <1>4 DEF CacheSync, Resync, HandlerStep, ForcedSyncStart,
                    ForcedSyncEnd, routineVars
<1>5. ASSUME NEW c \in Chans, RoutineStep(c)
      PROVE  StoppedBeforeClear'
  <2>1. UNCHANGED worker
    BY <1>5 DEF RoutineStep, PeriodicCheckStart, PeriodicCheckOk, PeriodicCheckErr
  <2> QED  BY <1>5, <2>1, RoutineStepKeepsApp
<1>6. ASSUME Restart
      PROVE  StoppedBeforeClear'
  BY <1>2, <1>6 DEF Restart, Idle
<1>7. ASSUME NEW a \in Apps, ReconcileStep(a)
      PROVE  StoppedBeforeClear'
  <2>1. ASSUME NEW hookRegistered \in BOOLEAN, ReconcileStart(a, hookRegistered)
        PROVE  StoppedBeforeClear'
    BY <1>2, <2>1 DEF ReconcileStart, Idle
  <2>2. CASE ReconcileNotFound(a)
    BY <1>1, <2>2 DEF ReconcileNotFound, routineVars
  <2>3. CASE ManageSyncRoutine(a) \/ WorkerCheckSyncOk(a) \/ HasFinalizer(a)
    BY <1>0, <1>2, <2>3
       DEF ManageSyncRoutine, WorkerCheckSyncOk, HasFinalizer, Goto, Worker
  <2>4. CASE SetDefaultValuesOk(a)
    <3>1. worker'.pc = "finalizer"
      BY <1>0, <2>4 DEF SetDefaultValuesOk, Worker
    <3> QED  BY <1>2, <3>1
  <2>5. CASE Fail
    BY <1>0, <1>2, <2>5 DEF Fail, Worker
  <2>6. CASE \/ WorkerCheckSyncErr(a) \/ SetDefaultValuesErr(a)
             \/ FinalizeClearErr(a)
    BY <2>5, <2>6 DEF WorkerCheckSyncErr, SetDefaultValuesErr, FinalizeClearErr
  <2>7. CASE AddFinalizer(a) \/ RemoveFinalizer(a)
    <3>1. ASSUME NEW x, UpdateOk(a, x)
          PROVE  StoppedBeforeClear'
      <4>1. worker'.pc = "patch"
        BY <1>0, <3>1 DEF UpdateOk, Worker
      <4> QED  BY <1>2, <4>1
    <3> QED  BY <2>5, <2>7, <3>1 DEF AddFinalizer, RemoveFinalizer, UpdateErr
  <2>8. CASE HandleDeletion(a)
    <3>1. worker'.copy = worker.copy
      BY <1>0, <2>8 DEF HandleDeletion, Goto, Worker
    <3>2. worker'.pc = IF worker.copy.fin THEN "stop" ELSE "remove"
      BY <1>0, <2>8 DEF HandleDeletion, Goto, Worker
    <3> QED  BY <3>1, <3>2
  <2>9. CASE FinalizeStop(a)
    <3>1. worker'.app = a /\ worker'.pc = "clear"
      BY <1>0, <2>9 DEF FinalizeStop, Goto, Worker
    <3> QED  BY <2>9, <3>1, StopLeavesNone DEF FinalizeStop
  <2>10. CASE FinalizeClearOk(a)
    <3>1. worker'.app = a /\ WorkerAt(a, "clear") /\ UNCHANGED routine
      BY <1>0, <2>10 DEF FinalizeClearOk, Goto, Worker, routineVars
    <3> QED  BY <3>1
  <2>11. CASE StatusPatch(a) \/ StatusPatchErr(a)
    <3>1. worker' = Idle
      BY <2>11, NilAssumption DEF StatusPatch, StatusPatchErr, Store, Idle
    <3> QED  BY <1>2, <3>1 DEF Idle
  <2>12. CASE Panic(a)
    BY <1>6, <2>12 DEF Panic
  <2> QED  BY <1>7, <2>1, <2>2, <2>3, <2>4, <2>6, <2>7, <2>8, <2>9, <2>10,
              <2>11, <2>12
           DEF ReconcileStep, ReconcileHookOk, ReconcileHookFailed
<1>8. CASE Crash
  BY <1>6, <1>8 DEF Crash
<1>9. CASE UNCHANGED vars
  BY <1>1, <1>9 DEF vars
<1> QED  BY <1>3, <1>4, <1>5, <1>7, <1>8, <1>9 DEF Next

\* finalizeApp clears an Application's resources and removes its finalizer only
\* while no routine of that name runs.
THEOREM ClearIsUndisturbed == Spec => []StoppedBeforeClear
<1>1. Init => StoppedBeforeClear
  BY DEF Init, Idle, StoppedBeforeClear, WorkerAt
<1>2. Init => Registry
  BY NilAssumption
     DEF Init, NoRoutine, Registry, NoUnstoppableRoutine, NoBlockedStop, RunsFor
<1> QED  BY <1>1, <1>2, StoppedStep, RegistryStep, TypeCorrect, PTL DEF Spec

\* Without forced syncs no handler ever runs.
LEMMA NoHandlerStep ==
    ASSUME TypeOK, NoHandler, Forced = {}, [Next]_vars
    PROVE  NoHandler'
<1>1. ASSUME NEW a \in Apps, HandlerStep(a)
      PROVE  FALSE
  BY <1>1 DEF HandlerStep, ForcedSyncStart, ForcedSyncEnd, NoHandler
<1>2. ASSUME UNCHANGED handler
      PROVE  NoHandler'
  BY <1>2 DEF NoHandler
<1>3. ASSUME Restart
      PROVE  NoHandler'
  BY <1>3 DEF Restart, NoHandler
<1>4. ASSUME NEW a \in Apps, UserStep(a) \/ CacheSync(a) \/ Resync(a)
      PROVE  NoHandler'
  BY <1>2, <1>4 DEF UserStep, CreateApp, EditApp, DeleteApp, ReleaseHold,
                    CacheSync, Resync
<1>5. ASSUME NEW a \in Apps, ReconcileStep(a)
      PROVE  NoHandler'
  BY <1>2, <1>3, <1>5
     DEF ReconcileStep, ReconcileHookOk, ReconcileHookFailed, ReconcileStart,
         ReconcileNotFound, ManageSyncRoutine, WorkerCheckSyncOk,
         WorkerCheckSyncErr, SetDefaultValuesOk, SetDefaultValuesErr, HasFinalizer,
         AddFinalizer, HandleDeletion, FinalizeStop, FinalizeClearOk,
         FinalizeClearErr, RemoveFinalizer, StatusPatch, StatusPatchErr, Panic
<1>6. ASSUME NEW c \in Chans, RoutineStep(c)
      PROVE  NoHandler'
  BY <1>2, <1>6
     DEF RoutineStep, PeriodicCheckStart, PeriodicCheckOk, PeriodicCheckErr
<1>7. CASE Crash
  BY <1>3, <1>7 DEF Crash
<1>8. CASE UNCHANGED vars
  BY <1>2, <1>8 DEF vars
<1> QED  BY <1>1, <1>4, <1>5, <1>6, <1>7, <1>8 DEF Next

\* What finalizeApp has cleared stays cleared until the finalizer is removed:
\* nobody is left to deploy it.
LEMMA ClearedStep ==
    ASSUME TypeOK, NoHandler, StoppedBeforeClear, ClearedBeforeRemove, [Next]_vars
    PROVE  ClearedBeforeRemove'
<1> USE DEF ClearedBeforeRemove, WorkerAt
<1>0. worker \in Worker /\ worker.copy \in Application
  BY DEF TypeOK, Worker
<1>1. ASSUME UNCHANGED deployed, worker'.pc = worker.pc, worker'.app = worker.app,
             worker'.copy = worker.copy
      PROVE  ClearedBeforeRemove'
  BY <1>1
<1>2. ASSUME worker'.pc # "remove"
      PROVE  ClearedBeforeRemove'
  BY <1>2
<1>3. ASSUME NEW a \in Apps, UserStep(a)
      PROVE  ClearedBeforeRemove'
  <2>1. UNCHANGED deployed /\ \E x : Store(a, x, worker)
    BY <1>3 DEF UserStep, CreateApp, EditApp, DeleteApp, ReleaseHold, effectVars
  <2> QED  BY <1>1, <2>1, StoreKeepsWorker
<1>4. ASSUME NEW a \in Apps, CacheSync(a) \/ Resync(a) \/ HandlerStep(a)
      PROVE  ClearedBeforeRemove'
  BY <1>1, <1>4 DEF CacheSync, Resync, HandlerStep, ForcedSyncStart,
                    ForcedSyncEnd, NoHandler, effectVars
<1>5. ASSUME NEW c \in Chans, RoutineStep(c)
      PROVE  ClearedBeforeRemove'
  <2>1. CASE PeriodicCheckStart(c)
    BY <1>1, <2>1 DEF PeriodicCheckStart, effectVars
  <2>2. CASE PeriodicCheckOk(c) \/ PeriodicCheckErr(c)
    <3>1. /\ UNCHANGED worker
          /\ RunsFor(c, routine[c].app)
          /\ deployed' \in {deployed, [deployed EXCEPT ![routine[c].app] = TRUE]}
      BY <2>2 DEF PeriodicCheckOk, PeriodicCheckErr, CheckSyncOk, CheckSyncErr, RunsFor
    <3>2. ASSUME NEW a \in Apps, worker.pc = "remove", worker.app = a,
                 worker.copy.fin
          PROVE  ~deployed'[a]
      <4>1. routine[c].app # a /\ ~deployed[a]
        BY <3>1, <3>2 DEF StoppedBeforeClear
      <4> QED  BY <3>1, <4>1 DEF TypeOK
    <3> QED  BY <3>1, <3>2
  <2> QED  BY <1>5, <2>1, <2>2 DEF RoutineStep
<1>6. ASSUME Restart
      PROVE  ClearedBeforeRemove'
  BY <1>2, <1>6 DEF Restart, Idle
<1>7. ASSUME NEW a \in Apps, ReconcileStep(a)
      PROVE  ClearedBeforeRemove'
  <2>1. ASSUME NEW hookRegistered \in BOOLEAN, ReconcileStart(a, hookRegistered)
        PROVE  ClearedBeforeRemove'
    BY <1>2, <2>1 DEF ReconcileStart, Idle
  <2>2. CASE ReconcileNotFound(a)
    BY <1>1, <2>2 DEF ReconcileNotFound, effectVars
  <2>3. CASE \/ ManageSyncRoutine(a) \/ WorkerCheckSyncOk(a) \/ HasFinalizer(a)
             \/ FinalizeStop(a)
    BY <1>0, <1>2, <2>3
       DEF ManageSyncRoutine, WorkerCheckSyncOk, HasFinalizer, FinalizeStop,
           Goto, Worker
  <2>4. CASE SetDefaultValuesOk(a)
    <3>1. worker'.pc = "finalizer"
      BY <1>0, <2>4 DEF SetDefaultValuesOk, Worker
    <3> QED  BY <1>2, <3>1
  <2>5. CASE Fail
    BY <1>0, <1>2, <2>5 DEF Fail, Worker
  <2>6. CASE \/ WorkerCheckSyncErr(a) \/ SetDefaultValuesErr(a)
             \/ FinalizeClearErr(a)
    BY <2>5, <2>6 DEF WorkerCheckSyncErr, SetDefaultValuesErr, FinalizeClearErr
  <2>7. CASE AddFinalizer(a) \/ RemoveFinalizer(a)
    <3>1. ASSUME NEW x, UpdateOk(a, x)
          PROVE  ClearedBeforeRemove'
      <4>1. worker'.pc = "patch"
        BY <1>0, <3>1 DEF UpdateOk, Worker
      <4> QED  BY <1>2, <4>1
    <3> QED  BY <2>5, <2>7, <3>1 DEF AddFinalizer, RemoveFinalizer, UpdateErr
  <2>8. CASE HandleDeletion(a)
    <3>1. worker'.copy = worker.copy
      BY <1>0, <2>8 DEF HandleDeletion, Goto, Worker
    <3>2. worker'.pc = IF worker.copy.fin THEN "stop" ELSE "remove"
      BY <1>0, <2>8 DEF HandleDeletion, Goto, Worker
    <3> QED  BY <3>1, <3>2
  <2>9. CASE FinalizeClearOk(a)
    <3>1. worker'.app = a /\ ~deployed'[a]
      BY <1>0, <2>9 DEF FinalizeClearOk, Goto, Worker, TypeOK
    <3> QED  BY <3>1
  <2>10. CASE StatusPatch(a) \/ StatusPatchErr(a)
    <3>1. worker' = Idle
      BY <2>10, NilAssumption DEF StatusPatch, StatusPatchErr, Store, Idle
    <3> QED  BY <1>2, <3>1 DEF Idle
  <2>11. CASE Panic(a)
    BY <1>6, <2>11 DEF Panic
  <2> QED  BY <1>7, <2>1, <2>2, <2>3, <2>4, <2>6, <2>7, <2>8, <2>9, <2>10, <2>11
           DEF ReconcileStep, ReconcileHookOk, ReconcileHookFailed
<1>8. CASE Crash
  BY <1>6, <1>8 DEF Crash
<1>9. CASE UNCHANGED vars
  BY <1>1, <1>9 DEF vars
<1> QED  BY <1>3, <1>4, <1>5, <1>7, <1>8, <1>9 DEF Next

CleanRemoval(a) ==
    obj[a].fin /\ ~obj'[a].fin
      => ~deployed'[a] /\ \A c \in Chans : ~RunsFor(c, a)'

\* Only RemoveFinalizer's Update takes the finalizer away, and it works on a
\* copy that is the stored version: so the finalizer it removes was in the copy,
\* and finalizeApp has run.
LEMMA RemovalStep ==
    ASSUME TypeOK, FreshCopy, StoppedBeforeClear, ClearedBeforeRemove, [Next]_vars,
           NEW a \in Apps
    PROVE  CleanRemoval(a)
<1>0. /\ worker.copy \in Application
      /\ \A b \in Apps : obj[b] \in Application
  BY DEF TypeOK, Worker
<1>1. ASSUME obj'[a].fin = obj[a].fin
      PROVE  CleanRemoval(a)
  BY <1>1 DEF CleanRemoval
<1>2. ASSUME NEW b \in Apps, NEW x, NEW w, Store(b, x, w), obj[b].fin => x.fin
      PROVE  CleanRemoval(a)
  BY <1>1, <1>2 DEF Store, TypeOK, CleanRemoval
<1>3. ASSUME NEW x \in Application, x.fin
      PROVE  Collected(x).fin
  BY <1>3 DEF Collected
<1>4. ASSUME NEW b \in Apps, UserStep(b)
      PROVE  CleanRemoval(a)
  <2>1. CASE CreateApp(b)
    BY <1>2, <2>1 DEF CreateApp, FreshCopy
  <2>2. CASE EditApp(b)
    BY <1>2, <2>2 DEF EditApp
  <2>3. CASE DeleteApp(b)
    <3>1. PICK hold \in BOOLEAN :
            Store(b, Collected([obj[b] EXCEPT !.phase = "deleting", !.hold = hold]),
                  worker)
      BY <2>3 DEF DeleteApp
    <3>2. /\ [obj[b] EXCEPT !.phase = "deleting", !.hold = hold] \in Application
          /\ [obj[b] EXCEPT !.phase = "deleting", !.hold = hold].fin = obj[b].fin
      BY <1>0 DEF Application
    <3> QED  BY <1>2, <1>3, <3>1, <3>2
  <2>4. CASE ReleaseHold(b)
    <3>1. /\ [obj[b] EXCEPT !.hold = FALSE] \in Application
          /\ [obj[b] EXCEPT !.hold = FALSE].fin = obj[b].fin
      BY <1>0 DEF Application
    <3> QED  BY <1>2, <1>3, <2>4, <3>1 DEF ReleaseHold
  <2> QED  BY <1>4, <2>1, <2>2, <2>3, <2>4 DEF UserStep
<1>5. ASSUME UNCHANGED obj
      PROVE  CleanRemoval(a)
  BY <1>1, <1>5
<1>6. ASSUME NEW b \in Apps, ReconcileStep(b)
      PROVE  CleanRemoval(a)
  <2>1. CASE RemoveFinalizer(b)
    <3> DEFINE x == Collected([obj[b] EXCEPT !.fin = FALSE,
                                             !.period = worker.copy.period])
    <3>1. CASE UpdateErr
      BY <1>5, <3>1 DEF UpdateErr, apiVars
    <3>2. CASE UpdateOk(b, x) /\ a # b
      BY <1>1, <3>2 DEF UpdateOk, TypeOK
    <3>3. CASE UpdateOk(b, x) /\ a = b
      <4>1. WorkerAt(a, "remove") /\ worker.fresh /\ UNCHANGED <<deployed, routine>>
        BY <2>1, <3>3 DEF RemoveFinalizer, UpdateOk, effectVars, routineVars
      <4>2. worker.copy.fin = obj[a].fin
        BY <4>1 DEF FreshCopy, WorkerAt
      <4> QED  BY <4>1, <4>2
               DEF CleanRemoval, StoppedBeforeClear, ClearedBeforeRemove, RunsFor
    <3> QED  BY <2>1, <3>1, <3>2, <3>3 DEF RemoveFinalizer
  <2>2. CASE AddFinalizer(b)
    <3> DEFINE x == [obj[b] EXCEPT !.fin = TRUE, !.period = worker.copy.period]
    <3>1. x.fin
      BY <1>0 DEF Application
    <3>2. CASE UpdateErr
      BY <1>5, <3>2 DEF UpdateErr, apiVars
    <3>3. CASE UpdateOk(b, x)
      BY <1>1, <3>1, <3>3 DEF UpdateOk, TypeOK, CleanRemoval
    <3> QED  BY <2>2, <3>2, <3>3 DEF AddFinalizer
  <2>3. Patched(obj[b]).fin = obj[b].fin
    BY <1>0 DEF Patched, Application
  <2>4. CASE StatusPatch(b)
    BY <1>2, <1>5, <2>3, <2>4 DEF StatusPatch, apiVars
  <2>5. CASE Panic(b)
    BY <1>1, <2>3, <2>5 DEF Panic, TypeOK
  <2> QED  BY <1>5, <1>6, <2>1, <2>2, <2>4, <2>5
           DEF ReconcileStep, ReconcileHookOk, ReconcileHookFailed, ReconcileStart,
               ReconcileNotFound, ManageSyncRoutine, WorkerCheckSyncOk,
               WorkerCheckSyncErr, SetDefaultValuesOk, SetDefaultValuesErr,
               HasFinalizer, HandleDeletion, FinalizeStop, FinalizeClearOk,
               FinalizeClearErr, StatusPatchErr, apiVars
<1>7. ASSUME NEW b \in Apps, CacheSync(b) \/ Resync(b) \/ HandlerStep(b)
      PROVE  CleanRemoval(a)
  BY <1>5, <1>7 DEF CacheSync, Resync, HandlerStep, ForcedSyncStart,
                    ForcedSyncEnd, apiVars
<1>8. ASSUME NEW c \in Chans, RoutineStep(c)
      PROVE  CleanRemoval(a)
  BY <1>5, <1>8 DEF RoutineStep, PeriodicCheckStart, PeriodicCheckOk,
                    PeriodicCheckErr, apiVars
<1>9. CASE Crash
  BY <1>5, <1>9 DEF Crash
<1>10. CASE UNCHANGED vars
  BY <1>5, <1>10 DEF vars
<1> QED  BY <1>4, <1>6, <1>7, <1>8, <1>9, <1>10 DEF Next

\* As long as no webhook or sync-API call forces a sync, the finalizer goes only
\* from an Application whose resources are cleared and whose routine is stopped,
\* whatever users, failures, lagging caches and crashes do.
THEOREM FinalizerGoesLast ==
    ASSUME Forced = {}
    PROVE  Spec => FinalizedIsClean
<1>1. Init => NoHandler /\ FreshCopy /\ ClearedBeforeRemove
  BY NilAssumption
     DEF Init, Idle, Absent, NoHandler, FreshCopy, Exists, ClearedBeforeRemove,
         WorkerAt
<1>2. TypeOK /\ NoHandler /\ [Next]_vars => NoHandler'
  BY NoHandlerStep
<1>3. TypeOK /\ FreshCopy /\ [Next]_vars => FreshCopy'
  BY FreshCopyStep
<1>4. /\ TypeOK /\ NoHandler /\ StoppedBeforeClear /\ ClearedBeforeRemove
      /\ [Next]_vars
      => ClearedBeforeRemove'
  BY ClearedStep
<1>5. /\ TypeOK /\ FreshCopy /\ StoppedBeforeClear /\ ClearedBeforeRemove
      /\ [Next]_vars
      => [\A a \in Apps : obj[a].fin /\ ~obj'[a].fin
            => ~deployed'[a] /\ \A c \in Chans : ~RunsFor(c, a)']_vars
  BY RemovalStep DEF CleanRemoval
<1> QED  BY <1>1, <1>2, <1>3, <1>4, <1>5, TypeCorrect, ClearIsUndisturbed, PTL
         DEF Spec, FinalizedIsClean

(***************************************************************************)
(* Where no call fails, nobody edits, no other finalizer is around and no   *)
(* name is used again while it is in use: what a version of an Application  *)
(* says of the finalizer, the default period and the status goes together.  *)
(***************************************************************************)
Calm == {"edit", "err", "foreign", "recreate"} \cap Env = {}

\* The first Update stores finalizer and period, before any status is patched.
Sound(x) ==
    /\ x.fin => x.period /\ Exists(x)
    /\ x.secret \/ x.ready => x.fin
    /\ x.phase = "deleting" => x.fin
    /\ ~x.hold

\* What a Reconcile of a has from its copy, step by step.
WorkerKnows(a) ==
    /\ worker.pc # "patch" =>
         /\ Exists(obj[a]) => obj[a].fin \/ (~worker.copy.fin /\ worker.fresh)
         /\ worker.fresh => obj[a].phase = worker.copy.phase
         /\ ~worker.err
    /\ worker.pc = "patch" /\ Exists(obj[a]) => obj[a].fin
    /\ worker.pc \in {"manage", "sync"} => worker.copy.fin
    /\ worker.pc \in {"manage", "finalizer", "stop", "clear", "remove"} => worker.copy.period
    /\ worker.pc \in {"stop", "clear", "remove"} => worker.copy.phase = "deleting"
    /\ worker.pc \in {"stop", "clear"} => worker.copy.fin

\* An informer that knows of an Application without finalizer is up to date.
VersionsAgree(a) ==
    /\ Sound(obj[a]) /\ Sound(cached[a])
    /\ Exists(obj[a]) => \/ obj[a].fin
                         \/ ~cached[a].fin /\ (Exists(cached[a]) => current[a])

Defaulted(a) == VersionsAgree(a) /\ (worker.app = a => WorkerKnows(a))

AllDefaulted == \A a \in Apps : Defaulted(a)

\* The steps of a Reconcile that only move the worker on.
LEMMA GotoMoves ==
    ASSUME TypeOK, NEW pc, Goto(pc)
    PROVE  /\ worker'.pc = pc /\ worker'.app = worker.app /\ worker'.copy = worker.copy
           /\ worker'.fresh = worker.fresh /\ worker'.err = worker.err
           /\ worker'.original = worker.original
BY DEF TypeOK, Goto, Worker

LEMMA OtherDefaulted ==
    ASSUME NEW a \in Apps, Defaulted(a), obj'[a] = obj[a], cached'[a] = cached[a],
           current'[a] = current[a], worker' = worker \/ worker'.app # a
    PROVE  Defaulted(a)'
BY DEF Defaulted, VersionsAgree, WorkerKnows, Sound, Exists

LEMMA RestartDefaulted ==
    ASSUME Restart, \A a \in Apps : Sound(obj'[a])
    PROVE  AllDefaulted'
BY NilAssumption DEF Restart, Idle, AllDefaulted, Defaulted, VersionsAgree

\* A version stored by a user or by the patch, and what it does to everybody.
LEMMA StoreDefaulted ==
    ASSUME TypeOK, AllDefaulted, NEW a \in Apps, NEW x \in Application, Sound(x),
           \/ Store(a, x, Idle)
           \/ Store(a, x, worker) /\ (worker.app # a \/ (Exists(x) => x.fin)),
           Exists(x) => x.fin \/ (~cached[a].fin /\ ~Exists(cached[a]))
    PROVE  AllDefaulted'
<1>1. /\ obj'[a] = x /\ cached' = cached
      /\ \A b \in Apps \ {a} : obj'[b] = obj[b] /\ current'[b] = current[b]
  BY DEF Store, TypeOK
<1>2. VersionsAgree(a)'
  BY <1>1 DEF VersionsAgree, AllDefaulted, Defaulted, Sound, Exists
<1>3. CASE Store(a, x, Idle)
  <2>1. \A b \in Apps : worker'.app # b
    BY <1>3, NilAssumption DEF Store, Idle
  <2> QED  BY <1>1, <1>2, <2>1, OtherDefaulted DEF AllDefaulted, Defaulted
<1>4. CASE Store(a, x, worker) /\ (worker.app # a \/ (Exists(x) => x.fin))
  <2>1. /\ worker'.pc = worker.pc /\ worker'.app = worker.app
        /\ worker'.copy = worker.copy /\ worker'.err = worker.err
        /\ worker.app = a => ~worker'.fresh
        /\ worker.app # a => worker' = worker
    BY <1>4 DEF Store, TypeOK, Worker
  <2>2. worker.app = a => WorkerKnows(a)'
    BY <1>1, <1>4, <2>1 DEF WorkerKnows, AllDefaulted, Defaulted, Exists
  <2>3. ASSUME NEW b \in Apps \ {a}
        PROVE  Defaulted(b)'
    BY <1>1, <2>1, OtherDefaulted DEF AllDefaulted
  <2> QED  BY <1>2, <2>1, <2>2, <2>3 DEF AllDefaulted, Defaulted
<1> QED  BY <1>3, <1>4

LEMMA UserDefaulted ==
    ASSUME Calm, TypeOK, FreshCopy, AllDefaulted, NEW a \in Apps, UserStep(a)
    PROVE  AllDefaulted'
<1>0. obj[a] \in Application /\ Sound(obj[a]) /\ Sound(cached[a])
  BY DEF TypeOK, AllDefaulted, Defaulted, VersionsAgree
<1>1. CASE CreateApp(a)
  <2>1. PICK period \in BOOLEAN :
          Store(a, [Absent EXCEPT !.phase = "live", !.period = period], worker)
    BY <1>1 DEF CreateApp
  <2> DEFINE x == [Absent EXCEPT !.phase = "live", !.period = period]
  <2>2. x \in Application /\ Sound(x)
    BY DEF Absent, Application, Sound, Exists
  <2>3. current[a] /\ ~Exists(obj[a]) /\ worker.app # a
    BY <1>1 DEF CreateApp, Settled, Calm
  <2>4. ~cached[a].fin /\ ~Exists(cached[a])
    BY <1>0, <2>3 DEF FreshCopy, Sound
  <2> HIDE DEF x
  <2> QED  BY <2>1, <2>2, <2>3, <2>4, StoreDefaulted DEF x
<1>2. CASE DeleteApp(a)
  <2>1. PICK hold \in {FALSE} :
          Store(a, Collected([obj[a] EXCEPT !.phase = "deleting", !.hold = hold]), worker)
    BY <1>2 DEF DeleteApp, Calm
  <2> DEFINE x == [obj[a] EXCEPT !.phase = "deleting", !.hold = hold]
  <2>2. /\ x \in Application /\ x.phase = "deleting" /\ ~x.hold /\ x.fin = obj[a].fin
        /\ x.period = obj[a].period /\ x.secret = obj[a].secret /\ x.ready = obj[a].ready
    BY <1>0, <2>1 DEF Application
  <2> HIDE DEF x
  <2>3. Collected(x) \in Application
    BY <2>2, CollectedType
  <2>4. Sound(Collected(x)) /\ (Exists(Collected(x)) => Collected(x).fin)
    BY <1>0, <2>2 DEF Collected, Absent, Sound, Exists
  <2> QED  BY <2>1, <2>3, <2>4, StoreDefaulted DEF x
<1>3. ~EditApp(a) /\ ~ReleaseHold(a)
  BY <1>0 DEF EditApp, ReleaseHold, Calm, Sound
<1> QED  BY <1>1, <1>2, <1>3 DEF UserStep

\* r.Update on a copy that is the stored version.
LEMMA UpdateDefaulted ==
    ASSUME TypeOK, AllDefaulted, NEW a \in Apps, worker.app = a, NEW x \in Application,
           Sound(x), Exists(x) => x.fin, UpdateOk(a, x)
    PROVE  AllDefaulted'
<1>1. /\ obj'[a] = x /\ cached' = cached /\ worker'.app = a /\ worker'.pc = "patch"
      /\ \A b \in Apps \ {a} : obj'[b] = obj[b] /\ current'[b] = current[b]
  BY DEF UpdateOk, TypeOK, Worker
<1>2. Defaulted(a)'
  BY <1>1 DEF Defaulted, VersionsAgree, WorkerKnows, AllDefaulted, Exists, Sound
<1>3. ASSUME NEW b \in Apps \ {a}
      PROVE  Defaulted(b)'
  BY <1>1, OtherDefaulted DEF AllDefaulted
<1> QED  BY <1>2, <1>3 DEF AllDefaulted

\* A refused Update had an old copy, and then the finalizer is stored.
LEMMA UpdateErrDefaulted ==
    ASSUME Calm, TypeOK, AllDefaulted, NEW a \in Apps, worker.app = a, worker.pc # "patch",
           UpdateErr
    PROVE  AllDefaulted'
<1>1. /\ ~worker.fresh /\ UNCHANGED apiVars
      /\ worker'.app = a /\ worker'.pc = "patch"
  BY DEF UpdateErr, Calm, Fail, TypeOK, Worker
<1>2. Defaulted(a)'
  BY <1>1 DEF Defaulted, VersionsAgree, WorkerKnows, AllDefaulted, Exists, Sound, apiVars
<1>3. ASSUME NEW b \in Apps \ {a}
      PROVE  Defaulted(b)'
  BY <1>1, OtherDefaulted DEF AllDefaulted, apiVars
<1> QED  BY <1>2, <1>3 DEF AllDefaulted

LEMMA ReconcileDefaulted ==
    ASSUME Calm, TypeOK, FreshCopy, AllDefaulted, NEW a \in Apps, ReconcileStep(a)
    PROVE  AllDefaulted'
<1>0. /\ worker \in Worker /\ worker.copy \in Application /\ worker.original \in Application
      /\ obj[a] \in Application /\ cached[a] \in Application
      /\ VersionsAgree(a) /\ (worker.app = a => WorkerKnows(a))
  BY DEF TypeOK, Worker, AllDefaulted, Defaulted
<1>1. ASSUME UNCHANGED apiVars, worker'.app = a, WorkerKnows(a)'
      PROVE  AllDefaulted'
  <2>1. Defaulted(a)'
    BY <1>0, <1>1 DEF Defaulted, VersionsAgree, Sound, Exists, apiVars
  <2>2. ASSUME NEW b \in Apps \ {a}
        PROVE  Defaulted(b)'
    BY <1>1, OtherDefaulted DEF AllDefaulted, apiVars
  <2> QED  BY <2>1, <2>2 DEF AllDefaulted
<1>2. ASSUME UNCHANGED apiVars, \A b \in Apps : worker'.app # b
      PROVE  AllDefaulted'
  BY <1>2, OtherDefaulted DEF AllDefaulted, apiVars
<1>3. ASSUME NEW hookRegistered \in BOOLEAN, ReconcileStart(a, hookRegistered)
      PROVE  AllDefaulted'
  <2> DEFINE copy == [cached[a] EXCEPT !.ready = \/ cached[a].ready
                                                 \/ cached[a].secret /\ hookRegistered]
  <2>1. /\ copy.fin = cached[a].fin /\ copy.period = cached[a].period
        /\ copy.phase = cached[a].phase
        /\ copy.ready => cached[a].fin
    BY <1>0 DEF Application, VersionsAgree, Sound
  <2>2. /\ worker'.pc = IF copy.ready THEN "manage" ELSE "defaults"
        /\ worker'.app = a /\ worker'.copy = copy /\ worker'.fresh = current[a]
        /\ ~worker'.err /\ UNCHANGED apiVars /\ Exists(cached[a])
    BY <1>3 DEF ReconcileStart, Idle
  <2>3. current[a] => cached[a] = obj[a]
    BY DEF FreshCopy
  <2> HIDE DEF copy
  <2>4. WorkerKnows(a)'
    BY <1>0, <2>1, <2>2, <2>3 DEF WorkerKnows, VersionsAgree, Sound, Exists, apiVars
  <2> QED  BY <1>1, <2>2, <2>4
<1>4. CASE ReconcileNotFound(a)
  BY <1>4, OtherDefaulted DEF ReconcileNotFound, AllDefaulted, apiVars
<1>5. ASSUME NEW pc, Goto(pc), worker.app = a, UNCHANGED apiVars,
             \/ worker.pc = "manage" /\ pc = "sync"
             \/ worker.pc = "sync" /\ pc = "defaults"
             \/ worker.pc = "finalizer" /\ pc = "patch" /\ worker.copy.fin
             \/ /\ worker.pc = "finalizer" /\ worker.copy.phase = "deleting"
                /\ pc = IF worker.copy.fin THEN "stop" ELSE "remove"
             \/ worker.pc = "stop" /\ pc = "clear"
             \/ worker.pc = "clear" /\ pc = "remove"
      PROVE  AllDefaulted'
  <2>1. /\ worker'.pc = pc /\ worker'.app = a /\ worker'.copy = worker.copy
        /\ worker'.fresh = worker.fresh /\ worker'.err = worker.err
    BY <1>5, GotoMoves
  <2>2. WorkerKnows(a)'
    BY <1>0, <1>5, <2>1 DEF WorkerKnows, Exists, apiVars
  <2> QED  BY <1>1, <1>5, <2>1, <2>2
<1>6. CASE ManageSyncRoutine(a)
  BY <1>5, <1>6 DEF ManageSyncRoutine, WorkerAt
<1>7. CASE WorkerCheckSyncOk(a)
  BY <1>5, <1>7 DEF WorkerCheckSyncOk, WorkerAt
<1>8. CASE SetDefaultValuesOk(a)
  <2> DEFINE c == [worker.copy EXCEPT !.secret = TRUE, !.period = TRUE]
  <2>1. c.fin = worker.copy.fin /\ c.period /\ c.phase = worker.copy.phase
    BY <1>0 DEF Application
  <2>2. worker' = [worker EXCEPT !.copy = c, !.pc = "finalizer"] /\ UNCHANGED apiVars
        /\ WorkerAt(a, "defaults")
    BY <1>8 DEF SetDefaultValuesOk
  <2> HIDE DEF c
  <2>3. /\ worker'.copy = c /\ worker'.app = a /\ worker'.fresh = worker.fresh
        /\ worker'.pc = "finalizer" /\ worker'.err = worker.err
    BY <1>0, <2>2 DEF Worker, WorkerAt
  <2>4. WorkerKnows(a)'
    BY <1>0, <2>1, <2>2, <2>3 DEF WorkerKnows, WorkerAt, Exists, apiVars
  <2> QED  BY <1>1, <2>2, <2>3, <2>4
<1>9. /\ ~WorkerCheckSyncErr(a) /\ ~SetDefaultValuesErr(a) /\ ~FinalizeClearErr(a)
      /\ ~StatusPatchErr(a)
  BY DEF WorkerCheckSyncErr, CheckSyncErr, SetDefaultValuesErr, FinalizeClearErr,
         StatusPatchErr, Calm
<1>10. CASE HasFinalizer(a)
  BY <1>5, <1>10 DEF HasFinalizer, WorkerAt
<1>11. CASE HandleDeletion(a)
  BY <1>5, <1>11 DEF HandleDeletion, WorkerAt
<1>12. CASE FinalizeStop(a)
  BY <1>5, <1>12 DEF FinalizeStop, WorkerAt
<1>13. CASE FinalizeClearOk(a)
  BY <1>5, <1>13 DEF FinalizeClearOk, WorkerAt
<1>14. CASE AddFinalizer(a)
  <2> DEFINE x == [obj[a] EXCEPT !.fin = TRUE, !.period = worker.copy.period]
  <2>1. worker.app = a /\ worker.pc = "finalizer" /\ (UpdateOk(a, x) \/ UpdateErr)
    BY <1>14 DEF AddFinalizer, WorkerAt
  <2>2. /\ x \in Application /\ x.fin /\ x.period = worker.copy.period
        /\ x.phase = obj[a].phase /\ x.hold = obj[a].hold
    BY <1>0 DEF Application
  <2> HIDE DEF x
  <2>3. CASE UpdateOk(a, x)
    <3>1. worker.fresh /\ worker.copy.period
      BY <1>0, <2>1, <2>3 DEF UpdateOk, WorkerKnows
    <3>2. Exists(obj[a])
      BY <2>1, <3>1 DEF FreshCopy
    <3>3. Sound(x)
      BY <1>0, <2>2, <3>1, <3>2 DEF Sound, VersionsAgree, Exists
    <3> QED  BY <2>1, <2>2, <2>3, <3>3, UpdateDefaulted
  <2> QED  BY <2>1, <2>3, UpdateErrDefaulted
<1>15. CASE RemoveFinalizer(a)
  <2> DEFINE x == [obj[a] EXCEPT !.fin = FALSE, !.period = worker.copy.period]
  <2>1. worker.app = a /\ worker.pc = "remove" /\ (UpdateOk(a, Collected(x)) \/ UpdateErr)
    BY <1>15 DEF RemoveFinalizer, WorkerAt
  <2>2. x \in Application /\ ~x.fin /\ x.phase = obj[a].phase /\ x.hold = obj[a].hold
    BY <1>0 DEF Application
  <2> HIDE DEF x
  <2>3. CASE UpdateOk(a, Collected(x))
    <3>1. worker.fresh /\ worker.copy.phase = "deleting"
      BY <1>0, <2>1, <2>3 DEF UpdateOk, WorkerKnows
    <3>2. obj[a].phase = "deleting" /\ ~obj[a].hold
      BY <1>0, <2>1, <3>1 DEF WorkerKnows, VersionsAgree, Sound
    <3>3. Collected(x) = Absent
      BY <2>2, <3>2 DEF Collected
    <3>4. Absent \in Application /\ Sound(Absent) /\ ~Exists(Absent)
      BY DEF Absent, Application, Sound, Exists
    <3> QED  BY <2>1, <2>3, <3>3, <3>4, UpdateDefaulted
  <2> QED  BY <2>1, <2>3, UpdateErrDefaulted
<1>16. ASSUME worker.app = a, Exists(obj[a]) => obj[a].fin
       PROVE  /\ Patched(obj[a]) \in Application /\ Sound(Patched(obj[a]))
              /\ Exists(Patched(obj[a])) => Patched(obj[a]).fin
  <2>1. Patched(obj[a]) \in Application
    BY <1>0, PatchedType
  <2>2. Sound(obj[a])
    BY <1>0 DEF VersionsAgree
  <2>3. Patched(obj[a]) # obj[a] =>
          /\ Exists(obj[a]) /\ Patched(obj[a]).fin = obj[a].fin
          /\ Patched(obj[a]).period = obj[a].period /\ Patched(obj[a]).hold = obj[a].hold
          /\ Patched(obj[a]).phase = obj[a].phase
    BY <1>0 DEF Patched, Application
  <2>4. CASE Patched(obj[a]) = obj[a]
    BY <1>16, <2>1, <2>2, <2>4
  <2>5. CASE Patched(obj[a]) # obj[a]
    BY <1>16, <2>1, <2>2, <2>3, <2>5 DEF Sound, Exists
  <2> QED  BY <2>4, <2>5
<1>17. CASE StatusPatch(a)
  <2>1. worker.app = a /\ (Exists(obj[a]) => obj[a].fin)
    BY <1>0, <1>17 DEF StatusPatch, WorkerAt, WorkerKnows
  <2>2. CASE worker' = Idle /\ UNCHANGED apiVars
    BY <1>2, <2>2, NilAssumption DEF Idle
  <2>3. CASE Store(a, Patched(obj[a]), Idle)
    BY <1>16, <2>1, <2>3, StoreDefaulted
  <2>4. CASE Store(a, obj[a], Idle)
    BY <1>0, <2>1, <2>4, StoreDefaulted DEF VersionsAgree
  <2> QED  BY <1>17, <2>2, <2>3, <2>4 DEF StatusPatch
<1>18. CASE Panic(a)
  <2>1. WorkerAt(a, "clear")
    BY <1>0, <1>18 DEF Panic, Panics, WorkerAt, WorkerKnows
  <2>2. worker.app = a /\ (Exists(obj[a]) => obj[a].fin)
    BY <1>0, <2>1 DEF WorkerAt, WorkerKnows
  <2>3. \A b \in Apps : Sound(obj'[b])
    BY <1>16, <1>18, <2>2 DEF Panic, TypeOK, AllDefaulted, Defaulted, VersionsAgree
  <2> QED  BY <1>18, <2>3, RestartDefaulted DEF Panic
<1> QED  BY <1>3, <1>4, <1>6, <1>7, <1>8, <1>9, <1>10, <1>11, <1>12, <1>13, <1>14, <1>15,
            <1>17, <1>18
         DEF ReconcileStep, ReconcileHookOk, ReconcileHookFailed

LEMMA DefaultedStep ==
    ASSUME Calm, TypeOK, FreshCopy, AllDefaulted, [Next]_vars
    PROVE  AllDefaulted'
<1>1. ASSUME UNCHANGED <<apiVars, worker>>
      PROVE  AllDefaulted'
  BY <1>1, OtherDefaulted DEF AllDefaulted, apiVars
<1>2. ASSUME NEW a \in Apps, CacheSync(a)
      PROVE  AllDefaulted'
  <2>1. /\ cached'[a] = obj[a] /\ current'[a] /\ UNCHANGED <<obj, worker>>
        /\ \A b \in Apps \ {a} : cached'[b] = cached[b] /\ current'[b] = current[b]
    BY <1>2 DEF CacheSync, TypeOK
  <2>2. Defaulted(a)'
    BY <2>1 DEF AllDefaulted, Defaulted, VersionsAgree, WorkerKnows, Exists, Sound
  <2>3. \A b \in Apps \ {a} : Defaulted(b)'
    BY <2>1, OtherDefaulted DEF AllDefaulted
  <2> QED  BY <2>2, <2>3 DEF AllDefaulted
<1>3. ASSUME NEW a \in Apps, Resync(a) \/ HandlerStep(a)
      PROVE  AllDefaulted'
  BY <1>1, <1>3 DEF Resync, HandlerStep, ForcedSyncStart, ForcedSyncEnd
<1>4. ASSUME NEW c \in Chans, RoutineStep(c)
      PROVE  AllDefaulted'
  BY <1>1, <1>4 DEF RoutineStep, PeriodicCheckStart, PeriodicCheckOk, PeriodicCheckErr
<1>5. CASE Crash
  <2>1. Restart /\ obj' = obj
    BY <1>5 DEF Crash
  <2>2. \A a \in Apps : Sound(obj[a])
    BY DEF AllDefaulted, Defaulted, VersionsAgree
  <2>3. \A a \in Apps : Sound(obj'[a])
    BY <2>1, <2>2
  <2> QED  BY <2>1, <2>3, RestartDefaulted
<1>6. CASE UNCHANGED vars
  BY <1>1, <1>6 DEF vars, apiVars
<1> QED  BY <1>2, <1>3, <1>4, <1>5, <1>6, UserDefaulted, ReconcileDefaulted DEF Next

LEMMA DefaultedInit == Init => FreshCopy /\ AllDefaulted
<1> SUFFICES ASSUME Init
             PROVE  FreshCopy /\ AllDefaulted
  OBVIOUS
<1>1. /\ \A a \in Apps : obj[a] = Absent /\ cached[a] = Absent /\ worker.app # a
      /\ Sound(Absent) /\ ~Exists(Absent) /\ ~Absent.fin
  BY NilAssumption DEF Init, Idle, Absent, Sound, Exists
<1> QED  BY <1>1 DEF FreshCopy, AllDefaulted, Defaulted, VersionsAgree

\* In a calm environment no ticker gets a period of zero, whatever else happens:
\* lagging caches, resyncs, forced syncs, deletions and crashes, for any number of
\* Applications created without a period.
THEOREM PeriodsAreDefaulted ==
    ASSUME Calm
    PROVE  Spec => []PeriodIsDefaulted
<1>1. TypeOK /\ FreshCopy /\ [Next]_vars => FreshCopy'
  BY FreshCopyStep
<1>2. TypeOK /\ FreshCopy /\ AllDefaulted /\ [Next]_vars => AllDefaulted'
  BY Calm, DefaultedStep
<1>3. AllDefaulted => PeriodIsDefaulted
  BY DEF AllDefaulted, Defaulted, WorkerKnows, PeriodIsDefaulted, WorkerAt
<1> QED  BY <1>1, <1>2, <1>3, DefaultedInit, TypeCorrect, PTL DEF Spec

(***************************************************************************)
(* What is left of an Application that is gone.  In a calm environment      *)
(* without resyncs no Reconcile works on a copy with the finalizer once the *)
(* stored object has lost it: nobody starts routine or deployment again.    *)
(***************************************************************************)
Undisturbed == Calm /\ "resync" \notin Env /\ Forced = {}

\* A Reconcile of a is under way that may change something or be repeated.
Busy(a) == worker.app = a /\ (worker.pc # "patch" \/ worker.err)

FinalizerKnown(a) ==
    /\ a \in queue \/ Busy(a) => (cached[a].fin => obj[a].fin)
    /\ worker.app = a /\ worker.pc # "patch" =>
         /\ worker.copy.fin => obj[a].fin
         /\ worker.fresh => current[a] /\ a \notin queue

FinalizersKnown == \A a \in Apps : FinalizerKnown(a)

LEMMA OtherFinalizer ==
    ASSUME NEW a \in Apps, FinalizerKnown(a), obj'[a].fin = obj[a].fin,
           cached'[a] = cached[a], current'[a] = current[a], a \in queue' => a \in queue,
           worker' = worker \/ worker'.app # a
    PROVE  FinalizerKnown(a)'
BY DEF FinalizerKnown, Busy

\* A version that keeps the finalizer makes copies old and takes nothing away.
LEMMA StoreFinalizer ==
    ASSUME TypeOK, FinalizersKnown, NEW a \in Apps, NEW x, Store(a, x, worker),
           obj[a].fin => x.fin, UNCHANGED queue
    PROVE  FinalizersKnown'
<1>1. /\ obj'[a] = x /\ UNCHANGED <<cached, queue>>
      /\ \A b \in Apps \ {a} : obj'[b] = obj[b] /\ current'[b] = current[b]
  BY DEF Store, TypeOK
<1>2. /\ worker'.pc = worker.pc /\ worker'.app = worker.app
      /\ worker'.copy = worker.copy /\ worker'.err = worker.err
      /\ worker.app = a => ~worker'.fresh
      /\ worker.app # a => worker' = worker
  BY DEF Store, TypeOK, Worker
<1>3. FinalizerKnown(a)'
  BY <1>1, <1>2 DEF FinalizersKnown, FinalizerKnown, Busy
<1>4. ASSUME NEW b \in Apps \ {a}
      PROVE  FinalizerKnown(b)'
  BY <1>1, <1>2, OtherFinalizer DEF FinalizersKnown
<1> QED  BY <1>3, <1>4 DEF FinalizersKnown

\* Stored objects lose the finalizer in RemoveFinalizer only.
LEMMA UserFinalizer ==
    ASSUME TypeOK, FreshCopy, NEW a \in Apps, UserStep(a)
    PROVE  \E x : Store(a, x, worker) /\ (obj[a].fin => x.fin)
<1>0. obj[a] \in Application
  BY DEF TypeOK
<1>1. CASE CreateApp(a)
  BY <1>1 DEF CreateApp, FreshCopy
<1>2. CASE EditApp(a)
  BY <1>2 DEF EditApp
<1>3. CASE DeleteApp(a)
  <2>1. PICK hold \in BOOLEAN :
          Store(a, Collected([obj[a] EXCEPT !.phase = "deleting", !.hold = hold]), worker)
    BY <1>3 DEF DeleteApp
  <2>2. [obj[a] EXCEPT !.phase = "deleting", !.hold = hold].fin = obj[a].fin
    BY <1>0 DEF Application
  <2>3. obj[a].fin => Collected([obj[a] EXCEPT !.phase = "deleting", !.hold = hold]).fin
    BY <2>2 DEF Collected
  <2> QED  BY <2>1, <2>3
<1>4. CASE ReleaseHold(a)
  <2>1. Store(a, Collected([obj[a] EXCEPT !.hold = FALSE]), worker)
    BY <1>4 DEF ReleaseHold
  <2>2. [obj[a] EXCEPT !.hold = FALSE].fin = obj[a].fin
    BY <1>0 DEF Application
  <2>3. obj[a].fin => Collected([obj[a] EXCEPT !.hold = FALSE]).fin
    BY <2>2 DEF Collected
  <2> QED  BY <2>1, <2>3
<1> QED  BY <1>1, <1>2, <1>3, <1>4 DEF UserStep

LEMMA RestartFinalizer ==
    ASSUME Restart
    PROVE  FinalizersKnown'
BY NilAssumption DEF Restart, Idle, FinalizersKnown, FinalizerKnown, Busy

LEMMA ReconcileFinalizer ==
    ASSUME Undisturbed, TypeOK, FreshCopy, AllDefaulted, FinalizersKnown, NEW a \in Apps,
           ReconcileStep(a)
    PROVE  FinalizersKnown'
<1>0. /\ worker \in Worker /\ worker.copy \in Application
      /\ obj[a] \in Application /\ cached[a] \in Application
      /\ FinalizerKnown(a) /\ (worker.app = a => WorkerKnows(a)) /\ Calm
  BY DEF TypeOK, Worker, AllDefaulted, Defaulted, FinalizersKnown, Undisturbed
<1>1. ASSUME UNCHANGED apiVars, queue' \subseteq queue, worker'.app = a, FinalizerKnown(a)'
      PROVE  FinalizersKnown'
  <2>1. ASSUME NEW b \in Apps \ {a}
        PROVE  FinalizerKnown(b)'
    BY <1>1, OtherFinalizer DEF FinalizersKnown, apiVars
  <2> QED  BY <1>1, <2>1 DEF FinalizersKnown
<1>2. ASSUME NEW hookRegistered \in BOOLEAN, ReconcileStart(a, hookRegistered)
      PROVE  FinalizersKnown'
  <2> DEFINE copy == [cached[a] EXCEPT !.ready = \/ cached[a].ready
                                                 \/ cached[a].secret /\ hookRegistered]
  <2>1. copy.fin = cached[a].fin
    BY <1>0 DEF Application
  <2>2. /\ worker'.app = a /\ worker'.copy = copy /\ worker'.fresh = current[a]
        /\ a \in queue /\ queue' = queue \ {a} /\ UNCHANGED apiVars
    BY <1>2 DEF ReconcileStart, Idle
  <2> HIDE DEF copy
  <2>3. FinalizerKnown(a)'
    BY <1>0, <2>1, <2>2 DEF FinalizerKnown, Busy, apiVars
  <2> QED  BY <1>1, <2>2, <2>3
<1>3. CASE ReconcileNotFound(a)
  <2>1. queue' \subseteq queue /\ UNCHANGED <<apiVars, worker>>
    BY <1>3 DEF ReconcileNotFound
  <2> QED  BY <2>1, OtherFinalizer DEF FinalizersKnown, apiVars
<1>4. ASSUME UNCHANGED <<apiVars, queue>>, worker.app = a, worker.pc # "patch",
             worker'.app = a, worker'.copy.fin = worker.copy.fin, worker'.fresh = worker.fresh
      PROVE  FinalizersKnown'
  <2>1. FinalizerKnown(a)'
    BY <1>0, <1>4 DEF FinalizerKnown, Busy, apiVars
  <2> QED  BY <1>1, <1>4, <2>1
<1>5. CASE SetDefaultValuesOk(a)
  <2> DEFINE c == [worker.copy EXCEPT !.secret = TRUE, !.period = TRUE]
  <2>1. c.fin = worker.copy.fin
    BY <1>0 DEF Application
  <2>2. worker' = [worker EXCEPT !.copy = c, !.pc = "finalizer"]
        /\ UNCHANGED <<apiVars, queue>> /\ WorkerAt(a, "defaults")
    BY <1>5 DEF SetDefaultValuesOk
  <2> HIDE DEF c
  <2> QED  BY <1>0, <1>4, <2>1, <2>2 DEF Worker, WorkerAt
<1>6. CASE \/ ManageSyncRoutine(a) \/ WorkerCheckSyncOk(a) \/ HasFinalizer(a)
           \/ HandleDeletion(a) \/ FinalizeStop(a) \/ FinalizeClearOk(a)
  <2>1. /\ UNCHANGED <<apiVars, queue>> /\ worker.app = a /\ worker.pc # "patch"
        /\ \E pc : Goto(pc)
    BY <1>6 DEF ManageSyncRoutine, WorkerCheckSyncOk, HasFinalizer, HandleDeletion,
                FinalizeStop, FinalizeClearOk, WorkerAt
  <2> QED  BY <1>4, <2>1, GotoMoves
<1>7. /\ ~WorkerCheckSyncErr(a) /\ ~SetDefaultValuesErr(a) /\ ~FinalizeClearErr(a)
      /\ ~StatusPatchErr(a)
  BY <1>0 DEF WorkerCheckSyncErr, CheckSyncErr, SetDefaultValuesErr, FinalizeClearErr,
              StatusPatchErr, Calm
<1>8. ASSUME UpdateErr, UNCHANGED queue, worker.app = a, worker.pc # "patch"
      PROVE  FinalizersKnown'
  <2>1. /\ UNCHANGED apiVars /\ worker'.app = a /\ worker'.copy = worker.copy
        /\ worker'.fresh = worker.fresh
    BY <1>0, <1>8 DEF UpdateErr, Fail, Worker
  <2> QED  BY <1>4, <1>8, <2>1
<1>9. ASSUME NEW x \in Application, UpdateOk(a, x), UNCHANGED queue, worker.app = a,
             worker.pc # "patch"
      PROVE  FinalizersKnown'
  <2>1. /\ worker'.app = a /\ worker'.pc = "patch" /\ worker'.err = worker.err
        /\ worker.fresh /\ cached' = cached
        /\ \A b \in Apps \ {a} : obj'[b] = obj[b] /\ current'[b] = current[b]
    BY <1>0, <1>9 DEF UpdateOk, Worker, TypeOK
  <2>2. a \notin queue' /\ ~worker'.err
    BY <1>0, <1>9, <2>1 DEF FinalizerKnown, WorkerKnows
  <2>3. FinalizerKnown(a)'
    BY <2>1, <2>2 DEF FinalizerKnown, Busy
  <2>4. ASSUME NEW b \in Apps \ {a}
        PROVE  FinalizerKnown(b)'
    BY <1>9, <2>1, OtherFinalizer DEF FinalizersKnown
  <2> QED  BY <2>3, <2>4 DEF FinalizersKnown
<1>10. CASE AddFinalizer(a)
  <2> DEFINE x == [obj[a] EXCEPT !.fin = TRUE, !.period = worker.copy.period]
  <2>1. x \in Application
    BY <1>0 DEF Application
  <2> QED  BY <1>8, <1>9, <1>10, <2>1 DEF AddFinalizer, WorkerAt
<1>11. CASE RemoveFinalizer(a)
  <2> DEFINE x == [obj[a] EXCEPT !.fin = FALSE, !.period = worker.copy.period]
  <2>1. x \in Application
    BY <1>0 DEF Application
  <2>2. Collected(x) \in Application
    BY <2>1, CollectedType
  <2> QED  BY <1>8, <1>9, <1>11, <2>2 DEF RemoveFinalizer, WorkerAt
<1>12. CASE StatusPatch(a)
  <2>1. Patched(obj[a]).fin = obj[a].fin
    BY <1>0 DEF Patched, Application
  <2>2. /\ obj'[a].fin = obj[a].fin /\ cached' = cached /\ worker' = Idle
        /\ \A b \in Apps \ {a} : obj'[b] = obj[b] /\ current'[b] = current[b]
        /\ queue' = IF worker.err THEN queue \cup {a} ELSE queue
        /\ worker.app = a
    BY <1>12, <2>1, NilAssumption DEF StatusPatch, Store, Idle, TypeOK, apiVars, WorkerAt
  <2>3. \A b \in Apps : worker'.app # b
    BY <2>2, NilAssumption DEF Idle
  <2>4. FinalizerKnown(a)'
    BY <1>0, <2>2, <2>3 DEF FinalizerKnown, Busy
  <2>5. ASSUME NEW b \in Apps \ {a}
        PROVE  FinalizerKnown(b)'
    BY <2>2, <2>3, OtherFinalizer DEF FinalizersKnown
  <2> QED  BY <2>4, <2>5 DEF FinalizersKnown
<1>13. CASE Panic(a)
  BY <1>13, RestartFinalizer DEF Panic
<1> QED  BY <1>2, <1>3, <1>5, <1>6, <1>7, <1>10, <1>11, <1>12, <1>13
         DEF ReconcileStep, ReconcileHookOk, ReconcileHookFailed

LEMMA FinalizersStep ==
    ASSUME Undisturbed, TypeOK, FreshCopy, AllDefaulted, FinalizersKnown, [Next]_vars
    PROVE  FinalizersKnown'
<1>1. ASSUME UNCHANGED <<apiVars, queue, worker>>
      PROVE  FinalizersKnown'
  BY <1>1, OtherFinalizer DEF FinalizersKnown, apiVars
<1>2. ASSUME NEW a \in Apps, CacheSync(a)
      PROVE  FinalizersKnown'
  <2>1. /\ cached'[a] = obj[a] /\ ~current[a] /\ UNCHANGED <<obj, worker>>
        /\ queue' = queue \cup {a}
        /\ \A b \in Apps \ {a} : cached'[b] = cached[b] /\ current'[b] = current[b]
    BY <1>2 DEF CacheSync, TypeOK
  <2>2. FinalizerKnown(a)'
    BY <2>1 DEF FinalizersKnown, FinalizerKnown, Busy
  <2>3. \A b \in Apps \ {a} : FinalizerKnown(b)'
    BY <2>1, OtherFinalizer DEF FinalizersKnown
  <2> QED  BY <2>2, <2>3 DEF FinalizersKnown
<1>3. ASSUME NEW a \in Apps, UserStep(a)
      PROVE  FinalizersKnown'
  <2>1. UNCHANGED queue
    BY <1>3 DEF UserStep, CreateApp, EditApp, DeleteApp, ReleaseHold
  <2> QED  BY <1>3, <2>1, UserFinalizer, StoreFinalizer
<1>4. ASSUME NEW a \in Apps, Resync(a) \/ HandlerStep(a)
      PROVE  FinalizersKnown'
  BY <1>1, <1>4 DEF Resync, HandlerStep, ForcedSyncStart, ForcedSyncEnd, Undisturbed
<1>5. ASSUME NEW c \in Chans, RoutineStep(c)
      PROVE  FinalizersKnown'
  BY <1>1, <1>5 DEF RoutineStep, PeriodicCheckStart, PeriodicCheckOk, PeriodicCheckErr
<1>6. CASE Crash
  BY <1>6, RestartFinalizer DEF Crash
<1>7. CASE UNCHANGED vars
  BY <1>1, <1>7 DEF vars, apiVars
<1> QED  BY <1>2, <1>3, <1>4, <1>5, <1>6, <1>7, ReconcileFinalizer DEF Next

Dirty(a) == deployed[a] \/ \E c \in Chans : RunsFor(c, a)

\* What is deployed or runs has an Application with the finalizer.
CleanWithoutFinalizer == \A a \in Apps : Dirty(a) => obj[a].fin

\* A restarted process deploys nothing and has no routine.
LEMMA RestartDirt ==
    ASSUME Restart, NEW a \in Apps, Dirty(a)'
    PROVE  Dirty(a)
BY DEF Restart, Dirty, RunsFor, NoRoutine

\* Only a Reconcile whose copy has the finalizer deploys or starts a routine anew.
LEMMA DirtComes ==
    ASSUME Undisturbed, TypeOK, NoHandler, AllDefaulted, FinalizersKnown, [Next]_vars,
           NEW a \in Apps, Dirty(a)'
    PROVE  Dirty(a) \/ obj[a].fin
<1>1. ASSUME UNCHANGED <<deployed, routine>>
      PROVE  Dirty(a)
  BY <1>1 DEF Dirty, RunsFor
<1>2. ASSUME NEW b \in Apps, ReconcileStep(b)
      PROVE  Dirty(a) \/ obj[a].fin
  <2>0. /\ FinalizerKnown(b) /\ (worker.app = b => WorkerKnows(b)) /\ Calm
    BY DEF AllDefaulted, Defaulted, FinalizersKnown, Undisturbed
  <2>1. CASE ManageSyncRoutine(b)
    <3>1. obj[b].fin
      BY <2>0, <2>1 DEF ManageSyncRoutine, WorkerAt, WorkerKnows, FinalizerKnown
    <3>2. PICK c \in Chans : RestartRoutine(b, c)
      BY <2>1 DEF ManageSyncRoutine
    <3>3. a # b => \A d \in Chans : RunsFor(d, a)' => RunsFor(d, a)
      BY <3>2 DEF RestartRoutine, StopRoutine, NoRoutine, RunsFor, TypeOK
    <3>4. UNCHANGED deployed
      BY <2>1 DEF ManageSyncRoutine, effectVars
    <3> QED  BY <3>1, <3>3, <3>4 DEF Dirty
  <2>2. CASE WorkerCheckSyncOk(b)
    <3>1. obj[b].fin
      BY <2>0, <2>2 DEF WorkerCheckSyncOk, WorkerAt, WorkerKnows, FinalizerKnown
    <3>2. deployed' = [deployed EXCEPT ![b] = TRUE] /\ UNCHANGED routine
      BY <2>2 DEF WorkerCheckSyncOk, CheckSyncOk, routineVars
    <3> QED  BY <3>1, <3>2 DEF Dirty, RunsFor, TypeOK
  <2>3. /\ ~WorkerCheckSyncErr(b) /\ ~SetDefaultValuesErr(b) /\ ~FinalizeClearErr(b)
        /\ ~StatusPatchErr(b)
    BY <2>0 DEF WorkerCheckSyncErr, CheckSyncErr, SetDefaultValuesErr, FinalizeClearErr,
                StatusPatchErr, Calm
  <2>4. CASE FinalizeStop(b)
    <3>1. \A d \in Chans : RunsFor(d, a)' => RunsFor(d, a)
      BY <2>4 DEF FinalizeStop, DeleteSyncFlag, StopRoutine, NoRoutine, RunsFor, TypeOK
    <3>2. UNCHANGED deployed
      BY <2>4 DEF FinalizeStop, effectVars
    <3> QED  BY <3>1, <3>2 DEF Dirty
  <2>5. CASE FinalizeClearOk(b)
    <3>1. deployed' = [deployed EXCEPT ![b] = FALSE] /\ UNCHANGED routine
      BY <2>5 DEF FinalizeClearOk, routineVars
    <3> QED  BY <3>1 DEF Dirty, RunsFor, TypeOK
  <2>6. CASE Panic(b)
    BY <2>6, RestartDirt DEF Panic
  <2>7. CASE \/ \E hookRegistered \in BOOLEAN : ReconcileStart(b, hookRegistered)
             \/ ReconcileNotFound(b) \/ SetDefaultValuesOk(b) \/ HasFinalizer(b)
             \/ AddFinalizer(b) \/ HandleDeletion(b) \/ RemoveFinalizer(b) \/ StatusPatch(b)
    BY <1>1, <2>7 DEF ReconcileStart, ReconcileNotFound, SetDefaultValuesOk, HasFinalizer,
       AddFinalizer, HandleDeletion, RemoveFinalizer, StatusPatch, routineVars, effectVars
  <2> QED  BY <1>2, <2>1, <2>2, <2>3, <2>4, <2>5, <2>6, <2>7
           DEF ReconcileStep, ReconcileHookOk, ReconcileHookFailed
<1>3. ASSUME NEW c \in Chans, RoutineStep(c)
      PROVE  Dirty(a)
  <2>1. CASE PeriodicCheckStart(c) \/ PeriodicCheckErr(c)
    <3>1. UNCHANGED deployed
      BY <2>1 DEF PeriodicCheckStart, PeriodicCheckErr, CheckSyncErr, Undisturbed,
                  Calm, effectVars
    <3> QED  BY <1>3, <3>1, RoutineStepKeepsApp DEF Dirty, RunsFor
  <2>2. CASE PeriodicCheckOk(c)
    <3>1. deployed' = [deployed EXCEPT ![routine[c].app] = TRUE] /\ routine[c].pc = "checking"
      BY <2>2 DEF PeriodicCheckOk, CheckSyncOk
    <3>2. deployed'[a] => deployed[a] \/ RunsFor(c, a)
      BY <3>1 DEF RunsFor, TypeOK
    <3> QED  BY <1>3, <3>2, RoutineStepKeepsApp DEF Dirty, RunsFor
  <2> QED  BY <1>3, <2>1, <2>2 DEF RoutineStep
<1>4. ASSUME NEW b \in Apps, UserStep(b) \/ CacheSync(b) \/ Resync(b) \/ HandlerStep(b)
      PROVE  Dirty(a)
  BY <1>1, <1>4 DEF UserStep, CreateApp, EditApp, DeleteApp, ReleaseHold, CacheSync, Resync,
     HandlerStep, ForcedSyncStart, ForcedSyncEnd, NoHandler, routineVars, effectVars
<1>5. CASE Crash
  BY <1>5, RestartDirt DEF Crash
<1>6. CASE UNCHANGED vars
  BY <1>1, <1>6 DEF vars
<1> QED  BY <1>2, <1>3, <1>4, <1>5, <1>6 DEF Next

LEMMA CleanStep ==
    ASSUME Undisturbed, TypeOK, NoHandler, FreshCopy, StoppedBeforeClear,
           ClearedBeforeRemove, AllDefaulted, FinalizersKnown, CleanWithoutFinalizer,
           [Next]_vars
    PROVE  CleanWithoutFinalizer'
<1> SUFFICES ASSUME NEW a \in Apps, Dirty(a)'
             PROVE  obj'[a].fin
  BY DEF CleanWithoutFinalizer
<1>1. obj[a].fin
  BY DirtComes DEF CleanWithoutFinalizer
<1>2. CleanRemoval(a)
  BY RemovalStep
<1> QED  BY <1>1, <1>2 DEF CleanRemoval, Dirty

\* In a calm environment without resyncs and forced syncs, no deployed resource and
\* no routine outlives its Application: for any number of Applications that are
\* created and deleted at any time, lagging caches, conflicts and crashes.
THEOREM NothingOutlives ==
    ASSUME Undisturbed
    PROVE  Spec => []GoneMeansClean
<1> USE DEF Undisturbed
<1>1. Init => NoHandler /\ ClearedBeforeRemove /\ FinalizersKnown /\ CleanWithoutFinalizer
  BY NilAssumption
     DEF Init, Idle, NoRoutine, NoHandler, ClearedBeforeRemove, WorkerAt, FinalizersKnown,
         FinalizerKnown, Busy, CleanWithoutFinalizer, Dirty, RunsFor
<1>2. TypeOK /\ NoHandler /\ [Next]_vars => NoHandler'
  BY Undisturbed, NoHandlerStep
<1>3. TypeOK /\ FreshCopy /\ [Next]_vars => FreshCopy'
  BY FreshCopyStep
<1>4. TypeOK /\ FreshCopy /\ AllDefaulted /\ [Next]_vars => AllDefaulted'
  BY Undisturbed, DefaultedStep
<1>5. /\ TypeOK /\ NoHandler /\ StoppedBeforeClear /\ ClearedBeforeRemove /\ [Next]_vars
      => ClearedBeforeRemove'
  BY ClearedStep
<1>6. TypeOK /\ FreshCopy /\ AllDefaulted /\ FinalizersKnown /\ [Next]_vars
      => FinalizersKnown'
  BY Undisturbed, FinalizersStep
<1>7. /\ TypeOK /\ NoHandler /\ FreshCopy /\ StoppedBeforeClear /\ ClearedBeforeRemove
      /\ AllDefaulted /\ FinalizersKnown /\ CleanWithoutFinalizer /\ [Next]_vars
      => CleanWithoutFinalizer'
  BY Undisturbed, CleanStep
<1>8. FreshCopy /\ CleanWithoutFinalizer => GoneMeansClean
  BY DEF FreshCopy, CleanWithoutFinalizer, Dirty, GoneMeansClean, Settled
<1> QED  BY <1>1, <1>2, <1>3, <1>4, <1>5, <1>6, <1>7, <1>8, DefaultedInit, TypeCorrect,
            ClearIsUndisturbed, PTL DEF Spec
=============================================================================
