---------------------- MODULE WebhookRegistrationProofs ----------------------
(***************************************************************************)
(* Theorems of WebhookRegistration, for every number of secrets, webhooks, *)
(* hosts and crashes.                                                      *)
(***************************************************************************)
EXTENDS WebhookRegistration, TLAPS

(***************************************************************************)
(* Type correctness.                                                       *)
(***************************************************************************)

\* The records the model starts from are of their types.
LEMMA Constants ==
    /\ NotCreated \in Application
    /\ Idle \in Worker
    /\ NoSecret \in 0..MaxSecrets
BY BoundAssumption
   DEF NotCreated, Idle, Application, Worker, HookCond, Address, NoSecret

\* A webhook that is created has its type, and so has the set it joins.
LEMMA CreateHookType ==
    ASSUME TypeOK, NEW addr \in Address, NEW secret \in 0..MaxSecrets,
           NEW by \in {"operator", "user"}, CreateHook(addr, secret, by)
    PROVE  hooks' \subseteq Hook
BY DEF TypeOK, CreateHook, Hook

\* Storing an Application keeps the types of store, informer and worker.
LEMMA StoreType ==
    ASSUME TypeOK, NEW x \in Application, NEW w \in Worker, Store(x, w)
    PROVE  /\ obj' \in Application /\ events' \in Seq(Application)
           /\ cached' \in Application /\ worker' \in Worker
           /\ replaced' \in BOOLEAN
<1>1. [w EXCEPT !.fresh = FALSE] \in Worker
  BY DEF Worker
<1>2. Append(events, x) \in Seq(Application)
  BY DEF TypeOK
<1> QED  BY <1>1, <1>2 DEF TypeOK, Store

\* So does a successful Update.
LEMMA UpdateType ==
    ASSUME TypeOK, NEW x \in Application, UpdateOk(x)
    PROVE  /\ obj' \in Application /\ events' \in Seq(Application)
           /\ cached' \in Application /\ worker' \in Worker
           /\ replaced' \in BOOLEAN
<1>1. worker \in Worker /\ worker.copy \in Application
  BY DEF TypeOK, Worker
<1>2. Reply(x) \in Application
  BY <1>1 DEF Reply, Application
<1>3. Append(events, x) \in Seq(Application)
  BY DEF TypeOK
<1>4. ASSUME NEW c \in Application, NEW f \in BOOLEAN, NEW u \in BOOLEAN
      PROVE  [worker EXCEPT !.pc = "patch", !.copy = c, !.fresh = f,
                            !.updated = u] \in Worker
  BY <1>1 DEF Worker
<1>5. Exists(x) \in BOOLEAN /\ (x # obj) \in BOOLEAN
  BY DEF Exists
<1>6. worker' \in Worker
  BY <1>2, <1>4, <1>5, Zenon DEF UpdateOk
<1>7. /\ events' = events \/ events' = Append(events, x)
      /\ obj' = x /\ cached' = cached /\ replaced' = replaced
  BY DEF UpdateOk
<1> QED  BY <1>3, <1>6, <1>7 DEF TypeOK

\* What the deferred status patch stores is an Application.
LEMMA PatchedType ==
    ASSUME TypeOK
    PROVE  Patched(obj) \in Application
<1>1. /\ obj \in Application /\ worker.copy \in Application
      /\ worker.original \in Application
  BY DEF TypeOK, Worker
<1> QED  BY <1>1 DEF Patched, Application, Conditions

\* The steps of users, informer and expose controller keep the types.
LEMMA EnvironmentType ==
    ASSUME TypeOK,
           \/ CreateApp \/ DeleteApp \/ CacheSync \/ Resync
           \/ (\E h \in Hosts : HostFound(h)) \/ RegisterManually
    PROVE  TypeOK'
<1>1. CASE CreateApp
  <2>1. [NotCreated EXCEPT !.phase = "live"] \in Application
    BY Constants DEF Application
  <2> QED  BY <1>1, <2>1, StoreType DEF CreateApp, TypeOK
<1>2. CASE DeleteApp
  <2>1. [obj EXCEPT !.phase = IF obj.fin THEN "deleting" ELSE "gone"] \in Application
    BY DEF Application, TypeOK
  <2> QED  BY <1>2, <2>1, StoreType DEF DeleteApp, TypeOK
<1>3. CASE CacheSync
  BY <1>3 DEF CacheSync, TypeOK
<1>4. CASE Resync
  BY <1>4 DEF Resync, TypeOK, apiVars
<1>5. CASE \E h \in Hosts : HostFound(h)
  BY <1>5 DEF HostFound, TypeOK, apiVars, Address
<1>6. CASE RegisterManually
  <2>1. obj.secret \in 0..MaxSecrets
    BY DEF TypeOK, Application
  <2>2. hooks' \subseteq Hook
    BY <1>6, <2>1, CreateHookType DEF RegisterManually, TypeOK
  <2> QED  BY <1>6, <2>2 DEF RegisterManually, TypeOK, apiVars
<1> QED  BY <1>1, <1>2, <1>3, <1>4, <1>5, <1>6

\* Conditions of their type keep the worker's.
LEMMA SetHookCondType ==
    ASSUME TypeOK, NEW cond \in HookCond, SetHookCond(cond)
    PROVE  worker' \in Worker
<1>1. worker.copy \in Application
  BY DEF TypeOK, Worker
<1>2. [worker.copy EXCEPT !.hook = cond] \in Application
  BY <1>1 DEF Application
<1> QED  BY <1>2 DEF SetHookCond, TypeOK, Worker

\* The steps up to the webhook's registration keep the types.
LEMMA RegistrationType ==
    ASSUME TypeOK,
           \/ ReconcileStart \/ ReconcileNotFound
           \/ GetGitCliErr \/ ListWebhookOk \/ ListWebhookErr
           \/ RegisterWebhookOk \/ RegisterWebhookLost \/ RegisterWebhookErr
    PROVE  TypeOK'
<1>1. /\ worker.copy \in Application /\ worker.addr \in Address
      /\ {"error", "exists", "ok"} \subseteq HookCond
  BY DEF TypeOK, Worker, HookCond
<1>2. CASE ReconcileStart
  <2>1. Conditioned(cached) \in Application
    BY DEF Conditioned, Application, TypeOK, HookCond
  <2>2. worker' \in Worker
    BY <1>2, <2>1, Constants DEF ReconcileStart, TypeOK, Worker
  <2> QED  BY <1>2, <2>2 DEF ReconcileStart, TypeOK, apiVars
<1>3. CASE ReconcileNotFound
  BY <1>3 DEF ReconcileNotFound, TypeOK, apiVars
<1>4. CASE GetGitCliErr \/ RegisterWebhookErr
  <2>1. worker' \in Worker
    BY <1>1, <1>4, SetHookCondType DEF GetGitCliErr, RegisterWebhookErr
  <2> QED  BY <1>4, <2>1 DEF GetGitCliErr, RegisterWebhookErr, TypeOK, apiVars
<1>5. CASE ListWebhookOk
  <2>1. worker' \in Worker
    <3>1. CASE SetHookCond("exists")
      BY <1>1, <3>1, SetHookCondType
    <3>2. CASE worker' = [worker EXCEPT !.addr = host, !.pc = "register"]
      BY <3>2 DEF TypeOK, Worker
    <3> QED  BY <1>5, <3>1, <3>2 DEF ListWebhookOk
  <2> QED  BY <1>5, <2>1 DEF ListWebhookOk, TypeOK, apiVars
<1>6. CASE ListWebhookErr
  <2>1. [worker.copy EXCEPT !.hook = "error"] \in Application
    BY <1>1 DEF Application
  <2>2. worker' \in Worker
    BY <1>6, <2>1 DEF ListWebhookErr, TypeOK, Worker
  <2> QED  BY <1>6, <2>2 DEF ListWebhookErr, TypeOK, apiVars
<1>7. ASSUME NEW cond \in {"ok", "error"}, RegisterWebhook(cond)
      PROVE  TypeOK'
  <2>1. worker.copy.secret \in 0..MaxSecrets
    BY <1>1 DEF Application
  <2>2. hooks' \subseteq Hook
    BY <1>1, <1>7, <2>1, CreateHookType DEF RegisterWebhook
  <2>3. worker' \in Worker
    BY <1>1, <1>7, SetHookCondType DEF RegisterWebhook
  <2> QED  BY <1>7, <2>2, <2>3 DEF RegisterWebhook, TypeOK, apiVars
<1> QED  BY <1>2, <1>3, <1>4, <1>5, <1>6, <1>7
         DEF RegisterWebhookOk, RegisterWebhookLost

\* The other steps of Reconcile keep the types.
LEMMA CompletionType ==
    ASSUME TypeOK,
           \/ CheckSyncOk \/ CheckSyncErr
           \/ SetDefaultValues \/ SetDefaultValuesErr
           \/ HasFinalizer \/ AddFinalizer \/ HandleDeletion
           \/ FinalizeErr \/ ClearWebhookList
           \/ (\E h \in worker.found : ClearWebhookEntry(h))
           \/ ClearWebhookEnd \/ RemoveFinalizer
           \/ StatusPatch \/ StatusPatchErr
    PROVE  TypeOK'
<1>1. worker.copy \in Application
  BY DEF TypeOK, Worker
<1>2. CASE CheckSyncOk \/ CheckSyncErr
  <2>1. SetReadyCond(worker.copy) \in Application
    BY <1>1 DEF SetReadyCond, Application
  <2>2. worker' \in Worker
    BY <1>2, <2>1 DEF CheckSyncOk, CheckSyncErr, TypeOK, Worker
  <2> QED  BY <1>2, <2>2 DEF CheckSyncOk, CheckSyncErr, TypeOK, apiVars
<1>3. CASE SetDefaultValues
  <2>1. CASE Goto("finalizer")
    BY <1>3, <2>1 DEF SetDefaultValues, Goto, TypeOK, Worker, apiVars
  <2>2. CASE Draw
    <3>1. PICK n \in 1..MaxSecrets :
             worker' = [worker EXCEPT !.copy = [@ EXCEPT !.secret = n],
                                      !.pc = "finalizer"]
      BY <2>2 DEF Draw
    <3>2. [worker.copy EXCEPT !.secret = n] \in Application
      BY <1>1, BoundAssumption DEF Application
    <3>3. worker' \in Worker
      BY <3>1, <3>2 DEF TypeOK, Worker
    <3> QED  BY <1>3, <3>3 DEF SetDefaultValues, TypeOK, apiVars
  <2> QED  BY <1>3, <2>1, <2>2 DEF SetDefaultValues
<1>4. CASE SetDefaultValuesErr \/ HasFinalizer \/ HandleDeletion \/ FinalizeErr
             \/ ClearWebhookList \/ ClearWebhookEnd
  BY <1>4 DEF SetDefaultValuesErr, HasFinalizer, HandleDeletion, FinalizeErr,
              ClearWebhookList, ClearWebhookEnd, Fail, Goto, TypeOK, Worker, apiVars
<1>5. CASE \E h \in worker.found : ClearWebhookEntry(h)
  BY <1>5 DEF ClearWebhookEntry, TypeOK, Worker, apiVars
<1>6. CASE AddFinalizer
  <2>1. [obj EXCEPT !.fin = TRUE] \in Application
    BY DEF Application, TypeOK
  <2>2. CASE UpdateErr
    BY <1>6, <2>2 DEF AddFinalizer, UpdateErr, Fail, TypeOK, Worker, apiVars
  <2>3. CASE UpdateOk([obj EXCEPT !.fin = TRUE])
    BY <1>6, <2>1, <2>3, UpdateType DEF AddFinalizer, TypeOK
  <2> QED  BY <1>6, <2>2, <2>3 DEF AddFinalizer
<1>7. CASE RemoveFinalizer
  <2>1. [obj EXCEPT !.fin = FALSE, !.phase = "gone"] \in Application
    BY DEF Application, TypeOK
  <2>2. CASE UpdateErr
    BY <1>7, <2>2 DEF RemoveFinalizer, UpdateErr, Fail, TypeOK, Worker, apiVars
  <2>3. CASE UpdateOk([obj EXCEPT !.fin = FALSE, !.phase = "gone"])
    BY <1>7, <2>1, <2>3, UpdateType DEF RemoveFinalizer, TypeOK
  <2> QED  BY <1>7, <2>2, <2>3 DEF RemoveFinalizer
<1>8. CASE StatusPatch
  <2>1. CASE Store(Patched(obj), Idle)
    BY <1>8, <2>1, PatchedType, StoreType, Constants DEF StatusPatch, TypeOK
  <2>2. CASE worker' = Idle /\ UNCHANGED apiVars
    BY <1>8, <2>2, Constants DEF StatusPatch, TypeOK, apiVars
  <2> QED  BY <1>8, <2>1, <2>2 DEF StatusPatch
<1>9. CASE StatusPatchErr
  BY <1>9, Constants DEF StatusPatchErr, TypeOK, apiVars
<1> QED  BY <1>2, <1>3, <1>4, <1>5, <1>6, <1>7, <1>8, <1>9

\* Every variable keeps its type in every step.
LEMMA TypeStep == TypeOK /\ [Next]_vars => TypeOK'
<1> SUFFICES ASSUME TypeOK, [Next]_vars
             PROVE  TypeOK'
  OBVIOUS
<1>1. CASE ReconcileStep
  BY <1>1, RegistrationType, CompletionType DEF ReconcileStep
<1>2. CASE Crash
  <2>1. <<>> \in Seq(Application) /\ Exists(obj) \in BOOLEAN
    BY DEF Exists
  <2>2. crashes' \in 0..MaxCrashes
    BY <1>2, BoundAssumption DEF Crash, TypeOK
  <2>3. host' \in Address
    BY <1>2 DEF Crash, TypeOK, Address
  <2> QED  BY <1>2, <2>1, <2>2, <2>3, Constants DEF Crash, TypeOK
<1>3. CASE UNCHANGED vars
  BY <1>3 DEF vars, TypeOK
<1> QED  BY <1>1, <1>2, <1>3, EnvironmentType DEF Next

\* Every variable always has its type.
THEOREM TypeCorrect == Spec => []TypeOK
<1>1. Init => TypeOK
  <2> SUFFICES ASSUME Init
               PROVE  TypeOK
    OBVIOUS
  <2>1. crashes \in 0..MaxCrashes /\ host \in Address
    BY BoundAssumption DEF Init, Address
  <2>2. <<>> \in Seq(Application)
    OBVIOUS
  <2>3. hooks \subseteq Hook
    BY DEF Init
  <2> QED  BY <2>1, <2>2, <2>3, Constants DEF Init, TypeOK
<1> QED  BY <1>1, TypeStep, PTL DEF Spec

(***************************************************************************)
(* One webhook per address.  Between ListWebhook and RegisterWebhook the   *)
(* worker relies on what it has listed: nobody but the worker registers in *)
(* the operator's name, and the address it registers was computed before.  *)
(***************************************************************************)
AddressIsNew ==
    At("register") => \A h \in hooks : h.by = "operator" => h.host # worker.addr

\* No step breaks it, if ListWebhook does not fail.
LEMMA OnceStep ==
    ASSUME "listErr" \notin Env
    PROVE  TypeOK /\ RegisteredOnce /\ AddressIsNew /\ [Next]_vars
             => (RegisteredOnce /\ AddressIsNew)'
<1> SUFFICES ASSUME TypeOK, RegisteredOnce, AddressIsNew, [Next]_vars
             PROVE  (RegisteredOnce /\ AddressIsNew)'
  OBVIOUS
<1> USE DEF RegisteredOnce, AddressIsNew, At
<1>1. CASE hooks' \subseteq hooks /\ worker'.pc # "register"
  BY <1>1
<1>2. CASE hooks' = hooks /\ worker'.pc = worker.pc /\ worker'.addr = worker.addr
  BY <1>2
<1>3. CASE CreateApp \/ DeleteApp
  BY <1>2, <1>3 DEF CreateApp, DeleteApp, Store, TypeOK, Worker
<1>4. CASE \/ CacheSync \/ Resync \/ (\E h \in Hosts : HostFound(h))
           \/ ReconcileNotFound \/ UNCHANGED vars
  BY <1>2, <1>4 DEF CacheSync, Resync, HostFound, ReconcileNotFound, vars, apiVars
<1>5. CASE RegisterManually
  <2>1. PICK i : hooks' = hooks \cup {[id |-> i, host |-> host,
                                       secret |-> obj.secret, by |-> "user"]}
    BY <1>5 DEF RegisterManually, CreateHook
  <2> QED  BY <1>5, <2>1 DEF RegisterManually
<1>6. CASE ListWebhookOk
  <2>1. CASE SetHookCond("exists")
    BY <1>1, <1>6, <2>1 DEF ListWebhookOk, SetHookCond, TypeOK, Worker
  <2>2. CASE /\ ~\E h \in hooks : h.host = host
             /\ worker' = [worker EXCEPT !.addr = host, !.pc = "register"]
    BY <1>6, <2>2 DEF ListWebhookOk, TypeOK, Worker
  <2> QED  BY <1>6, <2>1, <2>2 DEF ListWebhookOk
<1>7. ASSUME NEW cond, RegisterWebhook(cond)
      PROVE  (RegisteredOnce /\ AddressIsNew)'
  <2>1. PICK i : hooks' = hooks \cup {[id |-> i, host |-> worker.addr,
                                       secret |-> worker.copy.secret,
                                       by |-> "operator"]}
    BY <1>7 DEF RegisterWebhook, CreateHook
  <2>2. worker.pc = "register" /\ worker'.pc = "ready"
    BY <1>7 DEF RegisterWebhook, SetHookCond, TypeOK, Worker
  <2> QED  BY <2>1, <2>2
<1>8. CASE ReconcileStart
  <2>1. worker'.pc \in {"list", "ready"} /\ hooks' = hooks
    BY <1>8 DEF ReconcileStart, Idle
  <2> QED  BY <1>1, <2>1
<1>9. CASE \/ GetGitCliErr \/ RegisterWebhookErr \/ CheckSyncOk \/ CheckSyncErr
           \/ SetDefaultValuesErr \/ HasFinalizer \/ HandleDeletion
           \/ FinalizeErr \/ ClearWebhookList \/ ClearWebhookEnd
  <2>1. hooks' = hooks
    BY <1>9 DEF GetGitCliErr, RegisterWebhookErr, CheckSyncOk, CheckSyncErr,
                SetDefaultValuesErr, HasFinalizer, HandleDeletion, FinalizeErr,
                ClearWebhookList, ClearWebhookEnd
  <2>2. CASE GetGitCliErr \/ RegisterWebhookErr
    BY <2>2 DEF GetGitCliErr, RegisterWebhookErr, SetHookCond, TypeOK, Worker
  <2>3. CASE CheckSyncOk \/ CheckSyncErr
    BY <2>3 DEF CheckSyncOk, CheckSyncErr, TypeOK, Worker
  <2>4. CASE SetDefaultValuesErr \/ FinalizeErr
    BY <2>4 DEF SetDefaultValuesErr, FinalizeErr, Fail, TypeOK, Worker
  <2>5. CASE HasFinalizer \/ HandleDeletion \/ ClearWebhookEnd
    BY <2>5 DEF HasFinalizer, HandleDeletion, ClearWebhookEnd, Goto, TypeOK, Worker
  <2>6. CASE ClearWebhookList
    BY <2>6 DEF ClearWebhookList, TypeOK, Worker
  <2> QED  BY <1>1, <1>9, <2>1, <2>2, <2>3, <2>4, <2>5, <2>6
<1>10. CASE SetDefaultValues
  <2>1. worker'.pc = "finalizer" /\ hooks' = hooks
    BY <1>10 DEF SetDefaultValues, Draw, Goto, TypeOK, Worker
  <2> QED  BY <1>1, <2>1
<1>11. CASE AddFinalizer \/ RemoveFinalizer
  <2>1. ASSUME NEW x, UpdateOk(x) \/ UpdateErr
        PROVE  worker'.pc = "patch"
    BY <2>1 DEF UpdateOk, UpdateErr, Fail, TypeOK, Worker
  <2>2. worker'.pc = "patch" /\ hooks' = hooks
    BY <1>11, <2>1 DEF AddFinalizer, RemoveFinalizer
  <2> QED  BY <1>1, <2>2
<1>12. ASSUME NEW h \in worker.found, ClearWebhookEntry(h)
       PROVE  (RegisteredOnce /\ AddressIsNew)'
  <2>1. worker'.pc = "clear" /\ hooks' \subseteq hooks
    BY <1>12 DEF ClearWebhookEntry, TypeOK, Worker
  <2> QED  BY <1>1, <2>1
<1>13. CASE StatusPatch \/ StatusPatchErr
  <2>1. worker'.pc = "idle" /\ hooks' = hooks
    BY <1>13 DEF StatusPatch, StatusPatchErr, Store, Idle
  <2> QED  BY <1>1, <2>1
<1>14. CASE Crash
  BY <1>1, <1>14 DEF Crash, Idle
<1>15. ~ListWebhookErr
  BY DEF ListWebhookErr
<1> QED  BY <1>3, <1>4, <1>5, <1>6, <1>7, <1>8, <1>9, <1>10, <1>11, <1>12, <1>13,
            <1>14, <1>15
         DEF Next, ReconcileStep, RegisterWebhookOk, RegisterWebhookLost

\* While ListWebhook does not fail, setWebhookRegisteredCond registers no second
\* webhook for an address, however many processes, replies and status updates
\* are lost and however old the informer's copy is.
THEOREM NoDuplicateWebhook ==
    ASSUME "listErr" \notin Env
    PROVE  Spec => []RegisteredOnce
<1>1. Init => RegisteredOnce /\ AddressIsNew
  BY DEF Init, RegisteredOnce, AddressIsNew, At, Idle
<1> QED  BY <1>1, OnceStep, TypeCorrect, PTL DEF Spec

(***************************************************************************)
(* Status fields are final in every Reconcile that has read the stored     *)
(* version.  The one worker is the only writer of the status, so what it   *)
(* read is still stored when its patch arrives, and the patch only fills   *)
(* in what was missing.                                                    *)
(***************************************************************************)

\* The informer is on its way to what is stored.
CacheFollows ==
    IF events = <<>> THEN cached = obj ELSE events[Len(events)] = obj

UncreatedIsBlank == obj.phase = "none" => obj.secret = NoSecret /\ ~obj.ready

\* The copy as it was read has the stored status, if it was not old then.
OriginalIsStored ==
    ~At("idle") /\ ~worker.lagged
                => /\ worker.original.secret = obj.secret
                   /\ worker.original.ready = obj.ready

\* The changed copy adds to it and takes nothing back.
CopyExtends ==
    ~At("idle") => /\ \/ worker.copy.secret = worker.original.secret
                      \/ worker.original.secret = NoSecret
                   /\ worker.original.ready => worker.copy.ready

\* A copy that was old when it was read stays old: Update refuses it.
LaggedIsOld == worker.fresh => ~worker.lagged

StatusInv ==
    /\ CacheFollows /\ UncreatedIsBlank
    /\ OriginalIsStored /\ CopyExtends /\ LaggedIsOld

\* A version that is stored is the last the informer will see.
LEMMA AppendFollows ==
    ASSUME TypeOK, NEW x \in Application, obj' = x, events' = Append(events, x)
    PROVE  CacheFollows'
<1>1. /\ Len(events) \in Nat
      /\ Len(Append(events, x)) = Len(events) + 1
      /\ Append(events, x)[Len(events) + 1] = x
  BY DEF TypeOK
<1>2. Append(events, x) # <<>>
  BY <1>1
<1> QED  BY <1>1, <1>2 DEF CacheFollows

\* Delivering one version leaves the last one last.
LEMMA DeliveryFollows ==
    ASSUME TypeOK, CacheFollows, CacheSync
    PROVE  CacheFollows'
<1>1. /\ events \in Seq(Application) /\ events # <<>>
      /\ cached' = Head(events) /\ events' = Tail(events) /\ obj' = obj
      /\ events[Len(events)] = obj
  BY DEF TypeOK, CacheFollows, CacheSync
<1>2. Len(events) \in Nat /\ Len(events) # 0 /\ Len(Tail(events)) = Len(events) - 1
  BY <1>1
<1>3. CASE Len(events) = 1
  <2>1. Tail(events) = <<>> /\ Head(events) = obj
    BY <1>1, <1>2, <1>3
  <2> QED  BY <1>1, <2>1 DEF CacheFollows
<1>4. CASE Len(events) > 1
  <2>1. Tail(events) # <<>>
    BY <1>1, <1>2, <1>4
  <2>2. Tail(events)[Len(events) - 1] = events[Len(events)]
    BY <1>1, <1>2, <1>4
  <2> QED  BY <1>1, <1>2, <2>1, <2>2 DEF CacheFollows
<1> QED  BY <1>2, <1>3, <1>4

\* What a step may do to the status: StatusOnlyGrows of one step.
StatusKept ==
    \/ obj.secret # NoSecret /\ obj'.secret # obj.secret
    \/ obj.ready /\ ~obj'.ready
    => At("patch") /\ worker.lagged

\* The steps that store a version of the same status.
LEMMA StoreSameStatus ==
    ASSUME TypeOK, StatusInv, NEW x \in Application, Store(x, worker),
           x.secret = obj.secret, x.ready = obj.ready,
           x.phase = "none" => obj.phase = "none"
    PROVE  StatusInv' /\ StatusKept
<1>1. /\ worker'.pc = worker.pc /\ worker'.original = worker.original
      /\ worker'.copy = worker.copy /\ worker'.lagged = worker.lagged
      /\ worker'.fresh = FALSE
  BY DEF Store, TypeOK, Worker
<1>2. obj' = x /\ CacheFollows'
  BY AppendFollows DEF Store
<1> QED  BY <1>1, <1>2
         DEF StatusInv, UncreatedIsBlank, OriginalIsStored, CopyExtends,
             LaggedIsOld, StatusKept, At

\* The steps that store nothing and change of the copy at most what is missing.
LEMMA WorkerStep ==
    ASSUME TypeOK, StatusInv, UNCHANGED apiVars,
           ~At("idle"), worker'.original = worker.original,
           worker'.lagged = worker.lagged, worker'.fresh = worker.fresh,
           \/ worker'.copy.secret = worker.copy.secret
           \/ worker.copy.secret = NoSecret,
           worker.copy.ready => worker'.copy.ready
    PROVE  StatusInv' /\ StatusKept
<1>1. obj' = obj /\ CacheFollows' /\ UncreatedIsBlank'
  BY DEF apiVars, StatusInv, CacheFollows, UncreatedIsBlank
<1>2. OriginalIsStored' /\ CopyExtends' /\ LaggedIsOld'
  BY <1>1 DEF StatusInv, OriginalIsStored, CopyExtends, LaggedIsOld, At
<1> QED  BY <1>1, <1>2 DEF StatusInv, StatusKept

\* A worker that is idle afterwards knows nothing that could become untrue.
LEMMA IdleStep ==
    ASSUME StatusInv, worker' = Idle, CacheFollows', UncreatedIsBlank', StatusKept
    PROVE  StatusInv' /\ StatusKept
BY DEF StatusInv, OriginalIsStored, CopyExtends, LaggedIsOld, Idle, At

\* Update stores the same status, and its reply gives the copy what is stored.
LEMMA UpdateKeepsStatus ==
    ASSUME TypeOK, StatusInv, ~At("idle"), NEW x \in Application,
           UpdateOk(x) \/ UpdateErr,
           x.secret = obj.secret, x.ready = obj.ready,
           x.phase = "none" => obj.phase = "none"
    PROVE  StatusInv' /\ StatusKept
<1>1. CASE UpdateErr
  <2>1. /\ worker'.original = worker.original /\ worker'.copy = worker.copy
        /\ worker'.lagged = worker.lagged /\ worker'.fresh = worker.fresh
        /\ UNCHANGED apiVars
    BY <1>1 DEF UpdateErr, Fail, TypeOK, Worker
  <2> QED  BY <2>1, WorkerStep
<1>2. CASE UpdateOk(x)
  <2>1. /\ worker'.original = worker.original /\ worker'.copy = Reply(x)
        /\ worker'.lagged = worker.lagged /\ ~worker.lagged
        /\ obj' = x /\ cached' = cached
        /\ events' = IF x = obj THEN events ELSE Append(events, x)
    BY <1>2 DEF UpdateOk, TypeOK, Worker, StatusInv, LaggedIsOld
  <2>2. CacheFollows'
    <3>1. CASE x = obj
      BY <2>1, <3>1 DEF StatusInv, CacheFollows
    <3>2. CASE x # obj
      BY <2>1, <3>2, AppendFollows
    <3> QED  BY <3>1, <3>2
  <2>3. /\ Reply(x).secret = IF x.secret # NoSecret THEN x.secret
                                                    ELSE worker.copy.secret
        /\ Reply(x).ready = IF x.hook # "none" THEN x.ready ELSE worker.copy.ready
    <3>1. worker.copy \in Application
      BY DEF TypeOK, Worker
    <3> QED  BY <3>1 DEF Reply, Application
  <2>4. OriginalIsStored' /\ CopyExtends'
    BY <2>1, <2>3 DEF StatusInv, OriginalIsStored, CopyExtends, At
  <2>5. LaggedIsOld' /\ UncreatedIsBlank'
    BY <2>1 DEF StatusInv, LaggedIsOld, UncreatedIsBlank
  <2> QED  BY <2>1, <2>2, <2>4, <2>5 DEF StatusInv, StatusKept
<1> QED  BY <1>1, <1>2

\* The deferred patch of a copy that was not old when it was read fills in a
\* missing secret and sets ready, no more.
LEMMA PatchKeepsStatus ==
    ASSUME TypeOK, StatusInv, StatusPatch \/ StatusPatchErr
    PROVE  StatusInv' /\ StatusKept
<1>1. /\ worker.copy \in Application /\ worker.original \in Application
      /\ obj \in Application /\ ~At("idle") /\ At("patch")
  BY DEF TypeOK, Worker, StatusPatch, StatusPatchErr, At
<1>2. /\ ~worker.lagged /\ obj.secret # NoSecret => Patched(obj).secret = obj.secret
      /\ ~worker.lagged /\ obj.ready => Patched(obj).ready
      /\ Patched(obj).phase = obj.phase
  BY <1>1 DEF Patched, Application, StatusInv, OriginalIsStored, CopyExtends,
              Conditions
<1>3. CASE Store(Patched(obj), Idle) /\ Patched(obj) # obj
  <2>1. worker' = Idle /\ obj' = Patched(obj)
    BY <1>3 DEF Store, Idle
  <2>2. CacheFollows'
    BY <1>3, PatchedType, AppendFollows DEF Store
  <2>3. UncreatedIsBlank'
    <3>1. Exists(obj)
      BY <1>3 DEF Patched
    <3> QED  BY <1>2, <2>1, <3>1 DEF UncreatedIsBlank, Exists
  <2> QED  BY <1>1, <1>2, <2>1, <2>2, <2>3, IdleStep DEF StatusKept
<1>4. CASE worker' = Idle /\ UNCHANGED apiVars
  <2>1. CacheFollows' /\ UncreatedIsBlank' /\ StatusKept
    BY <1>4 DEF apiVars, StatusInv, CacheFollows, UncreatedIsBlank, StatusKept
  <2> QED  BY <1>4, <2>1, IdleStep
<1> QED  BY <1>3, <1>4 DEF StatusPatch, StatusPatchErr

\* A Reconcile that starts when every version has been seen reads what is stored.
LEMMA StartKeepsStatus ==
    ASSUME TypeOK, StatusInv, ReconcileStart
    PROVE  StatusInv' /\ StatusKept
<1>1. /\ UNCHANGED <<obj, events, cached>>
      /\ worker'.original = cached /\ worker'.copy = Conditioned(cached)
      /\ worker'.fresh = (events = <<>>) /\ worker'.lagged = (events # <<>>)
  BY DEF ReconcileStart, Idle, apiVars
<1>2. events = <<>> => cached = obj
  BY DEF StatusInv, CacheFollows
<1>3. /\ Conditioned(cached).secret = cached.secret
      /\ Conditioned(cached).ready = cached.ready
  BY DEF Conditioned, Application, TypeOK
<1> QED  BY <1>1, <1>2, <1>3
         DEF StatusInv, CacheFollows, UncreatedIsBlank, OriginalIsStored,
             CopyExtends, LaggedIsOld, StatusKept

\* The steps between the start and handleFinalizer.
LEMMA RegistrationKeepsStatus ==
    ASSUME TypeOK, StatusInv,
           \/ GetGitCliErr \/ ListWebhookOk \/ ListWebhookErr
           \/ RegisterWebhookOk \/ RegisterWebhookLost \/ RegisterWebhookErr
           \/ CheckSyncOk \/ CheckSyncErr
           \/ SetDefaultValues \/ SetDefaultValuesErr
    PROVE  StatusInv' /\ StatusKept
<1>1. worker \in Worker /\ worker.copy \in Application
  BY DEF TypeOK, Worker
<1>2. ASSUME NEW cond, SetHookCond(cond), ~At("idle"), UNCHANGED apiVars
      PROVE  StatusInv' /\ StatusKept
  <2>1. /\ worker'.original = worker.original
        /\ worker'.lagged = worker.lagged /\ worker'.fresh = worker.fresh
        /\ worker'.copy.secret = worker.copy.secret
        /\ worker'.copy.ready = worker.copy.ready
    BY <1>1, <1>2 DEF SetHookCond, Worker, Application
  <2> QED  BY <1>2, <2>1, WorkerStep
<1>3. CASE GetGitCliErr \/ RegisterWebhookErr
  BY <1>2, <1>3 DEF GetGitCliErr, RegisterWebhookErr, At
<1>4. ASSUME NEW c \in Application, c.secret = worker.copy.secret,
             c.ready = worker.copy.ready, At("list"), UNCHANGED apiVars,
             worker' = [worker EXCEPT !.addr = host, !.pc = "register", !.copy = c]
      PROVE  StatusInv' /\ StatusKept
  <2>1. /\ worker'.original = worker.original /\ worker'.copy = c
        /\ worker'.lagged = worker.lagged /\ worker'.fresh = worker.fresh
        /\ ~At("idle")
    BY <1>1, <1>4 DEF Worker, At
  <2> QED  BY <1>4, <2>1, WorkerStep
<1>5. CASE ListWebhookOk
  <2>1. CASE SetHookCond("exists")
    BY <1>2, <1>5, <2>1 DEF ListWebhookOk, At
  <2>2. CASE worker' = [worker EXCEPT !.addr = host, !.pc = "register"]
    <3>1. worker' = [worker EXCEPT !.addr = host, !.pc = "register",
                                   !.copy = worker.copy]
      BY <1>1, <2>2 DEF Worker
    <3> QED  BY <1>1, <1>4, <1>5, <3>1 DEF ListWebhookOk
  <2> QED  BY <1>5, <2>1, <2>2 DEF ListWebhookOk
<1>6. CASE ListWebhookErr
  <2>1. /\ [worker.copy EXCEPT !.hook = "error"] \in Application
        /\ [worker.copy EXCEPT !.hook = "error"].secret = worker.copy.secret
        /\ [worker.copy EXCEPT !.hook = "error"].ready = worker.copy.ready
    BY <1>1 DEF Application, HookCond
  <2> QED  BY <1>4, <1>6, <2>1 DEF ListWebhookErr
<1>7. ASSUME NEW cond, RegisterWebhook(cond)
      PROVE  StatusInv' /\ StatusKept
  BY <1>2, <1>7 DEF RegisterWebhook, At
<1>8. CASE CheckSyncOk \/ CheckSyncErr
  <2>1. /\ SetReadyCond(worker.copy).secret = worker.copy.secret
        /\ worker.copy.ready => SetReadyCond(worker.copy).ready
    BY <1>1 DEF SetReadyCond, Application
  <2>2. /\ worker'.original = worker.original
        /\ worker'.lagged = worker.lagged /\ worker'.fresh = worker.fresh
        /\ worker'.copy = SetReadyCond(worker.copy) /\ ~At("idle")
        /\ UNCHANGED apiVars
    BY <1>1, <1>8 DEF CheckSyncOk, CheckSyncErr, Worker, At
  <2> QED  BY <2>1, <2>2, WorkerStep
<1>9. CASE SetDefaultValues
  <2>1. /\ worker'.original = worker.original
        /\ worker'.lagged = worker.lagged /\ worker'.fresh = worker.fresh
        /\ worker'.copy.ready = worker.copy.ready
        /\ \/ worker'.copy.secret = worker.copy.secret
           \/ worker.copy.secret = NoSecret
    <3>1. CASE Goto("finalizer")
      BY <1>1, <3>1 DEF Goto, Worker
    <3>2. ASSUME NEW s \in 0..MaxSecrets, worker.copy.secret = NoSecret,
                 worker' = [worker EXCEPT !.copy = [@ EXCEPT !.secret = s],
                                          !.pc = "finalizer"]
          PROVE  /\ worker'.original = worker.original
                 /\ worker'.lagged = worker.lagged /\ worker'.fresh = worker.fresh
                 /\ worker'.copy.ready = worker.copy.ready
      BY <1>1, <3>2 DEF Worker, Application
    <3>3. 1..MaxSecrets \subseteq 0..MaxSecrets
      BY BoundAssumption
    <3> QED  BY <1>9, <3>1, <3>2, <3>3 DEF SetDefaultValues, Draw
  <2> QED  BY <1>9, <2>1, WorkerStep DEF SetDefaultValues, At
<1>10. CASE SetDefaultValuesErr
  <2>1. /\ worker'.original = worker.original /\ worker'.copy = worker.copy
        /\ worker'.lagged = worker.lagged /\ worker'.fresh = worker.fresh
    BY <1>1, <1>10 DEF SetDefaultValuesErr, Fail, Worker
  <2> QED  BY <1>10, <2>1, WorkerStep DEF SetDefaultValuesErr, At
<1> QED  BY <1>3, <1>5, <1>6, <1>7, <1>8, <1>9, <1>10
         DEF RegisterWebhookOk, RegisterWebhookLost

\* handleFinalizer's steps.
LEMMA FinalizerKeepsStatus ==
    ASSUME TypeOK, StatusInv,
           \/ HasFinalizer \/ AddFinalizer \/ HandleDeletion
           \/ FinalizeErr \/ ClearWebhookList
           \/ (\E h \in worker.found : ClearWebhookEntry(h))
           \/ ClearWebhookEnd \/ RemoveFinalizer
    PROVE  StatusInv' /\ StatusKept
<1>1. worker \in Worker /\ obj \in Application
  BY DEF TypeOK
<1>2. CASE \/ HasFinalizer \/ HandleDeletion \/ FinalizeErr \/ ClearWebhookList
           \/ ClearWebhookEnd \/ (\E h \in worker.found : ClearWebhookEntry(h))
  <2>1. ~At("idle") /\ UNCHANGED apiVars
    BY <1>2 DEF HasFinalizer, HandleDeletion, FinalizeErr, ClearWebhookList,
                ClearWebhookEnd, ClearWebhookEntry, At
  <2>2. /\ worker'.original = worker.original /\ worker'.copy = worker.copy
        /\ worker'.lagged = worker.lagged /\ worker'.fresh = worker.fresh
    BY <1>1, <1>2
       DEF HasFinalizer, HandleDeletion, FinalizeErr, ClearWebhookList,
           ClearWebhookEnd, ClearWebhookEntry, Goto, Fail, Worker, At
  <2> QED  BY <2>1, <2>2, WorkerStep
<1>3. ASSUME NEW x \in Application, x.secret = obj.secret, x.ready = obj.ready,
             x.phase = "none" => obj.phase = "none", UpdateOk(x) \/ UpdateErr, ~At("idle")
      PROVE  StatusInv' /\ StatusKept
  BY <1>3, UpdateKeepsStatus
<1>4. CASE AddFinalizer
  <2> DEFINE x == [obj EXCEPT !.fin = TRUE]
  <2>1. ~At("idle") /\ (UpdateOk(x) \/ UpdateErr)
    BY <1>4 DEF AddFinalizer, At
  <2>2. /\ x \in Application /\ x.secret = obj.secret /\ x.ready = obj.ready
        /\ x.phase = obj.phase
    BY <1>1 DEF Application
  <2> QED  BY <1>3, <2>1, <2>2
<1>5. CASE RemoveFinalizer
  <2> DEFINE x == [obj EXCEPT !.fin = FALSE, !.phase = "gone"]
  <2>1. ~At("idle") /\ (UpdateOk(x) \/ UpdateErr)
    BY <1>5 DEF RemoveFinalizer, At
  <2>2. /\ x \in Application /\ x.secret = obj.secret /\ x.ready = obj.ready
        /\ x.phase # "none"
    BY <1>1 DEF Application
  <2> QED  BY <1>3, <2>1, <2>2
<1> QED  BY <1>2, <1>4, <1>5

\* Nothing that users, informer, worker or a crash do takes a status field back,
\* but the patch of a copy that was old when it was read.
LEMMA StatusStep == TypeOK /\ StatusInv /\ [Next]_vars => StatusInv' /\ StatusKept
<1> SUFFICES ASSUME TypeOK, StatusInv, [Next]_vars
             PROVE  StatusInv' /\ StatusKept
  OBVIOUS
<1>1. obj \in Application
  BY DEF TypeOK
<1>2. CASE CreateApp
  <2> DEFINE x == [NotCreated EXCEPT !.phase = "live"]
  <2>1. /\ x \in Application /\ x.secret = NoSecret /\ x.ready = FALSE
        /\ x.phase = "live"
    BY Constants DEF NotCreated, Application
  <2>2. obj.secret = NoSecret /\ obj.ready = FALSE
    BY <1>1, <1>2 DEF CreateApp, StatusInv, UncreatedIsBlank, Application
  <2> QED  BY <1>2, <2>1, <2>2, StoreSameStatus DEF CreateApp
<1>3. CASE DeleteApp
  <2> DEFINE x == [obj EXCEPT !.phase = IF obj.fin THEN "deleting" ELSE "gone"]
  <2>1. /\ x \in Application /\ x.secret = obj.secret /\ x.ready = obj.ready
        /\ x.phase # "none"
    BY <1>1 DEF Application
  <2> QED  BY <1>3, <2>1, StoreSameStatus DEF DeleteApp
<1>4. CASE CacheSync
  <2>1. CacheFollows'
    BY <1>4, DeliveryFollows DEF StatusInv
  <2> QED  BY <1>4, <2>1
           DEF CacheSync, StatusInv, UncreatedIsBlank, OriginalIsStored, CopyExtends,
               LaggedIsOld, StatusKept, At
<1>5. CASE UNCHANGED <<apiVars, worker>>
  BY <1>5 DEF apiVars, StatusInv, CacheFollows, UncreatedIsBlank, OriginalIsStored,
              CopyExtends, LaggedIsOld, StatusKept, At
<1>6. CASE Resync \/ ReconcileNotFound \/ (\E h \in Hosts : HostFound(h))
             \/ RegisterManually \/ UNCHANGED vars
  BY <1>5, <1>6
     DEF Resync, ReconcileNotFound, HostFound, RegisterManually, vars, apiVars
<1>7. CASE Crash
  <2>1. worker' = Idle /\ CacheFollows' /\ UncreatedIsBlank' /\ StatusKept
    BY <1>7 DEF Crash, CacheFollows, StatusInv, UncreatedIsBlank, StatusKept
  <2> QED  BY <2>1, IdleStep
<1> QED  BY <1>2, <1>3, <1>4, <1>6, <1>7, StartKeepsStatus,
            RegistrationKeepsStatus, FinalizerKeepsStatus, PatchKeepsStatus
         DEF Next, ReconcileStep

\* A Reconcile that has read the stored version never replaces Status.Secrets and
\* never takes readiness back, however far other Reconciles' copies lag,
\* whatever calls fail and whenever the process is killed.
THEOREM StatusIsFinal == Spec => StatusOnlyGrows
<1>1. Init => StatusInv
  BY DEF Init, StatusInv, CacheFollows, UncreatedIsBlank, OriginalIsStored,
         CopyExtends, LaggedIsOld, NotCreated, Idle, At
<1>2. StatusKept => [\/ obj.secret # NoSecret /\ obj'.secret # obj.secret
                     \/ obj.ready /\ ~obj'.ready
                     => At("patch") /\ worker.lagged]_vars
  BY DEF StatusKept
<1> QED  BY <1>1, <1>2, StatusStep, TypeCorrect, PTL
         DEF Spec, StatusOnlyGrows

(***************************************************************************)
(* One secret.  Until a stored secret is replaced, every version that the  *)
(* informer has seen or will see has this secret or none, so a Reconcile   *)
(* on however old a copy registers with it or not at all.                  *)
(***************************************************************************)
StoredOrNone(secret) == secret \in {NoSecret, obj.secret}

OneSecret ==
    /\ StoredOrNone(cached.secret)
    /\ \A i \in 1..Len(events) : StoredOrNone(events[i].secret)
    /\ At("list") \/ At("register")
         => worker.copy.secret = obj.secret /\ obj.secret # NoSecret
    /\ \A h \in hooks : h.secret = obj.secret /\ obj.secret # NoSecret

SecretInv == ~replaced => OneSecret

\* A version is stored whose secret is new, or the one that was stored before.
LEMMA StoredSecret ==
    ASSUME TypeOK, SecretInv, NEW x \in Application, obj' = x,
           events' = events \/ events' = Append(events, x),
           UNCHANGED <<cached, hooks>>,
           x.secret = obj.secret \/ obj.secret = NoSecret \/ replaced',
           ~replaced' => ~replaced,
           worker'.pc \in {"list", "register"}
             => worker'.pc = worker.pc /\ worker'.copy = worker.copy
    PROVE  SecretInv'
<1> SUFFICES ASSUME ~replaced'
             PROVE  OneSecret'
  BY DEF SecretInv
<1>1. OneSecret /\ (x.secret = obj.secret \/ obj.secret = NoSecret)
  BY DEF SecretInv
<1>2. \A i \in 1..Len(events') : events'[i].secret \in {NoSecret, obj'.secret}
  <2>1. events \in Seq(Application) /\ Len(events) \in Nat
    BY DEF TypeOK
  <2>2. CASE events' = events
    BY <1>1, <2>2 DEF OneSecret, StoredOrNone
  <2>3. CASE events' = Append(events, x)
    <3>1. /\ Len(events') = Len(events) + 1 /\ events'[Len(events) + 1] = x
          /\ \A i \in 1..Len(events) : events'[i] = events[i]
      BY <2>1, <2>3
    <3>2. \A i \in 1..Len(events') : i \in 1..Len(events) \/ i = Len(events) + 1
      BY <2>1, <3>1
    <3> QED  BY <1>1, <3>1, <3>2 DEF OneSecret, StoredOrNone
  <2> QED  BY <2>2, <2>3
<1> QED  BY <1>1, <1>2 DEF OneSecret, StoredOrNone, At

\* Steps of users, informer and expose controller, and the end of the process.
LEMMA EnvironmentKeepsSecret ==
    ASSUME TypeOK, StatusInv, SecretInv,
           \/ CreateApp \/ DeleteApp \/ CacheSync \/ Resync
           \/ (\E h \in Hosts : HostFound(h)) \/ RegisterManually
           \/ ReconcileNotFound \/ Crash \/ UNCHANGED vars
    PROVE  SecretInv'
<1>1. obj \in Application /\ worker \in Worker
  BY DEF TypeOK
<1>2. ASSUME NEW x \in Application, Store(x, worker), x.secret = obj.secret,
             UNCHANGED hooks
      PROVE  SecretInv'
  <2>1. worker'.pc = worker.pc /\ worker'.copy = worker.copy
    BY <1>1, <1>2 DEF Store, Worker
  <2> QED  BY <1>2, <2>1, StoredSecret DEF Store
<1>3. CASE CreateApp
  <2> DEFINE x == [NotCreated EXCEPT !.phase = "live"]
  <2>1. x \in Application /\ x.secret = NoSecret
    BY Constants DEF NotCreated, Application
  <2>2. obj.secret = NoSecret
    BY <1>3 DEF CreateApp, StatusInv, UncreatedIsBlank
  <2> QED  BY <1>2, <1>3, <2>1, <2>2 DEF CreateApp
<1>4. CASE DeleteApp
  <2> DEFINE x == [obj EXCEPT !.phase = IF obj.fin THEN "deleting" ELSE "gone"]
  <2>1. x \in Application /\ x.secret = obj.secret
    BY <1>1 DEF Application
  <2> QED  BY <1>2, <1>4, <2>1 DEF DeleteApp
<1>5. CASE CacheSync
  <2>1. /\ events \in Seq(Application) /\ events # <<>> /\ cached' = Head(events)
        /\ events' = Tail(events) /\ UNCHANGED <<obj, worker, hooks, replaced>>
    BY <1>5 DEF CacheSync, TypeOK
  <2>2. /\ Len(events) \in Nat /\ Len(events) # 0 /\ Head(events) = events[1]
        /\ Len(Tail(events)) = Len(events) - 1
        /\ \A i \in 1..Len(Tail(events)) : Tail(events)[i] = events[i + 1]
    BY <2>1
  <2>3. /\ 1 \in 1..Len(events)
        /\ \A i \in 1..Len(Tail(events)) : i + 1 \in 1..Len(events)
    BY <2>2
  <2> QED  BY <2>1, <2>2, <2>3 DEF SecretInv, OneSecret, StoredOrNone, At
<1>6. CASE UNCHANGED <<apiVars, worker, hooks>>
  BY <1>6 DEF apiVars, SecretInv, OneSecret, StoredOrNone, At
<1>7. CASE Resync \/ ReconcileNotFound \/ (\E h \in Hosts : HostFound(h))
             \/ UNCHANGED vars
  BY <1>6, <1>7 DEF Resync, ReconcileNotFound, HostFound, vars, apiVars
<1>8. CASE RegisterManually
  <2>1. /\ UNCHANGED <<apiVars, worker>> /\ obj.secret # NoSecret
        /\ \A h \in hooks' : h \in hooks \/ h.secret = obj.secret
    BY <1>8 DEF RegisterManually, CreateHook
  <2> QED  BY <2>1 DEF apiVars, SecretInv, OneSecret, StoredOrNone, At
<1>9. CASE Crash
  <2>1. /\ cached' = obj /\ events' = <<>> /\ worker'.pc = "idle"
        /\ UNCHANGED <<obj, hooks, replaced>>
    BY <1>9 DEF Crash, Idle
  <2>2. 1..Len(events') = {}
    BY <2>1
  <2> QED  BY <2>1, <2>2 DEF SecretInv, OneSecret, StoredOrNone, At
<1> QED  BY <1>3, <1>4, <1>5, <1>7, <1>8, <1>9

\* Steps of the worker that store nothing and register nothing.
LEMMA WorkerKeepsSecret ==
    ASSUME SecretInv, UNCHANGED apiVars, hooks' \subseteq hooks,
           worker'.pc \in {"list", "register"}
             => worker.pc = "list" /\ worker'.copy.secret = worker.copy.secret
    PROVE  SecretInv'
BY DEF apiVars, SecretInv, OneSecret, StoredOrNone, At

\* The steps of Reconcile.
LEMMA ReconcileKeepsSecret ==
    ASSUME TypeOK, SecretInv, ReconcileStep, ~ReconcileNotFound
    PROVE  SecretInv'
<1>1. /\ worker \in Worker /\ worker.copy \in Application /\ obj \in Application
  BY DEF TypeOK, Worker
<1>2. ASSUME NEW cond, SetHookCond(cond)
      PROVE  worker'.pc = "ready"
  BY <1>1, <1>2 DEF SetHookCond, Worker
<1>3. CASE ReconcileStart
  <2>1. /\ UNCHANGED <<apiVars, hooks>>
        /\ worker'.pc = IF NeedsHook(cached) THEN "list" ELSE "ready"
        /\ worker'.copy = Conditioned(cached)
    BY <1>3 DEF ReconcileStart, Idle
  <2>2. Conditioned(cached).secret = cached.secret
    BY DEF Conditioned, Application, TypeOK
  <2>3. NeedsHook(cached) => cached.secret # NoSecret
    BY DEF NeedsHook
  <2> QED  BY <2>1, <2>2, <2>3 DEF apiVars, SecretInv, OneSecret, StoredOrNone, At
<1>4. CASE GetGitCliErr \/ RegisterWebhookErr \/ CheckSyncOk \/ CheckSyncErr
  <2>1. worker'.pc \notin {"list", "register"} /\ UNCHANGED <<apiVars, hooks>>
    BY <1>1, <1>2, <1>4 DEF GetGitCliErr, RegisterWebhookErr, CheckSyncOk,
                            CheckSyncErr, Worker
  <2> QED  BY <2>1, WorkerKeepsSecret
<1>5. CASE ListWebhookOk \/ ListWebhookErr
  <2>1. worker.pc = "list" /\ UNCHANGED <<apiVars, hooks>>
    BY <1>5 DEF ListWebhookOk, ListWebhookErr, At
  <2>2. ASSUME NEW c
        PROVE  [worker.copy EXCEPT !.hook = c].secret = worker.copy.secret
    BY <1>1 DEF Application
  <2>3. worker'.copy = worker.copy
          \/ \E c : worker'.copy = [worker.copy EXCEPT !.hook = c]
    <3>1. ASSUME NEW c, SetHookCond(c)
          PROVE  worker'.copy = [worker.copy EXCEPT !.hook = c]
      BY <1>1, <3>1 DEF SetHookCond, Worker
    <3>2. CASE worker' = [worker EXCEPT !.addr = host, !.pc = "register"]
      BY <1>1, <3>2 DEF Worker
    <3>3. CASE ListWebhookErr
      BY <1>1, <3>3 DEF ListWebhookErr, Worker
    <3> QED  BY <1>5, <3>1, <3>2, <3>3 DEF ListWebhookOk
  <2> QED  BY <2>1, <2>2, <2>3, WorkerKeepsSecret
<1>6. ASSUME NEW cond, RegisterWebhook(cond)
      PROVE  SecretInv'
  <2>1. /\ At("register") /\ worker'.pc = "ready" /\ UNCHANGED apiVars
        /\ \A h \in hooks' : h \in hooks \/ h.secret = worker.copy.secret
    BY <1>2, <1>6 DEF RegisterWebhook, CreateHook
  <2> QED  BY <2>1 DEF apiVars, SecretInv, OneSecret, StoredOrNone, At
<1>7. CASE SetDefaultValues \/ SetDefaultValuesErr
  <2>1. worker'.pc \in {"finalizer", "patch"} /\ UNCHANGED <<apiVars, hooks>>
    BY <1>1, <1>7 DEF SetDefaultValues, SetDefaultValuesErr, Draw, Goto, Fail, Worker
  <2> QED  BY <2>1, WorkerKeepsSecret
<1>8. CASE \/ HasFinalizer \/ HandleDeletion \/ FinalizeErr \/ ClearWebhookList
           \/ ClearWebhookEnd \/ (\E h \in worker.found : ClearWebhookEntry(h))
  <2>1. /\ worker'.pc \notin {"list", "register"} /\ UNCHANGED apiVars
        /\ hooks' \subseteq hooks
    BY <1>1, <1>8
       DEF HasFinalizer, HandleDeletion, FinalizeErr, ClearWebhookList,
           ClearWebhookEnd, ClearWebhookEntry, Goto, Fail, Worker, At
  <2> QED  BY <2>1, WorkerKeepsSecret
<1>9. CASE AddFinalizer \/ RemoveFinalizer
  <2>1. UNCHANGED hooks
    BY <1>9 DEF AddFinalizer, RemoveFinalizer
  <2>2. CASE UpdateErr
    <3>1. worker'.pc = "patch" /\ UNCHANGED apiVars
      BY <1>1, <2>2 DEF UpdateErr, Fail, Worker
    <3> QED  BY <2>1, <3>1, WorkerKeepsSecret
  <2>3. ASSUME NEW x \in Application, UpdateOk(x), x.secret = obj.secret
        PROVE  SecretInv'
    <3>1. worker'.pc = "patch"
      BY <1>1, <2>3 DEF UpdateOk, Worker
    <3> QED  BY <2>1, <2>3, <3>1, StoredSecret DEF UpdateOk
  <2> DEFINE added   == [obj EXCEPT !.fin = TRUE]
             removed == [obj EXCEPT !.fin = FALSE, !.phase = "gone"]
  <2>4. /\ added \in Application /\ added.secret = obj.secret
        /\ removed \in Application /\ removed.secret = obj.secret
    BY <1>1 DEF Application
  <2>5. UpdateErr \/ UpdateOk(added) \/ UpdateOk(removed)
    BY <1>9 DEF AddFinalizer, RemoveFinalizer
  <2> HIDE DEF added, removed
  <2> QED  BY <2>2, <2>3, <2>4, <2>5
<1>10. CASE StatusPatch \/ StatusPatchErr
  <2>1. worker'.pc = "idle" /\ UNCHANGED hooks
    BY <1>10 DEF StatusPatch, StatusPatchErr, Store, Idle
  <2>2. CASE Store(Patched(obj), Idle)
    BY <2>1, <2>2, PatchedType, StoredSecret DEF Store
  <2>3. CASE UNCHANGED apiVars
    BY <2>1, <2>3, WorkerKeepsSecret
  <2> QED  BY <1>10, <2>2, <2>3 DEF StatusPatch, StatusPatchErr
<1> QED  BY <1>3, <1>4, <1>5, <1>6, <1>7, <1>8, <1>9, <1>10
         DEF ReconcileStep, RegisterWebhookOk, RegisterWebhookLost

LEMMA SecretStep ==
    TypeOK /\ StatusInv /\ SecretInv /\ [Next]_vars => SecretInv'
BY EnvironmentKeepsSecret, ReconcileKeepsSecret DEF Next, ReconcileStep

\* Until a stored secret is replaced, every webhook of a living Application
\* carries the secret that deliveries are checked against: at every lag.
THEOREM WebhooksVerify == Spec => []DeliveriesVerify
<1>1. Init => StatusInv
  BY DEF Init, StatusInv, CacheFollows, UncreatedIsBlank, OriginalIsStored,
         CopyExtends, LaggedIsOld, NotCreated, Idle, At
<1>2. Init => SecretInv
  <2>1. 1..Len(<<>>) = {}
    OBVIOUS
  <2> QED  BY <2>1 DEF Init, SecretInv, OneSecret, StoredOrNone, NotCreated, Idle, At
<1>3. SecretInv => DeliveriesVerify
  BY DEF SecretInv, OneSecret, DeliveriesVerify
<1> QED  BY <1>1, <1>2, <1>3, StatusStep, SecretStep, TypeCorrect, PTL DEF Spec

\* With an informer that has always caught up no secret is ever replaced.
Current == ~worker.lagged /\ ~replaced

LEMMA CurrentStep ==
    ASSUME MaxLag = 0, TypeOK, StatusInv, Current, [Next]_vars
    PROVE  Current'
<1>1. worker \in Worker
  BY DEF TypeOK
<1>2. ASSUME NEW x, NEW w \in Worker, ~w.lagged, Store(x, w)
      PROVE  Current'
  <2>1. obj' = x /\ ~worker'.lagged
    BY <1>2 DEF Store, Worker
  <2>2. StatusKept /\ ~worker.lagged
    BY StatusStep DEF Current
  <2> QED  BY <1>2, <2>1, <2>2 DEF Store, StatusKept, Current
<1>3. CASE worker'.lagged = worker.lagged /\ replaced' = replaced
  BY <1>3 DEF Current
<1>4. CASE worker' = Idle /\ replaced' = replaced
  BY <1>4 DEF Current, Idle
<1>5. CASE CreateApp \/ DeleteApp
  BY <1>1, <1>2, <1>5 DEF CreateApp, DeleteApp, Current
<1>6. CASE StatusPatch \/ StatusPatchErr
  BY <1>2, <1>4, <1>6, Constants DEF StatusPatch, StatusPatchErr, apiVars, Idle
<1>7. CASE \/ CacheSync \/ Resync \/ (\E h \in Hosts : HostFound(h))
           \/ RegisterManually \/ ReconcileNotFound \/ UNCHANGED vars
  BY <1>3, <1>7 DEF CacheSync, Resync, HostFound, RegisterManually,
                    ReconcileNotFound, vars, apiVars
<1>8. CASE Crash
  BY <1>4, <1>8 DEF Crash
<1>9. CASE ReconcileStart
  <2>1. events = <<>>
    BY <1>9 DEF ReconcileStart, TypeOK
  <2> QED  BY <1>9, <2>1 DEF ReconcileStart, Current, Idle, apiVars
<1>10. ASSUME NEW cond, SetHookCond(cond)
       PROVE  worker'.lagged = worker.lagged
  BY <1>1, <1>10 DEF SetHookCond, Worker
<1>11. CASE \/ GetGitCliErr \/ ListWebhookOk \/ ListWebhookErr
            \/ RegisterWebhookOk \/ RegisterWebhookLost \/ RegisterWebhookErr
  BY <1>1, <1>3, <1>10, <1>11
     DEF GetGitCliErr, ListWebhookOk, ListWebhookErr, RegisterWebhookOk,
         RegisterWebhookLost, RegisterWebhook, RegisterWebhookErr, Worker, apiVars
<1>12. CASE CheckSyncOk \/ CheckSyncErr \/ SetDefaultValues \/ SetDefaultValuesErr
  BY <1>1, <1>3, <1>12
     DEF CheckSyncOk, CheckSyncErr, SetDefaultValues, SetDefaultValuesErr, Draw,
         Goto, Fail, Worker, apiVars
<1>13. CASE \/ HasFinalizer \/ HandleDeletion \/ FinalizeErr \/ ClearWebhookList
            \/ ClearWebhookEnd \/ (\E h \in worker.found : ClearWebhookEntry(h))
  BY <1>1, <1>3, <1>13
     DEF HasFinalizer, HandleDeletion, FinalizeErr, ClearWebhookList,
         ClearWebhookEnd, ClearWebhookEntry, Goto, Fail, Worker, apiVars
<1>14. CASE AddFinalizer \/ RemoveFinalizer
  <2>1. ASSUME NEW x, UpdateOk(x) \/ UpdateErr
        PROVE  worker'.lagged = worker.lagged /\ replaced' = replaced
    BY <1>1, <2>1 DEF UpdateOk, UpdateErr, Fail, Worker, apiVars
  <2> QED  BY <1>3, <1>14, <2>1 DEF AddFinalizer, RemoveFinalizer
<1> QED  BY <1>5, <1>6, <1>7, <1>8, <1>9, <1>11, <1>12, <1>13, <1>14
         DEF Next, ReconcileStep

(***************************************************************************)
(* What the status says of webhooks.  While Reconciles start from what is   *)
(* stored, Update fails only for an old copy and the host stays: webhooks   *)
(* are registered for an Application with finalizer only, and the finalizer *)
(* goes when the loop of clearWebhook has met them all.                     *)
(***************************************************************************)
Untroubled == MaxLag = 0 /\ "updateErr" \notin Env /\ "hosts" \notin Env

Operators == {h \in hooks : h.by = "operator"}

\* The secret is stored after the finalizer, and with it an object goes.
FinalizerFirst ==
    /\ obj.fin => Exists(obj)
    /\ obj.phase = "deleting" => obj.fin
    /\ obj.phase = "live" /\ obj.secret # NoSecret => obj.fin

\* What a copy says of finalizer, deletion and secret is stored, until it is
\* patched; a copy becomes old by a deletion only.
CopyKnows ==
    ~At("idle") =>
        /\ obj.phase # "none"
        /\ worker.copy.phase = "deleting" => obj.phase # "live"
        /\ obj.phase = "live" /\ worker.copy.secret # NoSecret
             => obj.fin \/ At("finalizer")
        /\ ~At("patch") =>
             /\ worker.copy.fin => obj.fin
             /\ worker.copy.phase = "deleting" => worker.copy.fin
             /\ IF worker.fresh
                THEN obj.fin = worker.copy.fin /\ obj.phase = worker.copy.phase
                ELSE obj.phase # "live"

\* What the worker is about to do with webhooks is right when it does it.
WorkerAims ==
    /\ At("list") \/ At("register") => HasToken /\ obj.fin
    /\ At("register") => worker.addr = host
    /\ worker.pc \in {"clearList", "clear", "remove"}
         => worker.copy.phase = "deleting"

OperatorHooks ==
    /\ \A h \in Operators : HasToken /\ obj.fin /\ h.host = host
    /\ At("clear") => Operators \subseteq worker.found
    /\ At("remove") => Operators = {}

\* A condition that says so, stored or still in the copy, is true.
OkIsRegistered ==
    /\ obj.phase = "live"
    /\ obj.hook = "ok" \/ (~At("idle") /\ worker.copy.hook = "ok")
    => Operators # {}

HookInv ==
    /\ FinalizerFirst /\ CopyKnows /\ WorkerAims
    /\ OperatorHooks /\ OkIsRegistered

\* Users, informer, git server's users and the end of the process.
LEMMA EnvironmentKeepsHooks ==
    ASSUME Untroubled, TypeOK, HookInv,
           \/ CreateApp \/ DeleteApp \/ CacheSync \/ Resync
           \/ (\E h \in Hosts : HostFound(h)) \/ RegisterManually
           \/ ReconcileNotFound \/ Crash \/ UNCHANGED vars
    PROVE  HookInv'
<1> USE DEF HookInv, FinalizerFirst, CopyKnows, WorkerAims, OperatorHooks,
            OkIsRegistered, Operators, At
<1>1. worker \in Worker /\ obj \in Application
  BY DEF TypeOK
<1>2. CASE UNCHANGED <<obj, worker, hooks, host>>
  BY <1>2
<1>3. CASE CacheSync \/ Resync \/ ReconcileNotFound \/ UNCHANGED vars
  BY <1>2, <1>3 DEF CacheSync, Resync, ReconcileNotFound, vars, apiVars
<1>4. CASE CreateApp
  BY <1>1, <1>4 DEF CreateApp, Store, NotCreated, Exists, Worker, Application
<1>5. CASE DeleteApp
  BY <1>1, <1>5 DEF DeleteApp, Store, Exists, Worker, Application
<1>6. CASE RegisterManually
  <2>1. UNCHANGED <<obj, worker, host>> /\ Operators' = Operators
    BY <1>6 DEF RegisterManually, CreateHook, apiVars
  <2> QED  BY <2>1
<1>7. CASE Crash
  BY <1>7 DEF Crash, Idle, Untroubled
<1> QED  BY <1>3, <1>4, <1>5, <1>6, <1>7 DEF Untroubled, HostFound

\* The beginning of a Reconcile: the copy is what is stored.
LEMMA StartKeepsHooks ==
    ASSUME Untroubled, TypeOK, StatusInv, HookInv, ReconcileStart
    PROVE  HookInv'
<1> USE DEF HookInv, FinalizerFirst, CopyKnows, WorkerAims, OperatorHooks,
            OkIsRegistered, Operators, At
<1>1. /\ cached \in Application /\ obj \in Application
      /\ worker' = [Idle EXCEPT !.pc = IF NeedsHook(cached) THEN "list" ELSE "ready",
                                !.original = cached, !.copy = Conditioned(cached),
                                !.fresh = (events = <<>>), !.lagged = (events # <<>>)]
      /\ UNCHANGED <<obj, hooks, host>> /\ Exists(cached)
  BY DEF ReconcileStart, TypeOK, apiVars
<1>2. events = <<>> /\ cached = obj
  BY DEF ReconcileStart, TypeOK, Untroubled, StatusInv, CacheFollows
<1>3. /\ worker'.copy.phase = obj.phase /\ worker'.copy.fin = obj.fin
      /\ worker'.copy.secret = obj.secret
      /\ worker'.copy.hook = "ok" => obj.hook = "ok"
  BY <1>1, <1>2, TokenAssumption DEF Conditioned, Idle, Application
<1>4. /\ worker'.fresh /\ worker'.pc \in {"list", "ready"}
      /\ worker'.pc = "list" => HasToken /\ obj.secret # NoSecret
  BY <1>1, <1>2 DEF Idle, NeedsHook
<1> QED  BY <1>1, <1>2, <1>3, <1>4 DEF Exists

\* Steps of the worker that change neither store nor webhooks, and of the copy
\* status fields only.
WorkerOnly ==
    /\ UNCHANGED <<obj, hooks, host>>
    /\ ~At("idle") /\ ~At("patch") /\ worker'.pc # "idle"
    /\ worker'.copy.phase = worker.copy.phase
    /\ worker'.copy.fin = worker.copy.fin
    /\ worker'.fresh = worker.fresh
    /\ worker'.copy.hook = "ok" => worker.copy.hook = "ok"

\* Up to the finalizer only setDefaultValues changes the secret.
LEMMA CompletionDoes ==
    ASSUME TypeOK,
           GetGitCliErr \/ ListWebhookOk \/ ListWebhookErr \/ RegisterWebhookErr
             \/ CheckSyncOk \/ CheckSyncErr \/ SetDefaultValues \/ SetDefaultValuesErr
    PROVE  /\ WorkerOnly
           /\ worker.pc \in {"list", "register", "ready", "defaults"}
           /\ worker'.pc \in {"register", "ready", "finalizer", "defaults", "patch"}
           /\ worker'.pc = "register" => worker.pc = "list" /\ worker'.addr = host
           /\ worker'.copy.secret = worker.copy.secret \/ worker'.pc = "finalizer"
<1> USE DEF At, WorkerOnly
<1>1. worker \in Worker /\ worker.copy \in Application
  BY DEF TypeOK, Worker
<1>2. ASSUME NEW c \in {"exists", "error"}, SetHookCond(c)
      PROVE  /\ worker'.pc = "ready" /\ worker'.fresh = worker.fresh
             /\ worker'.copy.phase = worker.copy.phase
             /\ worker'.copy.fin = worker.copy.fin
             /\ worker'.copy.secret = worker.copy.secret /\ worker'.copy.hook # "ok"
  BY <1>1, <1>2 DEF SetHookCond, Worker, Application
<1>3. CASE GetGitCliErr \/ RegisterWebhookErr
  BY <1>2, <1>3 DEF GetGitCliErr, RegisterWebhookErr, apiVars
<1>4. ASSUME worker.pc = "list", NEW c \in Application,
             c.phase = worker.copy.phase, c.fin = worker.copy.fin,
             c.secret = worker.copy.secret, c.hook # "ok" \/ c.hook = worker.copy.hook,
             worker' = [worker EXCEPT !.addr = host, !.pc = "register", !.copy = c],
             UNCHANGED <<obj, hooks, host>>
      PROVE  /\ WorkerOnly /\ worker'.pc = "register" /\ worker'.addr = host
             /\ worker'.copy.secret = worker.copy.secret
  BY <1>1, <1>4 DEF Worker
<1>5. CASE ListWebhookOk
  <2>1. worker.pc = "list" /\ UNCHANGED <<obj, hooks, host>>
    BY <1>5 DEF ListWebhookOk, apiVars
  <2>2. CASE SetHookCond("exists")
    BY <1>2, <2>1, <2>2
  <2>3. CASE worker' = [worker EXCEPT !.addr = host, !.pc = "register"]
    BY <1>1, <2>1, <2>3 DEF Worker
  <2> QED  BY <1>5, <2>2, <2>3 DEF ListWebhookOk
<1>6. CASE ListWebhookErr
  <2> DEFINE c == [worker.copy EXCEPT !.hook = "error"]
  <2>1. /\ worker.pc = "list" /\ UNCHANGED <<obj, hooks, host>>
        /\ worker' = [worker EXCEPT !.addr = host, !.pc = "register", !.copy = c]
    BY <1>6 DEF ListWebhookErr, apiVars
  <2>2. /\ c \in Application /\ c.phase = worker.copy.phase /\ c.fin = worker.copy.fin
        /\ c.secret = worker.copy.secret /\ c.hook = "error"
    BY <1>1 DEF Application, HookCond
  <2> QED  BY <1>4, <2>1, <2>2
<1>7. CASE CheckSyncOk \/ CheckSyncErr
  <2> DEFINE c == SetReadyCond(worker.copy)
  <2>1. /\ c \in Application /\ c.phase = worker.copy.phase /\ c.fin = worker.copy.fin
        /\ c.secret = worker.copy.secret /\ c.hook = worker.copy.hook
    BY <1>1 DEF SetReadyCond, Application
  <2>2. /\ worker.pc = "ready" /\ UNCHANGED <<obj, hooks, host>>
        /\ \/ worker' = [worker EXCEPT !.copy = c, !.pc = "defaults"]
           \/ worker' = [worker EXCEPT !.copy = c, !.pc = "patch", !.err = TRUE]
    BY <1>7 DEF CheckSyncOk, CheckSyncErr, apiVars
  <2> HIDE DEF c
  <2> QED  BY <1>1, <2>1, <2>2 DEF Worker
<1>8. CASE SetDefaultValuesErr
  BY <1>1, <1>8 DEF SetDefaultValuesErr, Fail, apiVars, Worker
<1>9. CASE SetDefaultValues
  <2>1. worker.pc = "defaults" /\ UNCHANGED <<obj, hooks, host>>
    BY <1>9 DEF SetDefaultValues, apiVars
  <2>2. ASSUME NEW n,
               worker' = [worker EXCEPT !.copy = [@ EXCEPT !.secret = n],
                                        !.pc = "finalizer"]
        PROVE  /\ WorkerOnly /\ worker'.pc = "finalizer"
    <3> DEFINE c == [worker.copy EXCEPT !.secret = n]
    <3>1. /\ c.phase = worker.copy.phase /\ c.fin = worker.copy.fin
          /\ c.hook = worker.copy.hook
      BY <1>1 DEF Application
    <3>2. worker' = [worker EXCEPT !.copy = c, !.pc = "finalizer"]
      BY <2>2
    <3> HIDE DEF c
    <3> QED  BY <1>1, <2>1, <3>1, <3>2 DEF Worker
  <2>3. CASE worker' = [worker EXCEPT !.pc = "finalizer"]
    BY <1>1, <2>1, <2>3 DEF Worker
  <2> QED  BY <1>9, <2>1, <2>2, <2>3 DEF SetDefaultValues, Draw, Goto
<1> QED  BY <1>3, <1>5, <1>6, <1>7, <1>8, <1>9

LEMMA CompletionKeepsHooks ==
    ASSUME TypeOK, HookInv,
           GetGitCliErr \/ ListWebhookOk \/ ListWebhookErr \/ RegisterWebhookErr
             \/ CheckSyncOk \/ CheckSyncErr \/ SetDefaultValues \/ SetDefaultValuesErr
    PROVE  HookInv'
<1>1. /\ WorkerOnly
      /\ worker.pc \in {"list", "register", "ready", "defaults"}
      /\ worker'.pc \in {"register", "ready", "finalizer", "defaults", "patch"}
      /\ worker'.pc = "register" => worker.pc = "list" /\ worker'.addr = host
      /\ worker'.copy.secret = worker.copy.secret \/ worker'.pc = "finalizer"
  BY CompletionDoes
<1> QED  BY <1>1
         DEF WorkerOnly, HookInv, FinalizerFirst, CopyKnows, WorkerAims, OperatorHooks,
             OkIsRegistered, Operators, At

\* A registration adds a webhook of the operator under the host there is.
LEMMA RegistrationKeepsHooks ==
    ASSUME TypeOK, HookInv, RegisterWebhookOk \/ RegisterWebhookLost
    PROVE  HookInv'
<1> USE DEF HookInv, FinalizerFirst, CopyKnows, WorkerAims, OperatorHooks,
            OkIsRegistered, Operators, At
<1>1. worker \in Worker /\ worker.copy \in Application
  BY DEF TypeOK, Worker
<1>2. PICK cond \in {"ok", "error"} : RegisterWebhook(cond)
  BY DEF RegisterWebhookOk, RegisterWebhookLost
<1>3. /\ worker.pc = "register" /\ worker'.pc = "ready" /\ UNCHANGED <<obj, host>>
      /\ worker'.copy = [worker.copy EXCEPT !.hook = cond]
      /\ worker'.fresh = worker.fresh
  BY <1>1, <1>2 DEF RegisterWebhook, SetHookCond, apiVars, Worker
<1>4. PICK i \in 1..MaxHooks :
        hooks' = hooks \cup {[id |-> i, host |-> worker.addr,
                              secret |-> worker.copy.secret, by |-> "operator"]}
  BY <1>2 DEF RegisterWebhook, CreateHook
<1>5. Operators' # {} /\ \A h \in Operators' : h \in Operators \/ h.host = host
  <2> DEFINE new == [id |-> i, host |-> worker.addr, secret |-> worker.copy.secret,
                     by |-> "operator"]
  <2>1. new.by = "operator" /\ new.host = host
    BY <1>3
  <2> HIDE DEF new
  <2>2. hooks' = hooks \cup {new}
    BY <1>4 DEF new
  <2> QED  BY <2>1, <2>2
<1> QED  BY <1>1, <1>3, <1>5 DEF Application

\* Update: the finalizer is stored, or taken away when no webhook is left.
LEMMA UpdateKeepsHooks ==
    ASSUME Untroubled, TypeOK, HookInv, AddFinalizer \/ RemoveFinalizer
    PROVE  HookInv'
<1> USE DEF HookInv, FinalizerFirst, CopyKnows, WorkerAims, OperatorHooks,
            OkIsRegistered, Operators, At
<1>1. worker \in Worker /\ worker.copy \in Application /\ obj \in Application
  BY DEF TypeOK, Worker
<1>2. UNCHANGED <<hooks, host>>
  BY DEF AddFinalizer, RemoveFinalizer
<1>3. CASE UpdateErr
  <2>1. ~worker.fresh /\ obj' = obj
    BY <1>3 DEF UpdateErr, Untroubled, apiVars
  <2>2. worker'.pc = "patch" /\ worker'.copy = worker.copy
    BY <1>1, <1>3 DEF UpdateErr, Fail, Worker
  <2>3. worker.pc \in {"finalizer", "remove"}
    BY DEF AddFinalizer, RemoveFinalizer
  <2> QED  BY <1>2, <2>1, <2>2, <2>3
<1>4. ASSUME NEW x \in Application, UpdateOk(x)
      PROVE  /\ worker'.pc = "patch" /\ worker'.copy = Reply(x) /\ worker.fresh
             /\ obj' = x
             /\ Reply(x).phase = worker.copy.phase
             /\ Reply(x).hook = "ok" => x.hook = "ok" \/ worker.copy.hook = "ok"
  BY <1>1, <1>4 DEF UpdateOk, Reply, Worker, Application
<1>5. ASSUME AddFinalizer, UpdateOk([obj EXCEPT !.fin = TRUE])
      PROVE  HookInv'
  <2> DEFINE x == [obj EXCEPT !.fin = TRUE]
  <2>1. /\ x \in Application /\ x.fin /\ x.phase = obj.phase /\ x.hook = obj.hook
        /\ x.secret = obj.secret
    BY <1>1 DEF Application
  <2>2. worker.pc = "finalizer" /\ worker.copy.phase = "live"
    BY <1>5 DEF AddFinalizer
  <2>3. obj.phase = "live" /\ worker.fresh
    BY <1>5, <2>2 DEF UpdateOk
  <2> HIDE DEF x
  <2>4. /\ worker'.pc = "patch" /\ worker'.copy = Reply(x) /\ obj' = x
        /\ Reply(x).phase = "live"
        /\ Reply(x).hook = "ok" => x.hook = "ok" \/ worker.copy.hook = "ok"
    BY <1>4, <1>5, <2>1, <2>2 DEF x
  <2> QED  BY <1>2, <2>1, <2>2, <2>3, <2>4 DEF Exists
<1>6. ASSUME RemoveFinalizer, UpdateOk([obj EXCEPT !.fin = FALSE, !.phase = "gone"])
      PROVE  HookInv'
  <2> DEFINE x == [obj EXCEPT !.fin = FALSE, !.phase = "gone"]
  <2>1. x \in Application /\ ~x.fin /\ x.phase = "gone"
    BY <1>1 DEF Application
  <2>2. worker.pc = "remove" /\ Operators = {}
    BY <1>6 DEF RemoveFinalizer
  <2> HIDE DEF x
  <2>3. worker'.pc = "patch" /\ obj' = x
    BY <1>4, <1>6, <2>1 DEF x
  <2>4. Operators' = {}
    BY <1>2, <2>2
  <2> QED  BY <2>1, <2>3, <2>4 DEF Exists
<1> QED  BY <1>3, <1>5, <1>6 DEF AddFinalizer, RemoveFinalizer

\* handleFinalizer's other steps; clearWebhook meets every webhook there is.
LEMMA FinalizerKeepsHooks ==
    ASSUME TypeOK, HookInv,
           \/ HasFinalizer \/ HandleDeletion \/ FinalizeErr \/ ClearWebhookList
           \/ (\E h \in worker.found : ClearWebhookEntry(h)) \/ ClearWebhookEnd
    PROVE  HookInv'
<1> USE DEF HookInv, FinalizerFirst, CopyKnows, WorkerAims, OperatorHooks,
            OkIsRegistered, Operators, At
<1>1. worker \in Worker /\ worker.copy \in Application
  BY DEF TypeOK, Worker
<1>2. CASE HasFinalizer
  BY <1>1, <1>2 DEF HasFinalizer, Goto, apiVars, Worker
<1>3. CASE HandleDeletion
  BY <1>1, <1>3 DEF HandleDeletion, Goto, apiVars, Worker
<1>4. CASE FinalizeErr
  BY <1>1, <1>4 DEF FinalizeErr, Fail, apiVars, Worker
<1>5. CASE ClearWebhookList
  BY <1>1, <1>5 DEF ClearWebhookList, apiVars, Worker
<1>6. ASSUME NEW h \in worker.found, ClearWebhookEntry(h)
      PROVE  HookInv'
  <2>1. /\ worker.pc = "clear" /\ UNCHANGED <<obj, host>>
        /\ worker' = [worker EXCEPT !.found = @ \ {h}]
        /\ hooks' = IF h.host = host THEN hooks \ {h} ELSE hooks
    BY <1>6 DEF ClearWebhookEntry, apiVars
  <2>2. worker'.pc = "clear" /\ worker'.copy = worker.copy
        /\ worker'.fresh = worker.fresh /\ worker'.found = worker.found \ {h}
    BY <1>1, <2>1 DEF Worker
  <2>3. Operators' \subseteq Operators \ {h}
    BY <2>1
  <2>4. obj.phase # "live"
    BY <2>1
  <2> QED  BY <2>1, <2>2, <2>3, <2>4
<1>7. CASE ClearWebhookEnd
  BY <1>1, <1>7 DEF ClearWebhookEnd, Goto, apiVars, Worker
<1> QED  BY <1>2, <1>3, <1>4, <1>5, <1>6, <1>7

\* The deferred patch stores a condition and a secret of the copy.
LEMMA PatchKeepsHooks ==
    ASSUME TypeOK, HookInv, StatusPatch \/ StatusPatchErr
    PROVE  HookInv'
<1> USE DEF HookInv, FinalizerFirst, CopyKnows, WorkerAims, OperatorHooks,
            OkIsRegistered, Operators, At
<1>1. obj \in Application /\ worker \in Worker /\ worker.copy \in Application
  BY DEF TypeOK, Worker
<1>2. /\ worker.pc = "patch" /\ worker'.pc = "idle" /\ UNCHANGED <<hooks, host>>
      /\ obj' = Patched(obj) \/ obj' = obj
  BY DEF StatusPatch, StatusPatchErr, Store, Idle, apiVars
<1>3. /\ Patched(obj).phase = obj.phase /\ Patched(obj).fin = obj.fin
      /\ Patched(obj).hook \in {obj.hook, worker.copy.hook}
      /\ Patched(obj).secret \in {obj.secret, worker.copy.secret}
      /\ Patched(obj) = obj \/ Exists(obj)
  BY <1>1 DEF Patched, Application
<1> QED  BY <1>1, <1>2, <1>3 DEF Exists

\* Each step keeps the agreement of object and git server.
LEMMA HookStep ==
    ASSUME Untroubled
    PROVE  TypeOK /\ StatusInv /\ HookInv /\ [Next]_vars => HookInv'
BY EnvironmentKeepsHooks, StartKeepsHooks, CompletionKeepsHooks,
   RegistrationKeepsHooks, UpdateKeepsHooks, FinalizerKeepsHooks, PatchKeepsHooks
   DEF Next, ReconcileStep

\* A webhook that the status notes is there with the secret of the status, and none
\* of the operator's outlives its Application: for any number of failing calls,
\* lost replies, failing listings, manual registrations and crashes.
THEOREM HooksFollowStatus ==
    ASSUME Untroubled
    PROVE  Spec => []HooksMatchStatus
<1>1. Init => StatusInv /\ Current
  BY DEF Init, StatusInv, CacheFollows, UncreatedIsBlank, OriginalIsStored,
         CopyExtends, LaggedIsOld, Current, NotCreated, Idle, At
<1>2. Init => HookInv
  BY DEF Init, HookInv, FinalizerFirst, CopyKnows, WorkerAims, OperatorHooks,
         OkIsRegistered, Operators, NotCreated, Idle, At, Exists
<1>3. TypeOK /\ StatusInv /\ Current /\ [Next]_vars => StatusInv' /\ Current'
  BY Untroubled, StatusStep, CurrentStep DEF Untroubled
<1>4. TypeOK /\ StatusInv /\ HookInv /\ [Next]_vars => HookInv'
  BY Untroubled, HookStep
<1>5. TypeOK /\ Current /\ DeliveriesVerify /\ HookInv => HooksMatchStatus
  <2> SUFFICES ASSUME TypeOK, Current, DeliveriesVerify, HookInv
               PROVE  HooksMatchStatus
    OBVIOUS
  <2>1. RegisteredIsTrue
    BY DEF RegisteredIsTrue, HookInv, OkIsRegistered, Operators, Current,
           DeliveriesVerify, Exists
  <2>2. NoHookOfGone
    BY DEF NoHookOfGone, HookInv, OperatorHooks, Operators, FinalizerFirst, Exists
  <2> QED  BY <2>1, <2>2 DEF HooksMatchStatus
<1> QED  BY <1>1, <1>2, <1>3, <1>4, <1>5, TypeCorrect, WebhooksVerify, PTL DEF Spec
=============================================================================
