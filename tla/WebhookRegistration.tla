------------------------- MODULE WebhookRegistration -------------------------
(***************************************************************************)
(* What one Application's Reconcile does to its status and to the git      *)
(* server: the secret is drawn once, the webhook is registered with it,    *)
(* the Application becomes ready, the finalizer takes the webhook away     *)
(* (controllers/application_controller.go).                                *)
(*                                                                         *)
(* Reconcile works on a copy from the informer's cache.  Its result goes   *)
(* back in two writes: Update (metadata; refused if the copy is old; the   *)
(* reply overwrites the copy) and the deferred status patch, a JSON merge  *)
(* patch of what differs between the copy as read and the copy as changed. *)
(* The patch has no resourceVersion unless Update changed it, and a list,  *)
(* such as status.conditions, is patched as a whole.                       *)
(*                                                                         *)
(* Abstractions.  What the worker syncs meanwhile is in SyncRoutine and    *)
(* PlainYamlSync: here CheckSync succeeds or fails.  A condition is the    *)
(* part of it the code looks at.  An address is its host: the rest is the  *)
(* Application's name.                                                     *)
(***************************************************************************)
EXTENDS Naturals, Sequences

CONSTANTS HasToken,      \* Spec.Source.Token is set
          Hosts,         \* host names the expose controller may find
          NoHost,        \* CurrentExternalHostName before it has found one
          Env,           \* what the environment may do, a subset of EnvEvents
          MaxLag,        \* bound: versions the cache may lag when a Reconcile starts
          MaxSecrets,    \* bound: secrets in use at a time
          MaxHooks,      \* bound: webhooks that exist at a time
          MaxCrashes     \* bound: how often the process is killed

EnvEvents == {"err",        \* calls may fail without effect
              "updateErr",  \* r.Update may fail
              "listErr",    \* ListWebhook may fail when registering
              "lostReply",  \* RegisterWebhook may take effect and still fail
              "hosts",      \* the exposed host changes, and is not known at first
              "resync",     \* the informer's periodic resync is due now and then
              "manual"}     \* users register the webhook by hand

ASSUME EnvAssumption == Env \subseteq EnvEvents
ASSUME TokenAssumption == HasToken \in BOOLEAN
ASSUME HostAssumption == NoHost \notin Hosts /\ Hosts # {}
ASSUME BoundAssumption ==
    /\ MaxLag \in Nat /\ MaxSecrets \in Nat /\ MaxHooks \in Nat
    /\ MaxCrashes \in Nat

VARIABLES obj,       \* the Application the API server stores
          events,    \* its versions the informer has not seen yet
          cached,    \* the informer's copy
          queued,    \* the work queue holds the Application
          worker,    \* the worker inside Reconcile
          hooks,     \* the webhooks of the repository on the git server
          host,      \* configs.CurrentExternalHostName
          replaced,  \* history: a secret that was stored has been overwritten
          crashes

vars == <<obj, events, cached, queued, worker, hooks, host, replaced, crashes>>

apiVars == <<obj, events, cached, replaced>>

NoSecret == 0

\* The condition webhook-registered: absent with all conditions, False with the
\* reasons webhookNotRegistered, "same webhook has already registered" or
\* another error, True, or False with the reason noGitToken.
HookCond == {"none", "unregistered", "exists", "error", "ok", "noToken"}

Application ==
    [phase  : {"none", "live", "deleting", "gone"},
     fin    : BOOLEAN,                \* cd.tmax.io/finalizer is set
     secret : 0..MaxSecrets,          \* Status.Secrets
     hook   : HookCond,
     ready  : BOOLEAN]                \* the condition ready is True

NotCreated == [phase |-> "none", fin |-> FALSE, secret |-> NoSecret,
               hook |-> "none", ready |-> FALSE]

Exists(x) == x.phase \in {"live", "deleting"}

Address == Hosts \cup {NoHost}

Hook == [id : 1..MaxHooks, host : Address, secret : 0..MaxSecrets,
         by : {"operator", "user"}]

Worker ==
    [pc : {"idle", "list", "register", "ready", "defaults", "finalizer",
           "clearList", "clear", "remove", "patch"},
     original : Application,    \* the copy as it was read
     copy     : Application,    \* the copy as Reconcile has changed it
     addr     : Address,        \* the address computed when registering
     found    : SUBSET Hook,    \* what ListWebhook returned to clearWebhook
     fresh    : BOOLEAN,        \* its resourceVersion is the stored one
     lagged   : BOOLEAN,        \* it was not, already when it was read
     updated  : BOOLEAN,        \* Update stored a new version in this Reconcile
     err      : BOOLEAN]        \* Reconcile will return an error

Idle == [pc |-> "idle", original |-> NotCreated, copy |-> NotCreated,
         addr |-> NoHost, found |-> {}, fresh |-> FALSE, lagged |-> FALSE,
         updated |-> FALSE, err |-> FALSE]

At(pc) == worker.pc = pc

Goto(pc) == worker' = [worker EXCEPT !.pc = pc]

Fail == worker' = [worker EXCEPT !.pc = "patch", !.err = TRUE]

(***************************************************************************)
(* API server and informer.                                                *)
(***************************************************************************)

\* A new version x is stored: the worker's copy and the cache fall behind.
Store(x, workerNow) ==
    /\ obj' = x
    /\ events' = Append(events, x)
    /\ worker' = [workerNow EXCEPT !.fresh = FALSE]
    /\ replaced' = (replaced \/ (obj.secret # NoSecret /\ x.secret # obj.secret))
    /\ UNCHANGED cached

CreateApp ==
    /\ obj.phase = "none"
    /\ Store([NotCreated EXCEPT !.phase = "live"], worker)
    /\ UNCHANGED <<queued, hooks, host, crashes>>

DeleteApp ==
    /\ obj.phase = "live"
    /\ Store([obj EXCEPT !.phase = IF obj.fin THEN "deleting" ELSE "gone"], worker)
    /\ UNCHANGED <<queued, hooks, host, crashes>>

\* The next watch event: the informer stores it and the name is queued.
CacheSync ==
    /\ events # <<>>
    /\ cached' = Head(events)
    /\ events' = Tail(events)
    /\ queued' = TRUE
    /\ UNCHANGED <<obj, worker, hooks, host, replaced, crashes>>

Resync ==
    /\ "resync" \in Env
    /\ Exists(cached)
    /\ ~queued
    /\ queued' = TRUE
    /\ UNCHANGED <<apiVars, worker, hooks, host, crashes>>

\* The expose controller finds the host the webhook server is exposed at.
HostFound(h) ==
    /\ "hosts" \in Env
    /\ host # h
    /\ host' = h
    /\ UNCHANGED <<apiVars, queued, worker, hooks, crashes>>

\* The git server creates one more webhook, under an identity not in use.
CreateHook(addr, secret, by) ==
    \E i \in 1..MaxHooks :
        /\ \A h \in hooks : h.id # i
        /\ hooks' = hooks \cup {[id |-> i, host |-> addr, secret |-> secret, by |-> by]}

\* The quick start's manual way: a user copies Status.Secrets to the git server.
RegisterManually ==
    /\ "manual" \in Env
    /\ Exists(obj) /\ obj.secret # NoSecret /\ host # NoHost
    /\ \A h \in hooks : h.by # "user"
    /\ CreateHook(host, obj.secret, "user")
    /\ UNCHANGED <<apiVars, queued, worker, host, crashes>>

(***************************************************************************)
(* Reconcile.                                                              *)
(***************************************************************************)

\* The conditions that are missing get their defaults.
Conditioned(x) ==
    [x EXCEPT !.hook = IF ~HasToken /\ x.hook # "ok" THEN "noToken"
                       ELSE IF x.hook = "none" THEN "unregistered" ELSE x.hook]

\* Mutant of NeedsHook: a webhook is registered before there is a secret.
NeedsHookAnySecret(x) == HasToken /\ x.hook # "ok"

\* Mutant of NeedsHook: a registration that failed is not tried again.
NeedsHookFirst(x) ==
    HasToken /\ x.hook \in {"none", "unregistered"} /\ x.secret # NoSecret

NeedsHook(x) == HasToken /\ x.hook # "ok" /\ x.secret # NoSecret

ReconcileStart ==
    /\ At("idle") /\ queued /\ Exists(cached)
    /\ Len(events) <= MaxLag
    /\ queued' = FALSE
    /\ worker' = [Idle EXCEPT !.pc = IF NeedsHook(cached) THEN "list" ELSE "ready",
                              !.original = cached, !.copy = Conditioned(cached),
                              !.fresh = (events = <<>>), !.lagged = (events # <<>>)]
    /\ UNCHANGED <<apiVars, hooks, host, crashes>>

ReconcileNotFound ==
    /\ At("idle") /\ queued /\ ~Exists(cached)
    /\ queued' = FALSE
    /\ UNCHANGED <<apiVars, worker, hooks, host, crashes>>

SetHookCond(cond) ==
    worker' = [worker EXCEPT !.copy = [@ EXCEPT !.hook = cond], !.pc = "ready"]

\* GetGitCli fails: gitCliErr.
GetGitCliErr ==
    /\ At("list")
    /\ "err" \in Env
    /\ SetHookCond("error")
    /\ UNCHANGED <<apiVars, queued, hooks, host, crashes>>

\* Mutant of ListWebhookOk: it is not looked for the same address.
ListWebhookUnread ==
    /\ At("list")
    /\ worker' = [worker EXCEPT !.addr = host, !.pc = "register"]
    /\ UNCHANGED <<apiVars, queued, hooks, host, crashes>>

ListWebhookOk ==
    /\ At("list")
    /\ IF \E h \in hooks : h.host = host
       THEN SetHookCond("exists")
       ELSE worker' = [worker EXCEPT !.addr = host, !.pc = "register"]
    /\ UNCHANGED <<apiVars, queued, hooks, host, crashes>>

\* The error is noted, and then the empty list is used.
ListWebhookErr ==
    /\ At("list")
    /\ "listErr" \in Env
    /\ worker' = [worker EXCEPT !.addr = host, !.pc = "register",
                                !.copy = [@ EXCEPT !.hook = "error"]]
    /\ UNCHANGED <<apiVars, queued, hooks, host, crashes>>

\* RegisterWebhook succeeds, or takes effect and its reply is lost.
RegisterWebhook(cond) ==
    /\ At("register")
    /\ CreateHook(worker.addr, worker.copy.secret, "operator")
    /\ SetHookCond(cond)
    /\ UNCHANGED <<apiVars, queued, host, crashes>>

RegisterWebhookOk == RegisterWebhook("ok")

RegisterWebhookLost == "lostReply" \in Env /\ RegisterWebhook("error")

\* Mutant of RegisterWebhookErr: the reason stays blank.
RegisterWebhookErrBlank ==
    /\ At("register")
    /\ "err" \in Env
    /\ SetHookCond("")
    /\ UNCHANGED <<apiVars, queued, hooks, host, crashes>>

RegisterWebhookErr ==
    /\ At("register")
    /\ "err" \in Env
    /\ SetHookCond("error")
    /\ UNCHANGED <<apiVars, queued, hooks, host, crashes>>

SetReadyCond(x) ==
    [x EXCEPT !.ready = @ \/ /\ x.secret # NoSecret
                             /\ x.hook \in {"ok", "noToken"}]

\* setReadyCond, then manageSyncRoutine and CheckSync of a ready Application.
CheckSyncOk ==
    /\ At("ready")
    /\ worker' = [worker EXCEPT !.copy = SetReadyCond(@), !.pc = "defaults"]
    /\ UNCHANGED <<apiVars, queued, hooks, host, crashes>>

CheckSyncErr ==
    /\ At("ready")
    /\ "err" \in Env
    /\ SetReadyCond(worker.copy).ready
    /\ worker' = [worker EXCEPT !.copy = SetReadyCond(@), !.pc = "patch", !.err = TRUE]
    /\ UNCHANGED <<apiVars, queued, hooks, host, crashes>>

\* The secrets somebody remembers: RandomString never repeats one.
InUse == {x.secret : x \in {obj, cached} \cup {events[i] : i \in DOMAIN events} \cup hooks}

Draw ==
    \E s \in (1..MaxSecrets) \ InUse :
        /\ \A t \in (1..MaxSecrets) \ InUse : s <= t
        /\ worker' = [worker EXCEPT !.copy = [@ EXCEPT !.secret = s],
                                    !.pc = "finalizer"]

\* Mutant of SetDefaultValues: a secret is drawn in every Reconcile.
SetDefaultValuesAnew ==
    /\ At("defaults")
    /\ Draw
    /\ UNCHANGED <<apiVars, queued, hooks, host, crashes>>

\* setDefaultValues: setSecretString draws a secret if the copy has none.
SetDefaultValues ==
    /\ At("defaults")
    /\ IF worker.copy.secret = NoSecret THEN Draw ELSE Goto("finalizer")
    /\ UNCHANGED <<apiVars, queued, hooks, host, crashes>>

SetDefaultValuesErr ==
    /\ At("defaults")
    /\ "err" \in Env
    /\ Fail
    /\ UNCHANGED <<apiVars, queued, hooks, host, crashes>>

(***************************************************************************)
(* handleFinalizer and the deferred patch.                                 *)
(***************************************************************************)

\* The reply to r.Update: stored conditions and a stored secret replace the copy's.
Reply(stored) ==
    [worker.copy EXCEPT
       !.fin    = stored.fin,
       !.secret = IF stored.secret # NoSecret THEN stored.secret ELSE @,
       !.hook   = IF stored.hook # "none" THEN stored.hook ELSE @,
       !.ready  = IF stored.hook # "none" THEN stored.ready ELSE @]

UpdateOk(stored) ==
    /\ worker.fresh
    /\ obj' = stored
    /\ events' = IF stored = obj THEN events ELSE Append(events, stored)
    /\ worker' = [worker EXCEPT !.pc = "patch", !.copy = Reply(stored),
                                !.fresh = Exists(stored),
                                !.updated = (stored # obj)]
    /\ UNCHANGED <<cached, replaced>>

UpdateErr ==
    /\ worker.fresh => "updateErr" \in Env
    /\ Fail
    /\ UNCHANGED apiVars

HasFinalizer ==
    /\ At("finalizer")
    /\ worker.copy.phase = "live" /\ worker.copy.fin
    /\ Goto("patch")
    /\ UNCHANGED <<apiVars, queued, hooks, host, crashes>>

AddFinalizer ==
    /\ At("finalizer")
    /\ worker.copy.phase = "live" /\ ~worker.copy.fin
    /\ UpdateOk([obj EXCEPT !.fin = TRUE]) \/ UpdateErr
    /\ UNCHANGED <<queued, hooks, host, crashes>>

HandleDeletion ==
    /\ At("finalizer")
    /\ worker.copy.phase = "deleting"
    /\ Goto(IF worker.copy.fin /\ HasToken THEN "clearList" ELSE "remove")
    /\ UNCHANGED <<apiVars, queued, hooks, host, crashes>>

\* finalizeApp's other steps or clearWebhook's first calls fail.
FinalizeErr ==
    /\ At("clearList") \/ At("clear")
    /\ "err" \in Env
    /\ Fail
    /\ UNCHANGED <<apiVars, queued, hooks, host, crashes>>

ClearWebhookList ==
    /\ At("clearList")
    /\ worker' = [worker EXCEPT !.found = hooks, !.pc = "clear"]
    /\ UNCHANGED <<apiVars, queued, hooks, host, crashes>>

\* Mutant of ClearWebhookEntry: the loop ends with the first webhook deleted.
ClearWebhookEntryFirst(h) ==
    /\ At("clear")
    /\ h \in worker.found
    /\ hooks' = IF h.host = host THEN hooks \ {h} ELSE hooks
    /\ worker' = [worker EXCEPT !.found = IF h.host = host THEN {} ELSE @ \ {h}]
    /\ UNCHANGED <<apiVars, queued, host, crashes>>

\* One turn of clearWebhook's loop: the address is computed in every turn.
ClearWebhookEntry(h) ==
    /\ At("clear")
    /\ h \in worker.found
    /\ hooks' = IF h.host = host THEN hooks \ {h} ELSE hooks
    /\ worker' = [worker EXCEPT !.found = @ \ {h}]
    /\ UNCHANGED <<apiVars, queued, host, crashes>>

ClearWebhookEnd ==
    /\ At("clear")
    /\ worker.found = {}
    /\ Goto("remove")
    /\ UNCHANGED <<apiVars, queued, hooks, host, crashes>>

RemoveFinalizer ==
    /\ At("remove")
    /\ \/ UpdateOk([obj EXCEPT !.fin = FALSE, !.phase = "gone"])
       \/ UpdateErr
    /\ UNCHANGED <<queued, hooks, host, crashes>>

Conditions(x) == <<x.hook, x.ready>>

\* What the deferred patch makes of the stored object x.
Patched(x) ==
    IF ~Exists(x) \/ (worker.updated /\ ~worker.fresh) THEN x
    ELSE LET c == worker.copy
             o == worker.original
             secretPatched ==
                 [x EXCEPT !.secret = IF c.secret # o.secret THEN c.secret ELSE @]
         IN  IF Conditions(c) # Conditions(o)
             THEN [secretPatched EXCEPT !.hook = c.hook, !.ready = c.ready]
             ELSE secretPatched

StatusPatch ==
    /\ At("patch")
    /\ IF Patched(obj) # obj
       THEN Store(Patched(obj), Idle)
       ELSE worker' = Idle /\ UNCHANGED apiVars
    /\ queued' = (queued \/ worker.err)
    /\ UNCHANGED <<hooks, host, crashes>>

\* Status().Patch fails: that is logged, and the Reconcile is over all the same.
StatusPatchErr ==
    /\ At("patch")
    /\ "err" \in Env
    /\ worker' = Idle
    /\ queued' = (queued \/ worker.err)
    /\ UNCHANGED <<apiVars, hooks, host, crashes>>

(***************************************************************************)
(* The process is killed and started again: the informer lists what is     *)
(* stored; the host is to be found again.                                  *)
(***************************************************************************)
Crash ==
    /\ crashes < MaxCrashes
    /\ crashes' = crashes + 1
    /\ cached' = obj
    /\ events' = <<>>
    /\ queued' = Exists(obj)
    /\ worker' = Idle
    /\ host' = IF "hosts" \in Env THEN NoHost ELSE host
    /\ UNCHANGED <<obj, hooks, replaced>>

(***************************************************************************)
(* The specification.                                                      *)
(***************************************************************************)
Init ==
    /\ obj = NotCreated
    /\ events = <<>>
    /\ cached = NotCreated
    /\ queued = FALSE
    /\ worker = Idle
    /\ hooks = {}
    /\ host \in IF "hosts" \in Env THEN {NoHost} ELSE Hosts
    /\ replaced = FALSE
    /\ crashes = 0

ReconcileStep ==
    \/ ReconcileStart \/ ReconcileNotFound
    \/ GetGitCliErr \/ ListWebhookOk \/ ListWebhookErr
    \/ RegisterWebhookOk \/ RegisterWebhookLost \/ RegisterWebhookErr
    \/ CheckSyncOk \/ CheckSyncErr
    \/ SetDefaultValues \/ SetDefaultValuesErr
    \/ HasFinalizer \/ AddFinalizer \/ HandleDeletion
    \/ FinalizeErr \/ ClearWebhookList
    \/ \E h \in worker.found : ClearWebhookEntry(h)
    \/ ClearWebhookEnd \/ RemoveFinalizer
    \/ StatusPatch \/ StatusPatchErr

Next ==
    \/ CreateApp \/ DeleteApp \/ CacheSync \/ Resync
    \/ \E h \in Hosts : HostFound(h)
    \/ RegisterManually
    \/ ReconcileStep
    \/ Crash

Spec == Init /\ [][Next]_vars

(***************************************************************************)
(* Fairness: informer and worker run, resyncs go on, and a call that is    *)
(* tried again and again succeeds in the end.                              *)
(***************************************************************************)
Fairness ==
    /\ WF_vars(CacheSync) /\ WF_vars(Resync) /\ WF_vars(ReconcileStep)
    /\ SF_vars(ListWebhookOk) /\ SF_vars(RegisterWebhookOk)
    /\ SF_vars(CheckSyncOk) /\ SF_vars(SetDefaultValues)
    /\ SF_vars(ClearWebhookList) /\ SF_vars(ClearWebhookEnd)
    /\ SF_vars(StatusPatch /\ obj' # obj)

FairSpec == Spec /\ Fairness

(***************************************************************************)
(* Properties.                                                             *)
(***************************************************************************)

\* The values the variables take.
TypeOK ==
    /\ obj \in Application
    /\ events \in Seq(Application)
    /\ cached \in Application
    /\ queued \in BOOLEAN
    /\ worker \in Worker
    /\ hooks \subseteq Hook
    /\ host \in Address
    /\ replaced \in BOOLEAN
    /\ crashes \in 0..MaxCrashes

\* A Reconcile that has read the stored version never takes back what the status
\* says, whatever is stored before its patch arrives and whichever of its calls
\* fail: the secret stays, and so does readiness.  Only the deferred patch of a
\* Reconcile on a lagging copy, to which setSecretString and setReadyCond mean
\* a first time, does; and it does: see DeliveriesVerify and the README.
StatusOnlyGrows ==
    [][\/ obj.secret # NoSecret /\ obj'.secret # obj.secret
       \/ obj.ready /\ ~obj'.ready
       => At("patch") /\ worker.lagged]_vars

\* Status.Secrets is what the webhooks of a living Application were registered
\* with, by Reconcile on however old a copy or by hand, and what deliveries are
\* verified against: until the secret is replaced (see StatusOnlyGrows).  From
\* then on webhooks exist whose deliveries do not verify, and none is corrected.
DeliveriesVerify ==
    Exists(obj) /\ ~replaced => \A h \in hooks : h.secret = obj.secret

\* setWebhookRegisteredCond registers an address once, whatever replies, status
\* updates and processes are lost between registering and noting it.
RegisteredOnce ==
    \A h1, h2 \in hooks :
        h1.by = "operator" /\ h2.by = "operator" /\ h1.host = h2.host => h1 = h2

\* The condition is not made up: when it says so a webhook is registered.
RegisteredIsTrue ==
    Exists(obj) /\ obj.hook = "ok" =>
        \/ \E h \in hooks : h.by = "operator" /\ h.secret = obj.secret
        \/ obj.phase = "deleting"

\* An Application that is gone leaves no webhook of the operator behind.
NoHookOfGone ==
    obj.phase = "gone" /\ At("idle")
      => \A h \in hooks : h.by # "operator"

\* Object and git server agree in both directions, whichever calls of
\* setWebhookRegisteredCond and clearWebhook fail or lose their replies: a
\* webhook that is noted exists, and none outlives its Application.
HooksMatchStatus == RegisteredIsTrue /\ NoHookOfGone

\* An Application becomes ready, unless it is deleted first or a webhook it does
\* not know to be its own is in the way.
BecomesReady ==
    obj.phase = "live" ~> obj.ready \/ obj.phase # "live" \/ obj.hook = "exists"
=============================================================================
