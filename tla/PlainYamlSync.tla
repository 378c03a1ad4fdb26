---------------------------- MODULE PlainYamlSync ----------------------------
(***************************************************************************)
(* The one PlainYamlManager of the process and the goroutines that call it *)
(* through CheckSync or the finalizer: the controller's worker, periodic   *)
(* sync routines, webhook and sync-API handlers (pkg/sync/sync.go,         *)
(* pkg/manifestmanager/{manifestmanager,plainyaml}.go).                    *)
(*                                                                         *)
(* Sync and Clear are a sequence of calls to the git server, to the API    *)
(* server that holds the DeployResources (DefaultCli) and to the API       *)
(* server of the destination (TargetCli).  Each call is a step.  TargetCli *)
(* and GitCli are fields of the shared manager, read again by every call.  *)
(*                                                                         *)
(* Abstractions.  A manifest file holds one object and an object is a name *)
(* with a content.  The merge patch of a manifest into a deployed object   *)
(* yields the manifest's content.  Apps is fixed: SyncRoutine has their    *)
(* life cycle.                                                             *)
(*                                                                         *)
(* DeployResources are created and deleted in the API server but listed    *)
(* and looked up in the manager's informer, which may lag it: its copy     *)
(* catches up with one DeployResource at a time, in any order, which       *)
(* allows more than the one ordered watch behind it.                       *)
(***************************************************************************)
EXTENDS Naturals, FiniteSets

CONSTANTS Apps, Procs, Objs, Contents, Repos, Paths, Clusters,
          None,          \* no content, no client, no object
          RepoOf,        \* per Application: Spec.Source.RepoURL
          PathOf,        \* per Application: Spec.Source.Path
          DestOf,        \* per Application: the cluster of Spec.Destination.Name
          LabelOf,       \* per Application: app.Name + "-" + app.Namespace
          HomeOf,        \* per object: the <<repository, path>> that may hold it
          AutoSync,      \* the Applications with Spec.SyncPolicy.AutoSync
          Env,           \* what the environment may do, a subset of EnvEvents
          MaxPushes,     \* bound: commits pushed to the repositories
          MaxDrifts,     \* bound: changes somebody else makes in a cluster
          MaxFaults,     \* bound: failing calls and crashes together
          MaxLag         \* bound: DeployResources the informer has not caught up with

EnvEvents == {"clear",   \* finalizers call Clear
              "forced",  \* webhook and sync API force a sync
              "midway",  \* pushes and drift also while a call is under way
              "fail",    \* a call to a server may fail
              "crash"}   \* the process may die

ASSUME EnvAssumption == Env \subseteq EnvEvents
ASSUME NoneAssumption == None \notin Contents \cup Clusters \cup Repos \cup Objs \cup Apps
ASSUME MapAssumption ==
    /\ RepoOf \in [Apps -> Repos] /\ PathOf \in [Apps -> Paths]
    /\ DestOf \in [Apps -> Clusters] /\ HomeOf \in [Objs -> Repos \X Paths]
ASSUME BoundAssumption ==
    /\ MaxPushes \in Nat /\ MaxDrifts \in Nat
    /\ MaxFaults \in Nat /\ MaxLag \in Nat

VARIABLES manifest,    \* per object: the content its repository holds, or None
          live,        \* per cluster and object: the deployed content, or None
          records,     \* the DeployResources, named by <<Application, object>>
          cached,      \* the informer's copy of them
          skipped,     \* history: those not made because the copy still had them
          gitCli,      \* PlainYamlManager.GitCli; None: no manager yet
          targetCli,   \* PlainYamlManager.TargetCli
          proc,        \* the calling goroutines
          reported,    \* per Application: the status of the last CheckSync
          pushes, drifts, faults

vars == <<manifest, live, records, cached, skipped, gitCli, targetCli, proc,
          reported, pushes, drifts, faults>>

envVars     == <<manifest, pushes, drifts>>
recordVars  == <<records, cached, skipped>>
clusterVars == <<live, records, cached, skipped>>
managerVars == <<gitCli, targetCli>>

Status == {"Unknown", "Synced", "OutOfSync"}

ProcPc == {"idle", "target", "infos", "list", "next", "record", "create",
           "compare", "apply", "prune", "get", "delete"}

Proc ==
    [pc : ProcPc, op : {"sync", "clear"}, app : Apps \cup {None},
     forced  : BOOLEAN,
     status  : Status,               \* app.Status.Sync.Status of its copy
     todo    : SUBSET Objs,          \* manifestInfos left
     old     : SUBSET (Apps \X Objs),\* DeployResources left to look at
     hidden  : SUBSET (Apps \X Objs),\* history: those the list did not show
     updated : SUBSET (Apps \X Objs),\* updatedDeployResources
     cur     : Objs \cup {None},     \* the object of this iteration
     want    : Contents \cup {None}, \* its content in the manifest
     seen    : Contents \cup {None}, \* its content when it was compared
     where   : Clusters \cup {None}] \* the cluster it was compared in

IdleProc ==
    [pc |-> "idle", op |-> "sync", app |-> None, forced |-> FALSE,
     status |-> "Unknown", todo |-> {}, old |-> {}, hidden |-> {}, updated |-> {},
     cur |-> None, want |-> None, seen |-> None, where |-> None]

Quiet == \A p \in Procs : proc[p].pc = "idle"

(***************************************************************************)
(* The environment.                                                        *)
(***************************************************************************)
GitPush(o, x) ==
    /\ pushes < MaxPushes
    /\ Quiet \/ "midway" \in Env
    /\ manifest[o] # x
    /\ manifest' = [manifest EXCEPT ![o] = x]
    /\ pushes' = pushes + 1
    /\ UNCHANGED <<clusterVars, managerVars, proc, reported, drifts, faults>>

\* Somebody edits or deletes a deployed object.
Drift(cl, o, x) ==
    /\ drifts < MaxDrifts
    /\ Quiet \/ "midway" \in Env
    /\ live[cl][o] \notin {None, x}
    /\ live' = [live EXCEPT ![cl][o] = x]
    /\ drifts' = drifts + 1
    /\ UNCHANGED <<manifest, recordVars, managerVars, proc, reported, pushes, faults>>

\* The informer's copy shows what has become of one DeployResource.
CacheRecord(r) ==
    /\ r \in records <=> r \notin cached
    /\ cached' = IF r \in records THEN cached \cup {r} ELSE cached \ {r}
    /\ UNCHANGED <<envVars, live, records, skipped, managerVars, proc, reported, faults>>

\* What the copy shows just after a DeployResource has come or gone.
Cache ==
    LET behind == (records' \ cached) \cup (cached \ records')
    IN  cached' = IF Cardinality(behind) <= MaxLag THEN cached ELSE records'

\* The next process lists the DeployResources before it starts.
Crash ==
    /\ "crash" \in Env
    /\ faults < MaxFaults
    /\ faults' = faults + 1
    /\ proc' = [p \in Procs |-> IdleProc]
    /\ gitCli' = None
    /\ targetCli' = None
    /\ cached' = records
    /\ UNCHANGED <<envVars, live, records, skipped, reported>>

(***************************************************************************)
(* Beginning and end of a call.                                            *)
(***************************************************************************)
At(p, pc) == proc[p].pc = pc

Goto(p, pc) == proc' = [proc EXCEPT ![p].pc = pc]

Return(p) == proc' = [proc EXCEPT ![p] = IdleProc]

\* A call to a server fails and the error is returned up to the caller.
CallFails(p) ==
    /\ ~At(p, "idle") /\ ~At(p, "next") /\ ~At(p, "prune")
    /\ "fail" \in Env
    /\ faults < MaxFaults
    /\ faults' = faults + 1
    /\ Return(p)
    /\ UNCHANGED <<envVars, clusterVars, managerVars, reported>>

\* The same for an error the state of the servers is the reason for.
Rejected(p) ==
    /\ Return(p)
    /\ UNCHANGED <<envVars, clusterVars, managerVars, reported, faults>>

\* CheckSync: the first caller ever builds the manager, with its git client.
CheckSync(p, a, forced) ==
    /\ At(p, "idle")
    /\ forced => "forced" \in Env
    /\ gitCli' = IF gitCli = None THEN RepoOf[a] ELSE gitCli
    /\ proc' = [proc EXCEPT ![p] = [IdleProc EXCEPT !.pc = "target", !.op = "sync",
                                                    !.app = a, !.forced = forced]]
    /\ reported' = [reported EXCEPT ![a] = "Unknown"]
    /\ UNCHANGED <<envVars, clusterVars, targetCli, faults>>

\* clearDeployedResources of the finalizer; SyncRoutine has its nil manager.
CallClear(p, a) ==
    /\ At(p, "idle")
    /\ "clear" \in Env
    /\ gitCli # None
    /\ proc' = [proc EXCEPT ![p] = [IdleProc EXCEPT !.pc = "target", !.op = "clear",
                                                    !.app = a]]
    /\ UNCHANGED <<envVars, clusterVars, managerVars, reported, faults>>

\* Mutant of SetTargetClient: the client is made once.
SetTargetClientOnce(p) ==
    /\ At(p, "target")
    /\ targetCli' = IF targetCli = None THEN DestOf[proc[p].app] ELSE targetCli
    /\ Goto(p, IF proc[p].op = "sync" THEN "infos" ELSE "list")
    /\ UNCHANGED <<envVars, clusterVars, gitCli, reported, faults>>

SetTargetClient(p) ==
    /\ At(p, "target")
    /\ targetCli' = DestOf[proc[p].app]
    /\ Goto(p, IF proc[p].op = "sync" THEN "infos" ELSE "list")
    /\ UNCHANGED <<envVars, clusterVars, gitCli, reported, faults>>

GetManifestInfos(p) ==
    /\ At(p, "infos")
    /\ proc' = [proc EXCEPT
         ![p].todo = {o \in Objs : /\ HomeOf[o] = <<gitCli, PathOf[proc[p].app]>>
                                   /\ manifest[o] # None},
         ![p].pc = "list"]
    /\ UNCHANGED <<envVars, clusterVars, managerVars, reported, faults>>

\* Mutant of GetDeployResourceList: no label selector.
GetDeployResourceListAll(p) ==
    /\ At(p, "list")
    /\ proc' = [proc EXCEPT ![p].old = cached,
                            ![p].pc = IF proc[p].op = "sync" THEN "next" ELSE "prune"]
    /\ UNCHANGED <<envVars, clusterVars, managerVars, reported, faults>>

\* getDeployResourceList selects by label, in all namespaces, from the informer.
GetDeployResourceList(p) ==
    LET Labelled(rs) == {r \in rs : LabelOf[r[1]] = LabelOf[proc[p].app]}
    IN  /\ At(p, "list")
        /\ proc' = [proc EXCEPT
             ![p].old    = Labelled(cached),
             ![p].hidden = Labelled(records \ cached),
             ![p].pc     = IF proc[p].op = "sync" THEN "next" ELSE "prune"]
        /\ UNCHANGED <<envVars, clusterVars, managerVars, reported, faults>>

(***************************************************************************)
(* Sync: the loop over the manifests.                                      *)
(***************************************************************************)

\* ObjectFromManifest reads the file's present content.
ObjectFromManifest(p, o) ==
    /\ At(p, "next")
    /\ o \in proc[p].todo
    /\ IF manifest[o] = None
       THEN Return(p)
       ELSE proc' = [proc EXCEPT ![p].todo = @ \ {o}, ![p].cur = o,
                                 ![p].want = manifest[o], ![p].pc = "record"]
    /\ UNCHANGED <<envVars, clusterVars, managerVars, reported, faults>>

\* updateDeployResource looks the DeployResource up in the informer.
UpdateDeployResource(p) ==
    LET r == <<proc[p].app, proc[p].cur>>
    IN  /\ At(p, "record")
        /\ IF r \in cached
           THEN /\ proc' = [proc EXCEPT ![p].updated = @ \cup {r}, ![p].pc = "compare"]
                /\ skipped' = skipped \cup ({r} \ records)
           ELSE /\ Goto(p, "create")
                /\ UNCHANGED skipped
        /\ UNCHANGED <<envVars, live, records, cached, managerVars, reported, faults>>

\* Mutant of CreateDeployResource: the parts of the name are swapped.
CreateDeployResourceSwapped(p) ==
    /\ At(p, "create")
    /\ records' = records \cup {<<proc[p].cur, proc[p].app>>}
    /\ Cache
    /\ Goto(p, "compare")
    /\ UNCHANGED <<envVars, live, skipped, managerVars, reported, faults>>

\* The API server refuses a DeployResource that is there after all.
CreateDeployResource(p) ==
    LET r == <<proc[p].app, proc[p].cur>>
    IN  /\ At(p, "create")
        /\ IF r \notin records
           THEN /\ records' = records \cup {r}
                /\ Cache
                /\ skipped' = skipped \ {r}
                /\ proc' = [proc EXCEPT ![p].updated = @ \cup {r}, ![p].pc = "compare"]
                /\ UNCHANGED <<envVars, live, managerVars, reported, faults>>
           ELSE Rejected(p)

\* Mutant of Applies: whatever differs is applied.
AppliesAlways(p) == TRUE

\* Mutant of Applies: AutoSync is not looked at.
AppliesForcedOnly(p) == proc[p].forced

Applies(p) == proc[p].app \in AutoSync \/ proc[p].forced

\* Mutant of CompareDeployWithManifest: a missing object is no difference.
CompareExistingOnly(p) ==
    LET found == live[targetCli][proc[p].cur]
    IN  /\ At(p, "compare")
        /\ IF found \in {proc[p].want, None}
           THEN Goto(p, "next")
           ELSE proc' = [proc EXCEPT ![p].status = "OutOfSync",
                                     ![p].seen = found, ![p].where = targetCli,
                                     ![p].pc = IF Applies(p) THEN "apply" ELSE "next"]
        /\ UNCHANGED <<envVars, clusterVars, managerVars, reported, faults>>

CompareDeployWithManifest(p) ==
    LET found == live[targetCli][proc[p].cur]
    IN  /\ At(p, "compare")
        /\ IF found = proc[p].want
           THEN Goto(p, "next")
           ELSE proc' = [proc EXCEPT ![p].status = "OutOfSync",
                                     ![p].seen = found, ![p].where = targetCli,
                                     ![p].pc = IF Applies(p) THEN "apply" ELSE "next"]
        /\ UNCHANGED <<envVars, clusterVars, managerVars, reported, faults>>

\* Create refuses an object that exists, Update one that has changed since.
ApplyManifest(p) ==
    /\ At(p, "apply")
    /\ IF /\ live[targetCli][proc[p].cur] = proc[p].seen
          /\ proc[p].seen # None => targetCli = proc[p].where
       THEN /\ live' = [live EXCEPT ![targetCli][proc[p].cur] = proc[p].want]
            /\ Goto(p, "next")
            /\ UNCHANGED <<envVars, recordVars, managerVars, reported, faults>>
       ELSE Rejected(p)

\* Mutant of EndOfManifests: what was updated is not exempt.
EndOfManifestsAll(p) ==
    /\ At(p, "next")
    /\ proc[p].todo = {}
    /\ Goto(p, "prune")
    /\ UNCHANGED <<envVars, clusterVars, managerVars, reported, faults>>

\* All manifests are done: what is not among them goes.
EndOfManifests(p) ==
    /\ At(p, "next")
    /\ proc[p].todo = {}
    /\ proc' = [proc EXCEPT ![p].old = @ \ proc[p].updated, ![p].pc = "prune"]
    /\ UNCHANGED <<envVars, clusterVars, managerVars, reported, faults>>

(***************************************************************************)
(* clearApplicationResources, in Sync's second loop and in Clear.          *)
(***************************************************************************)
\* Mutant of DeleteRecord: the DeployResource goes, its object stays.
DeleteRecordOnly(p, r) ==
    /\ At(p, "prune")
    /\ r \in proc[p].old
    /\ records' = records \ {r}
    /\ Cache
    /\ proc' = [proc EXCEPT ![p].old = @ \ {r}]
    /\ UNCHANGED <<envVars, live, skipped, managerVars, reported, faults>>

DeleteRecord(p, r) ==
    /\ At(p, "prune")
    /\ r \in proc[p].old
    /\ IF r \in records
       THEN /\ records' = records \ {r}
            /\ Cache
            /\ proc' = [proc EXCEPT ![p].old = @ \ {r}, ![p].cur = r[2],
                                    ![p].pc = "get"]
            /\ UNCHANGED <<envVars, live, skipped, managerVars, reported, faults>>
       ELSE Rejected(p)

\* Mutant of GetDeprecated: found and not found are mixed up.
GetDeprecatedInverted(p) ==
    /\ At(p, "get")
    /\ Goto(p, IF live[targetCli][proc[p].cur] # None THEN "prune" ELSE "delete")
    /\ UNCHANGED <<envVars, clusterVars, managerVars, reported, faults>>

GetDeprecated(p) ==
    /\ At(p, "get")
    /\ Goto(p, IF live[targetCli][proc[p].cur] = None THEN "prune" ELSE "delete")
    /\ UNCHANGED <<envVars, clusterVars, managerVars, reported, faults>>

DeleteDeprecated(p) ==
    /\ At(p, "delete")
    /\ IF live[targetCli][proc[p].cur] # None
       THEN /\ live' = [live EXCEPT ![targetCli][proc[p].cur] = None]
            /\ Goto(p, "prune")
            /\ UNCHANGED <<envVars, recordVars, managerVars, reported, faults>>
       ELSE Rejected(p)

\* A Sync that found no difference reports Synced.
Finish(p) ==
    /\ At(p, "prune")
    /\ proc[p].old = {}
    /\ reported' = [reported EXCEPT ![proc[p].app] =
                      IF proc[p].op = "clear" THEN @
                      ELSE IF proc[p].status = "Unknown" THEN "Synced"
                      ELSE proc[p].status]
    /\ Return(p)
    /\ UNCHANGED <<envVars, clusterVars, managerVars, faults>>

(***************************************************************************)
(* The specification.                                                      *)
(***************************************************************************)
Init ==
    /\ manifest = [o \in Objs |-> None]
    /\ live = [cl \in Clusters |-> [o \in Objs |-> None]]
    /\ records = {}
    /\ cached = {}
    /\ skipped = {}
    /\ gitCli = None
    /\ targetCli = None
    /\ proc = [p \in Procs |-> IdleProc]
    /\ reported = [a \in Apps |-> "Unknown"]
    /\ pushes = 0
    /\ drifts = 0
    /\ faults = 0

\* What a call does once it has begun and no server fails it.
CallStep(p) ==
    \/ SetTargetClient(p) \/ GetManifestInfos(p) \/ GetDeployResourceList(p)
    \/ \E o \in Objs : ObjectFromManifest(p, o)
    \/ UpdateDeployResource(p) \/ CreateDeployResource(p)
    \/ CompareDeployWithManifest(p) \/ ApplyManifest(p)
    \/ EndOfManifests(p)
    \/ \E r \in proc[p].old : DeleteRecord(p, r)
    \/ GetDeprecated(p) \/ DeleteDeprecated(p)
    \/ Finish(p)

Next ==
    \/ \E o \in Objs, x \in Contents \cup {None} :
         GitPush(o, x) \/ \E cl \in Clusters : Drift(cl, o, x)
    \/ \E p \in Procs :
         \/ \E a \in Apps : \/ \E forced \in BOOLEAN : CheckSync(p, a, forced)
                            \/ CallClear(p, a)
         \/ CallStep(p)
         \/ CallFails(p)
    \/ \E r \in Apps \X Objs : CacheRecord(r)
    \/ Crash

Spec == Init /\ [][Next]_vars

(***************************************************************************)
(* Fairness: goroutines run, every server call returns, and each           *)
(* Application's periodic routine comes back to a Sync again and again.    *)
(***************************************************************************)
Fairness ==
    /\ \A p \in Procs : WF_vars(CallStep(p))
    /\ \A a \in Apps : SF_vars(\E p \in Procs : CheckSync(p, a, FALSE))

FairSpec == Spec /\ Fairness

(***************************************************************************)
(* Properties.                                                             *)
(***************************************************************************)

\* The values the variables take.
TypeOK ==
    /\ manifest \in [Objs -> Contents \cup {None}]
    /\ live \in [Clusters -> [Objs -> Contents \cup {None}]]
    /\ records \subseteq Apps \X Objs /\ cached \subseteq Apps \X Objs
    /\ skipped \subseteq Apps \X Objs
    /\ gitCli \in Repos \cup {None}
    /\ targetCli \in Clusters \cup {None}
    /\ proc \in [Procs -> Proc]
    /\ reported \in [Apps -> Status]
    /\ pushes \in 0..MaxPushes
    /\ drifts \in 0..MaxDrifts
    /\ faults \in 0..MaxFaults

SourceOf(a) == <<RepoOf[a], PathOf[a]>>

ObjsOf(a) == {o \in Objs : HomeOf[o] = SourceOf(a)}

InSync(a) == \A o \in ObjsOf(a) : live[DestOf[a]][o] = manifest[o]

\* Objects are only in clusters that an Application with these manifests names
\* as its destination: setTargetClient directs every later call of the same Sync.
DeployedInDestination ==
    \A cl \in Clusters, o \in Objs :
        live[cl][o] # None => \E a \in Apps : DestOf[a] = cl /\ o \in ObjsOf(a)

\* Sync and Clear delete only their own Application's DeployResources: the label
\* they select by tells Applications apart.
PrunesOwnOnly ==
    [][\A r \in records \ records' :
          \E p \in Procs : At(p, "prune") /\ proc[p].app = r[1]]_vars

\* A deployed object has a DeployResource, by which a later Sync or Clear finds
\* it; it loses that only just before it is deleted itself, or when the informer
\* still showed a deleted one to the Sync that should have made it anew.
Tracked ==
    \A cl \in Clusters, o \in Objs :
        live[cl][o] # None
          => \/ \E a \in Apps : <<a, o>> \in records \cup skipped
             \/ \E p \in Procs : proc[p].pc \in {"get", "delete"} /\ proc[p].cur = o

\* A Sync deletes only what the repository no longer holds.
PrunesOnlyRemoved ==
    [][\A cl \in Clusters, o \in Objs :
          live[cl][o] # None /\ live'[cl][o] = None /\ drifts' = drifts
            => \/ manifest[o] = None
               \/ \E p \in Procs : At(p, "delete") /\ proc[p].op = "clear"]_vars

\* What the informer has kept from a call: DeployResources its list did not show,
\* and objects that never got one.
Unseen(p) == proc[p].hidden \cup skipped

SeenInSync(p, a) ==
    \A o \in ObjsOf(a) : \/ live[DestOf[a]][o] = manifest[o]
                         \/ manifest[o] = None /\ <<a, o>> \in Unseen(p)

\* Synced is reported only when cluster and repository agree, but for what the
\* repository has dropped and the informer did not show.
SyncedIsTrue ==
    [][\A a \in Apps : reported'[a] = "Synced" /\ reported[a] # "Synced"
          => \E p \in Procs :
               At(p, "prune") /\ proc[p].app = a /\ SeenInSync(p, a)]_vars

\* When Clear succeeds nothing of the Application is left in its cluster but what
\* the informer did not show: the list is read before the call's first deletion,
\* and a Sync of the same Reconcile may have made the DeployResource just before.
ClearIsComplete ==
    [][\A p \in Procs :
          /\ At(p, "prune") /\ proc[p].op = "clear" /\ proc'[p].pc = "idle"
          /\ proc[p].old = {}
          => \A o \in ObjsOf(proc[p].app) :
               \/ live[DestOf[proc[p].app]][o] = None
               \/ <<proc[p].app, o>> \in Unseen(p)]_vars

\* Once commits and drift stop, a cluster that AutoSync keeps agrees with the
\* repository for good, unless a call has failed or the process has died on the
\* way: what is missing is created, what differs updated, what was removed deleted.
AutoSyncKeepsSynced == \A a \in AutoSync : <>(faults > 0) \/ <>[]InSync(a)

\* The part of it that failures and crashes leave standing: what the repository
\* holds is deployed.
ManifestsGetDeployed ==
    \A a \in AutoSync :
        <>[](\A o \in ObjsOf(a) :
                manifest[o] # None => live[DestOf[a]][o] = manifest[o])

(***************************************************************************)
(* The refinement: every call of the many steps above, the interleaved and *)
(* the failed ones included, is to the repository and the cluster of an    *)
(* Application a sequence of steps of ManifestManager.                     *)
(***************************************************************************)
Calling(a, op) == {p \in Procs : proc[p].app = a /\ proc[p].op = op}

OwnPart(a, held) == [o \in Objs |-> IF o \in ObjsOf(a) THEN held[o] ELSE None]

Manager == INSTANCE ManifestManager WITH
    repo     <- [a \in Apps |-> OwnPart(a, manifest)],
    live     <- [a \in Apps |-> OwnPart(a, live[DestOf[a]])],
    forced   <- {a \in Apps : \E p \in Calling(a, "sync") : proc[p].forced},
    clearing <- {a \in Apps : Calling(a, "clear") # {}},
    drifts   <- drifts

\* What the interface promises is kept: nothing is created or changed in the
\* cluster but to the repository's content and by policy or force, and nothing is
\* deleted but what the repository has dropped or a Clear removes.
ImplementsManager == Manager!Spec
=============================================================================
