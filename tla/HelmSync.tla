------------------------------ MODULE HelmSync ------------------------------
(***************************************************************************)
(* The one HelmManager of the process and the goroutines that call it: the *)
(* worker (Reconcile, with finalizeApp) and the HTTP handlers that force a *)
(* sync (pkg/manifestmanager/helm.go, util/helmclient, util/gitclient,     *)
(* pkg/cluster, pkg/sync/sync.go).  A periodic routine does what Reconcile *)
(* does without a finalizer; SyncRoutine shows that none runs beside its   *)
(* Application's finalizer.                                                *)
(*                                                                         *)
(* The manager keeps a clone per Application under /tmp, lists what the    *)
(* chart would install by a dry run, keeps DeployResources of that and     *)
(* installs.  It panics when helm fails: in a handler net/http catches     *)
(* that, anywhere else the process dies, and with its container the clones.*)
(*                                                                         *)
(* Abstractions.  A chart is the set of the objects it renders to.  Helm   *)
(* changes the objects at the beginning of an installation, and refuses    *)
(* another one until the release is not pending any more.  The manager     *)
(* lists DeployResources in its client's cache; here that is up to date by *)
(* the time of a list, which comes after a clone or a pull, or after an    *)
(* installation and its removal (PlainYamlSync lets the cache lag).        *)
(* Applications are not created again.                                     *)
(***************************************************************************)
EXTENDS Naturals, FiniteSets

CONSTANTS Apps, Objs, Branches, Clusters,
          Default,     \* the branch HEAD of every repository names
          Home,        \* the operator's own cluster
          None,
          ObjsOf,      \* per Application: what its chart may render to
          DestOf,      \* per Application: the cluster of Spec.Destination.Name
          AutoSync,    \* the Applications with Spec.SyncPolicy.AutoSync
          Worker, Handlers,
          MaxEvents    \* bound: commits, edits of TargetRevision, forced syncs,
                       \* failing calls and crashes together

ASSUME HomeAssumption == Home \in Clusters /\ DestOf \in [Apps -> Clusters]
ASSUME DefaultAssumption == Default \in Branches
ASSUME NoneAssumption == None \notin [branch : Branches, chart : SUBSET Objs]
ASSUME DistinctObjects ==
    /\ ObjsOf \in [Apps -> SUBSET Objs]
    /\ \A a, b \in Apps : a # b => ObjsOf[a] \cap ObjsOf[b] = {}

VARIABLES head,        \* per Application and branch: the chart at its head
          target,      \* per Application: Spec.Source.TargetRevision
          clones,      \* per Application: /tmp/repo-<name>-<namespace>, or None
          helmClient,  \* the cluster helmManager.helmClient talks to, or None
          release,     \* per cluster and Application: the release of its name
          live,        \* per cluster: the objects in it
          records,     \* the DeployResources, as <<Application, object>>
          app,         \* per Application: whether it is there
          proc,        \* the goroutines
          events

vars == <<head, target, clones, helmClient, release, live, records, app, proc,
          events>>
userVars    == <<head, target>>
clusterVars == <<release, live, records>>

Procs == {Worker} \cup Handlers

Absent == [status |-> "absent", chart |-> {}]

\* A goroutine; one that is in the manager knows
IdleProc ==
    [pc |-> "idle", op |-> "sync", app |-> None, forced |-> FALSE,
     final    |-> FALSE,   \* whether a Clear follows
     manifest |-> {},      \* what the dry run returned
     todo     |-> {},      \* the objects left to record
     old      |-> {},      \* the DeployResources left to look at
     where    |-> None,    \* the cluster it installs in
     alone    |-> TRUE]    \* whether no other call came in since it began

At(p, pc) == proc[p].pc = pc
Goto(p, pc) == proc' = [proc EXCEPT ![p].pc = pc]
Return(p) == proc' = [proc EXCEPT ![p] = IdleProc]
Event == events < MaxEvents /\ events' = events + 1
RecordsOf(a) == {o \in Objs : <<a, o>> \in records}

(***************************************************************************)
(* Users.                                                                  *)
(***************************************************************************)
GitPush(a, b, chart) ==
    /\ chart # head[a][b]
    /\ head' = [head EXCEPT ![a][b] = chart]
    /\ Event
    /\ UNCHANGED <<target, clones, helmClient, clusterVars, app, proc>>

EditTarget(a, b) ==
    /\ b # target[a]
    /\ target' = [target EXCEPT ![a] = b]
    /\ Event
    /\ UNCHANGED <<head, clones, helmClient, clusterVars, app, proc>>

DeleteApp(a) ==
    /\ app[a] = "live"
    /\ app' = [app EXCEPT ![a] = "deleting"]
    /\ UNCHANGED <<userVars, clones, helmClient, clusterVars, proc, events>>

(***************************************************************************)
(* The ends a call may have.                                               *)
(***************************************************************************)
Die ==
    /\ proc' = [q \in Procs |-> IdleProc]
    /\ clones' = [a \in Apps |-> None]
    /\ helmClient' = None

Panic(p) == IF p \in Handlers THEN Return(p) /\ UNCHANGED <<clones, helmClient>> ELSE Die

Crash ==
    /\ Event
    /\ Die
    /\ UNCHANGED <<userVars, clusterVars, app>>

\* A call to a server fails: an error, or a panic where helm reports it.
CallFails(p) ==
    /\ Event
    /\ \/ /\ proc[p].pc \in {"fetch", "target", "list", "retarget", "record",
                             "prune", "object", "leftover", "clear", "hook", "remove"}
          /\ Return(p)
          /\ UNCHANGED <<clones, helmClient>>
       \/ proc[p].pc \in {"render", "install", "uninstall"} /\ Panic(p)
    /\ UNCHANGED <<userVars, clusterVars, app>>

(***************************************************************************)
(* Sync.                                                                   *)
(***************************************************************************)
\* Mutant of CheckSync: an Application that is marked goes straight to its finalizer.
CheckSyncUnlessDeleted(p, a) ==
    /\ At(p, "idle") /\ app[a] # "gone" /\ p = Worker
    /\ proc' = [proc EXCEPT ![p] =
          IF app[a] = "deleting"
            THEN [IdleProc EXCEPT !.pc = "target", !.op = "clear", !.app = a]
            ELSE [IdleProc EXCEPT !.pc = "fetch", !.app = a]]
    /\ UNCHANGED <<userVars, clones, helmClient, clusterVars, app, events>>

\* CheckSync, for whoever has the Application in hand.  Reconcile goes on with
\* the finalizer when the copy it started with is marked for deletion; it has
\* stopped the routine by then.
CheckSync(p, a) ==
    /\ At(p, "idle") /\ app[a] # "gone"
    /\ proc' = [q \in Procs |->
          CASE q = p -> [IdleProc EXCEPT !.pc = "fetch", !.app = a,
                           !.forced = p \in Handlers,
                           !.final = p = Worker /\ app[a] = "deleting",
                           !.alone = \A r \in Procs : At(r, "idle")]
            [] q # p /\ ~At(q, "idle") -> [proc[q] EXCEPT !.alone = FALSE]
            [] OTHER -> IdleProc]
    /\ IF p \in Handlers THEN Event ELSE UNCHANGED events
    /\ UNCHANGED <<userVars, clones, helmClient, clusterVars, app>>

Clone(p) ==
    LET a == proc[p].app IN
    /\ clones[a] = None
    /\ clones' = [clones EXCEPT ![a] = [branch |-> target[a], chart |-> head[a][target[a]]]]

\* Mutant of Pull: a clone that is there is not brought up to date.
PullNothing(p) == clones[proc[p].app] # None /\ UNCHANGED clones

\* An existing clone is pulled, whatever Spec.Source says by now: PullOptions names
\* no branch, so HEAD of the server is merged into the clone.
Pull(p) ==
    LET a == proc[p].app IN
    /\ clones[a] # None
    /\ clones' = [clones EXCEPT ![a] = [branch |-> Default, chart |-> head[a][Default]]]

\* Only a fast-forward can be merged: any other history is an error.
PullRefused(p) ==
    LET a == proc[p].app IN
    clones[a] # None /\ clones[a].branch # Default /\ UNCHANGED clones

\* Sync looks for the directory of the clone first.
Fetch(p) ==
    /\ At(p, "fetch")
    /\ \/ (Clone(p) \/ Pull(p)) /\ Goto(p, "target")
       \/ PullRefused(p) /\ Return(p)
    /\ UNCHANGED <<userVars, helmClient, clusterVars, app, events>>

\* Mutant of SetTargetClient: the client is made once.
SetTargetClientOnce(p) ==
    /\ \/ At(p, "target")
          /\ Goto(p, IF proc[p].op = "sync" THEN "list" ELSE "uninstall")
       \/ At(p, "retarget") /\ Goto(p, "record")
    /\ helmClient' = IF helmClient = None THEN DestOf[proc[p].app] ELSE helmClient
    /\ UNCHANGED <<userVars, clones, clusterVars, app, events>>

SetTargetClient(p) ==
    /\ \/ At(p, "target")
          /\ Goto(p, IF proc[p].op = "sync" THEN "list" ELSE "uninstall")
       \/ At(p, "retarget") /\ Goto(p, "record")
    /\ helmClient' = DestOf[proc[p].app]
    /\ UNCHANGED <<userVars, clones, clusterVars, app, events>>

GetDeployResourceList(p) ==
    /\ \/ At(p, "list") /\ proc' = [proc EXCEPT ![p].pc = "render",
                                                ![p].old = RecordsOf(proc[p].app)]
       \/ At(p, "leftover") /\ proc' = [proc EXCEPT ![p].pc = "clear",
                                                    ![p].old = RecordsOf(proc[p].app)]
    /\ UNCHANGED <<userVars, clones, helmClient, clusterVars, app, events>>

\* Mutant of CanInstall: install alone, no upgrade.
CanInstallNew(p) ==
    clones[proc[p].app] # None /\ release[helmClient][proc[p].app].status = "absent"

\* Helm has a chart to install and nobody else is installing the release.
CanInstall(p) ==
    clones[proc[p].app] # None /\ release[helmClient][proc[p].app].status # "pending"

\* objectFromManifest: the dry run, whose objects are read one after the other
\* with setTargetClient before each.
ObjectFromManifest(p) ==
    LET chart == clones[proc[p].app].chart IN
    /\ At(p, "render")
    /\ \/ /\ CanInstall(p)
          /\ proc' = [proc EXCEPT ![p].pc = IF chart = {} THEN "record" ELSE "retarget",
                                  ![p].manifest = chart, ![p].todo = chart]
          /\ UNCHANGED <<clones, helmClient>>
       \/ ~CanInstall(p) /\ Panic(p)
    /\ UNCHANGED <<userVars, clusterVars, app, events>>

UpdateDeployResource(p, o) ==
    /\ At(p, "record") /\ o \in proc[p].todo
    /\ records' = records \cup {<<proc[p].app, o>>}
    /\ proc' = [proc EXCEPT ![p].todo = @ \ {o}]
    /\ UNCHANGED <<userVars, clones, helmClient, release, live, app, events>>

\* Sync has succeeded; Reconcile may go on with the finalizer.
EndOfSync(p) ==
    IF proc[p].final
      THEN proc' = [proc EXCEPT ![p].op = "clear", ![p].pc = "target", ![p].where = None,
                                ![p].manifest = {}, ![p].old = {}]
      ELSE Return(p)

\* The Application is synced by policy or by hand.
Installs(p) == proc[p].forced \/ proc[p].app \in AutoSync

\* The DeployResources the dry run did not mention are left over.
EndOfManifest(p) ==
    LET stale == proc[p].old \ proc[p].manifest IN
    /\ \/ At(p, "record") /\ proc[p].todo = {}
       \/ At(p, "prune") /\ stale = {}
    /\ CASE At(p, "record") /\ stale # {} -> Goto(p, "prune")
         [] stale = {} /\ Installs(p)      -> Goto(p, "install")
         [] stale = {} /\ ~Installs(p)     -> EndOfSync(p)
    /\ UNCHANGED <<userVars, clones, helmClient, clusterVars, app, events>>

\* deleteDeployResource: the record goes first; a record that is gone is an error.
DeleteDeployResource(p, o) ==
    /\ At(p, "prune") /\ o \in proc[p].old \ proc[p].manifest
    /\ IF <<proc[p].app, o>> \in records
         THEN proc' = [proc EXCEPT ![p].pc = "object", ![p].todo = {o}]
         ELSE Return(p)
    /\ records' = records \ {<<proc[p].app, o>>}
    /\ UNCHANGED <<userVars, clones, helmClient, release, live, app, events>>

\* Then the object of that name, by DefaultCli and so in the operator's cluster.
DeleteDeprecated(p) ==
    /\ At(p, "object")
    /\ live' = [live EXCEPT ![Home] = @ \ proc[p].todo]
    /\ proc' = [proc EXCEPT ![p].pc = "prune", ![p].old = @ \ proc[p].todo, ![p].todo = {}]
    /\ UNCHANGED <<userVars, clones, helmClient, release, records, app, events>>

\* installHelmChart reads the clone again.
InstallHelmChart(p) ==
    LET a == proc[p].app
        chart == clones[a].chart IN
    /\ At(p, "install")
    /\ \/ /\ CanInstall(p)
          /\ live' = [live EXCEPT ![helmClient] = (@ \ release[helmClient][a].chart) \cup chart]
          /\ release' = [release EXCEPT
                            ![helmClient][a] = [status |-> "pending", chart |-> chart]]
          /\ proc' = [proc EXCEPT ![p].pc = "wait", ![p].where = helmClient]
          /\ UNCHANGED <<clones, helmClient>>
       \/ ~CanInstall(p) /\ Panic(p) /\ UNCHANGED <<release, live>>
    /\ UNCHANGED <<userVars, records, app, events>>

\* The helm action under way keeps the client it was started with.
InstallEnd(p) ==
    LET a == proc[p].app
        c == proc[p].where IN
    /\ At(p, "wait")
    /\ IF release[c][a].status = "pending"
         THEN /\ release' = [release EXCEPT ![c][a].status = "deployed"]
              /\ EndOfSync(p)
              /\ UNCHANGED <<clones, helmClient>>
         ELSE Panic(p) /\ UNCHANGED release
    /\ UNCHANGED <<userVars, live, records, app, events>>

(***************************************************************************)
(* Clear and what finalizeApp does after it.                               *)
(***************************************************************************)
UninstallRelease(p) ==
    LET a == proc[p].app
        c == helmClient IN
    /\ At(p, "uninstall")
    /\ IF release[c][a].status = "absent"
         THEN Panic(p) /\ UNCHANGED <<release, live>>
         ELSE /\ release' = [release EXCEPT ![c][a] = Absent]
              /\ live' = [live EXCEPT ![c] = @ \ release[c][a].chart]
              /\ Goto(p, "leftover")
              /\ UNCHANGED <<clones, helmClient>>
    /\ UNCHANGED <<userVars, records, app, events>>

ClearDeployResource(p, o) ==
    /\ At(p, "clear") /\ o \in proc[p].old
    /\ IF <<proc[p].app, o>> \in records THEN proc' = [proc EXCEPT ![p].old = @ \ {o}]
                                         ELSE Return(p)
    /\ records' = records \ {<<proc[p].app, o>>}
    /\ UNCHANGED <<userVars, clones, helmClient, release, live, app, events>>

\* Mutant of EndOfClear: the DeployResources left are not waited for.
EndOfClearEarly(p) ==
    /\ At(p, "clear")
    /\ Goto(p, "hook")
    /\ UNCHANGED <<userVars, clones, helmClient, clusterVars, app, events>>

EndOfClear(p) ==
    /\ At(p, "clear") /\ proc[p].old = {}
    /\ Goto(p, "hook")
    /\ UNCHANGED <<userVars, clones, helmClient, clusterVars, app, events>>

\* clearWebhook succeeds, clearGitRepo removes the clone.
ClearGitRepo(p) ==
    /\ At(p, "hook")
    /\ clones' = [clones EXCEPT ![proc[p].app] = None]
    /\ Goto(p, "remove")
    /\ UNCHANGED <<userVars, helmClient, clusterVars, app, events>>

\* The Update that takes the finalizer away.
RemoveFinalizer(p) ==
    /\ At(p, "remove")
    /\ app' = [app EXCEPT ![proc[p].app] = "gone"]
    /\ Return(p)
    /\ UNCHANGED <<userVars, clones, helmClient, clusterVars, events>>

(***************************************************************************)
(* The specification.                                                      *)
(***************************************************************************)
Init ==
    /\ target = [a \in Apps |-> Default]
    /\ head = [a \in Apps |-> [b \in Branches |-> IF b = Default THEN ObjsOf[a] ELSE {}]]
    /\ clones = [a \in Apps |-> None] /\ helmClient = None
    /\ release = [c \in Clusters |-> [a \in Apps |-> Absent]]
    /\ live = [c \in Clusters |-> {}] /\ records = {}
    /\ app = [a \in Apps |-> "live"]
    /\ proc = [p \in Procs |-> IdleProc]
    /\ events = 0

UserStep ==
    \E a \in Apps :
        \/ \E b \in Branches, chart \in SUBSET ObjsOf[a] : GitPush(a, b, chart)
        \/ \E b \in Branches : EditTarget(a, b)
        \/ DeleteApp(a)

SyncStep(p) ==
    \/ Fetch(p) \/ SetTargetClient(p) \/ GetDeployResourceList(p) \/ ObjectFromManifest(p)
    \/ \E o \in Objs : UpdateDeployResource(p, o) \/ DeleteDeployResource(p, o)
    \/ EndOfManifest(p) \/ DeleteDeprecated(p) \/ InstallHelmChart(p) \/ InstallEnd(p)

ClearStep(p) ==
    \/ UninstallRelease(p) \/ EndOfClear(p) \/ ClearGitRepo(p) \/ RemoveFinalizer(p)
    \/ \E o \in Objs : ClearDeployResource(p, o)

Next ==
    \/ UserStep \/ Crash
    \/ \E p \in Procs : \/ SyncStep(p) \/ ClearStep(p) \/ CallFails(p)
                        \/ \E a \in Apps : CheckSync(p, a)

\* Goroutines run on, and the work queue hands out every Application in turn.
Fairness ==
    /\ \A p \in Procs : WF_vars(SyncStep(p) \/ ClearStep(p))
    /\ \A a \in Apps : SF_vars(CheckSync(Worker, a))

Spec == Init /\ [][Next]_vars
FairSpec == Spec /\ Fairness

(***************************************************************************)
(* Properties.                                                             *)
(***************************************************************************)
\* An installation that was broken off: helm refuses every later one.
Stuck(a) ==
    /\ \E c \in Clusters : release[c][a].status = "pending"
    /\ \A p \in Procs : At(p, "wait") => proc[p].app # a

\* A Sync that had the manager to itself and installs leaves release, objects
\* and DeployResources in agreement, in the cluster the Application names and
\* with what its dry run, some calls earlier, returned.
InstallsWhatWasRecorded ==
    [][\A p \in Procs :
          /\ At(p, "wait") /\ proc[p].alone
          /\ release' # release
          => LET a == proc[p].app
                 m == proc[p].manifest IN
             /\ release'[DestOf[a]][a] = [status |-> "deployed", chart |-> m]
             /\ m = live[DestOf[a]] \cap ObjsOf[a]
             /\ RecordsOf(a) = m]_vars

\* The finalizer goes from an Application of which neither release nor object,
\* record or clone is left, whatever failed or died before, unless another call
\* came in between.
FinalizedIsClean ==
    [][\A a \in Apps :
          app'[a] = "gone" /\ app[a] # "gone" /\ proc[Worker].alone
            => /\ release[DestOf[a]][a] = Absent
               /\ live[DestOf[a]] \cap ObjsOf[a] = {}
               /\ RecordsOf(a) = {} /\ clones[a] = None]_vars

\* The process does not die by itself, without a failing call, but for a broken
\* off installation, another call that came in between, or the deletion of an
\* Application that is synced by hand and has no release.
DiesOnlyOf ==
    [][\A p \in Procs :
          /\ proc[p].pc \in {"render", "install", "wait", "uninstall"}
          /\ proc'[p] = IdleProc /\ UNCHANGED <<release, events>> /\ proc[p].alone
          => \/ Stuck(proc[p].app)
             \/ proc[p].app \notin AutoSync /\ At(p, "uninstall")]_vars

Overlap == \E p \in Procs : ~proc[p].alone

\* A clone of another branch, which may be refused at every Pull.
Diverted(a) == clones[a] # None /\ clones[a].branch # Default

\* The deletion of an Application that AutoSync keeps is carried out, unless other
\* calls come in between for ever or its clone cannot be pulled: one that breaks
\* off after the release was uninstalled is tried again, and that installs the
\* chart before it uninstalls it.
DeletionCompletes ==
    \A a \in AutoSync :
        \/ app[a] = "deleting" ~> app[a] = "gone" \/ \E b \in Apps : Stuck(b)
        \/ []<>(Overlap \/ Diverted(a))

\* An Application sync keeps at its target revision: its release comes to follow
\* the head of that branch for good, whatever its first clone was made of.  The
\* promise ends where TargetRevision names another branch than the repository's
\* default for ever or again and again: gitPull does not look at it.
ReleaseFollowsTarget ==
    \A a \in AutoSync :
        \/ <>[](app[a] = "live" /\ clones[a] # None
                 => release[DestOf[a]][a].chart = head[a][target[a]])
        \/ <>(\E b \in Apps : Stuck(b))
        \/ []<>(Overlap \/ Diverted(a) \/ target[a] # Default)
=============================================================================
