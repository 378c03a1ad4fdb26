------------------------------- MODULE Expose --------------------------------
(***************************************************************************)
(* How the operator finds out under which host name its webhook server is  *)
(* exposed.  The config controller copies the ConfigMap cd-config into the *)
(* variables of package configs and notifies two watchers, of the Service  *)
(* and of the Ingress, over channels of capacity one.  A watcher           *)
(* reconciles the last version it was given and sends a host name to the   *)
(* one goroutine that sets CurrentExternalHostName                         *)
(* (controllers/{configmap,expose}_controller.go, internal/configs).       *)
(*                                                                         *)
(* The variables are shared without locks: they are written one by one, in *)
(* any order, and every read is a step of its own.                         *)
(*                                                                         *)
(* Abstractions.  IngressClass is left out: it goes the way of IngressHost *)
(* into the same Ingress.  Ports are left out.  A watch that is restarted  *)
(* repeats the version it ended with, which its reader drops: no step.     *)
(***************************************************************************)
EXTENDS Naturals, Sequences, SequencesExt

CONSTANTS Names,       \* host names an administrator may configure
          Ips,         \* addresses load balancers hand out
          NoIp,        \* no address yet
          Settings,    \* contents of the ConfigMap cd-config
          Env,         \* what the environment may do, a subset of EnvEvents
          MaxEdits,    \* bound: edits of the ConfigMap
          MaxAssigned, \* bound: addresses handed out
          MaxFaults    \* bound: crashes and failing updates together

EnvEvents == {"slowAdd",     \* the first event may precede cfgCtrl.Add
              "lostAppend"}  \* two appends to the slice of channels may race

ExposeModes == {"Ingress", "LoadBalancer", "ClusterIP"}

ASSUME EnvAssumption == Env \subseteq EnvEvents
ASSUME IpAssumption == NoIp \notin Ips
ASSUME BoundAssumption ==
    MaxEdits \in Nat /\ MaxAssigned \in Nat /\ MaxFaults \in Nat

VARIABLES
    log,       \* the settings cd-config has had, the present one last
    rsc,       \* Service and Ingress as the API server stores them
    events,    \* per watcher: the versions its watch has not delivered yet
    cfgSeen,   \* how many of the settings the config controller has been given
    ctrl,      \* the config controller: what is left to write and to notify
    config,    \* the variables ExposeMode, ExternalHostName, IngressHost
    main,      \* how far main has come
    initCh,    \* ControllerInitCh holds its one element
    chans,     \* controllerConfigUpdateChan: the watchers registered in it
    cfgCh,     \* the watchers whose channel holds its one element
    watcher,   \* the two watchResource goroutines
    updater,   \* the goroutine that receives host names
    current,   \* CurrentExternalHostName
    failed,    \* the watchers whose last update failed
    assigned, faults

apiVars == <<log, rsc, events>>
ctrlVars == <<cfgSeen, ctrl, config, main, initCh, chans>>
bounds == <<failed, assigned, faults>>

vars == <<apiVars, ctrlVars, cfgCh, watcher, updater, current, bounds>>

Watchers == {"service", "ingress"}

NoHost == <<"none">>
Configured == {<<"name", n>> : n \in Names}
OptionalHost == Configured \cup {NoHost}
\* The host in config/cd-webhook.yaml's Ingress, and the Service's own address.
Placeholder == <<"waiting.for.loadbalancer">>
ClusterHost == <<"clusterIP">>

Host == OptionalHost \cup {Placeholder, ClusterHost} \cup ({"nip.io", "lb"} \X Ips)

Fields == {"mode", "external", "ingressHost"}

Modes == ExposeModes \cup {"", "NodePort"}   \* the last one is not valid

Setting == [mode : Modes, external : OptionalHost, ingressHost : OptionalHost]

ASSUME SettingsAssumption == Settings \subseteq Setting

Unset == [mode |-> "", external |-> NoHost, ingressHost |-> NoHost]

Resource == [host : Host, type : {"LoadBalancer", "ClusterIP"}, ip : Ips \cup {NoIp}]

\* config/cd-webhook.yaml: a ClusterIP Service, an Ingress with one rule.
Deployed == [host |-> Placeholder, type |-> "ClusterIP", ip |-> NoIp]

Watcher ==
    [pc    : {"off", "register", "append", "select", "mode", "host", "assign",
              "send", "update"},
     slice : SUBSET Watchers,       \* the slice it appends to, as it was read
     seen  : BOOLEAN,               \* lastResource is set
     last  : Resource,              \* lastResource, which reconcile changes in place
     fresh : BOOLEAN,               \* it is the stored version
     mode  : ExposeModes,           \* the mode this turn works with
     offer : Host]                  \* the host it sends

Off == [pc |-> "off", slice |-> {}, seen |-> FALSE, last |-> Deployed,
        fresh |-> FALSE, mode |-> "Ingress", offer |-> NoHost]

CtrlIdle == [pc |-> "idle", write |-> {}, notify |-> {}]

UpdaterIdle == [pc |-> "idle", host |-> NoHost]

(***************************************************************************)
(* The environment.                                                        *)
(***************************************************************************)
EditConfig(s) ==
    /\ Len(log) <= MaxEdits
    /\ s # Last(log)
    /\ log' = Append(log, s)
    /\ UNCHANGED <<rsc, events, ctrlVars, cfgCh, watcher, updater, current, bounds>>

\* A new version x of w's resource is stored: what w holds is no longer it.
Store(w, x, watcherNow) ==
    /\ rsc' = [rsc EXCEPT ![w] = x]
    /\ events' = [events EXCEPT ![w] = Append(@, x)]
    /\ watcher' = [watcherNow EXCEPT ![w].fresh = FALSE]
    /\ UNCHANGED log

\* A load balancer or an ingress controller hands out an address.
AssignIp(w, ip) ==
    /\ assigned < MaxAssigned
    /\ assigned' = assigned + 1
    /\ rsc[w].ip # ip
    /\ Store(w, [rsc[w] EXCEPT !.ip = ip], watcher)
    /\ UNCHANGED <<ctrlVars, cfgCh, updater, current, failed, faults>>

(***************************************************************************)
(* main and the config controller.                                         *)
(***************************************************************************)

\* cfgCtrl.Add, which main calls after it has started the controller.
AddHandler ==
    /\ main = "add"
    /\ main' = "wait"
    /\ UNCHANGED <<apiVars, cfgSeen, ctrl, config, initCh, chans, cfgCh, watcher,
                   updater, current, bounds>>

\* main goes on and starts the expose controller.
InitReceived ==
    /\ main = "wait" /\ initCh
    /\ main' = "up"
    /\ initCh' = FALSE
    /\ watcher' = [w \in Watchers |-> [Off EXCEPT !.pc = "register"]]
    /\ UNCHANGED <<apiVars, cfgSeen, ctrl, config, chans, cfgCh, updater, current,
                   bounds>>

\* The watch delivers a version; those in between are lost with a watch that
\* ended.  Without a handler the version is noted and nothing done.
ConfigEvent(n) ==
    /\ ctrl.pc = "idle"
    /\ n \in (cfgSeen + 1)..Len(log)
    /\ cfgSeen = 0 => n = Len(log)
    /\ main = "add" => "slowAdd" \in Env
    /\ cfgSeen' = n
    /\ ctrl' = IF main = "add" THEN ctrl
               ELSE [CtrlIdle EXCEPT !.pc = "write",
                                !.write = {f \in Fields : config[f] # log[n][f]}]
    /\ UNCHANGED <<apiVars, config, main, initCh, chans, cfgCh, watcher, updater,
                   current, bounds>>

\* getVars ranges over a map: the order of the variables is random.  Writing what
\* is there already is no step.
GetVar(f) ==
    /\ ctrl.pc = "write" /\ f \in ctrl.write
    /\ config' = [config EXCEPT ![f] = log[cfgSeen][f]]
    /\ ctrl' = [ctrl EXCEPT !.write = @ \ {f}]
    /\ UNCHANGED <<apiVars, cfgSeen, main, initCh, chans, cfgCh, watcher, updater,
                   current, bounds>>

\* ControllerInitCh is filled the first time; the slice is read once.
GetVarsDone ==
    /\ ctrl.pc = "write" /\ ctrl.write = {}
    /\ initCh' = (initCh \/ main = "wait")
    /\ ctrl' = [ctrl EXCEPT !.pc = "notify", !.notify = chans]
    /\ UNCHANGED <<apiVars, cfgSeen, config, main, chans, cfgCh, watcher, updater,
                   current, bounds>>

\* Mutant of Notify: a watcher that is at work is not notified.
NotifyWaiting(w) ==
    /\ ctrl.pc = "notify" /\ w \in ctrl.notify
    /\ cfgCh' = IF watcher[w].pc = "select" THEN cfgCh \cup {w} ELSE cfgCh
    /\ ctrl' = [ctrl EXCEPT !.notify = @ \ {w}]
    /\ UNCHANGED <<apiVars, cfgSeen, config, main, initCh, chans, watcher, updater,
                   current, bounds>>

\* The channel is filled unless it is full: notifications merge.
Notify(w) ==
    /\ ctrl.pc = "notify" /\ w \in ctrl.notify
    /\ cfgCh' = cfgCh \cup {w}
    /\ ctrl' = [ctrl EXCEPT !.notify = @ \ {w}]
    /\ UNCHANGED <<apiVars, cfgSeen, config, main, initCh, chans, watcher, updater,
                   current, bounds>>

NotifyDone ==
    /\ ctrl.pc = "notify" /\ ctrl.notify = {}
    /\ ctrl' = CtrlIdle
    /\ UNCHANGED <<apiVars, cfgSeen, config, main, initCh, chans, cfgCh, watcher,
                   updater, current, bounds>>

(***************************************************************************)
(* startResourceWatcher and watchResource.                                 *)
(***************************************************************************)
At(w, pc) == watcher[w].pc = pc

Goto(w, pc) == watcher' = [watcher EXCEPT ![w].pc = pc]

\* The end of a turn: what is left of it is lastResource.
Turned(w) ==
    [watcher EXCEPT ![w] = [@ EXCEPT !.pc = "select", !.slice = {},
                                     !.mode = "Ingress", !.offer = NoHost]]

\* RegisterControllerConfigUpdateChan reads the slice; the first Get follows.
ReadChans(w) ==
    /\ At(w, "register")
    /\ "lostAppend" \notin Env => \A v \in Watchers : ~At(v, "append")
    /\ watcher' = [watcher EXCEPT ![w].slice = chans, ![w].pc = "append"]
    /\ UNCHANGED <<apiVars, ctrlVars, cfgCh, updater, current, bounds>>

\* The append is stored and the watch begins with the stored version.
RegisterChan(w) ==
    /\ At(w, "append")
    /\ chans' = watcher[w].slice \cup {w}
    /\ events' = [events EXCEPT ![w] = <<rsc[w]>>]
    /\ watcher' = Turned(w)
    /\ UNCHANGED <<log, rsc, cfgSeen, ctrl, config, main, initCh, cfgCh, updater,
                   current, bounds>>

RscUpdate(w) ==
    /\ At(w, "select") /\ events[w] # <<>>
    /\ watcher' = [watcher EXCEPT ![w].seen = TRUE, ![w].last = Head(events[w]),
                                  ![w].fresh = (Len(events[w]) = 1),
                                  ![w].pc = "mode"]
    /\ events' = [events EXCEPT ![w] = Tail(@)]
    /\ UNCHANGED <<log, rsc, ctrlVars, cfgCh, updater, current, bounds>>

CfgUpdate(w) ==
    /\ At(w, "select") /\ w \in cfgCh
    /\ cfgCh' = cfgCh \ {w}
    /\ IF watcher[w].seen THEN Goto(w, "mode") ELSE UNCHANGED watcher
    /\ UNCHANGED <<apiVars, ctrlVars, updater, current, bounds>>

EffectiveMode(m) == IF m = "" THEN "Ingress" ELSE m

\* configs.ExposeMode is read and validated.
ReadMode(w) ==
    /\ At(w, "mode")
    /\ LET mode == EffectiveMode(config.mode) IN
         IF mode \in ExposeModes
         THEN watcher' = [watcher EXCEPT ![w].mode = mode, ![w].pc = "host"]
         ELSE Goto(w, "select")
    /\ UNCHANGED <<apiVars, ctrlVars, cfgCh, updater, current, bounds>>

\* Mutant of ServiceType: the mode is taken for a type.
ServiceTypeOfMode(mode) == mode

ServiceType(mode) == IF mode = "Ingress" THEN "ClusterIP" ELSE mode

\* generateExternalHost; without an address it is an error.
ExternalHost(svc, mode) ==
    IF mode = "ClusterIP" THEN ClusterHost
    ELSE IF svc.ip = NoIp THEN NoHost ELSE <<"lb", svc.ip>>

\* Mutant of ReconcileService: a Service that has its type is left alone.
ReconcileServiceOnce ==
    /\ At("service", "host")
    /\ LET t == watcher["service"]
       IN  watcher' = [watcher EXCEPT
             !["service"].last.type = ServiceType(t.mode),
             !["service"].offer = ExternalHost(t.last, t.mode),
             !["service"].pc =
               IF t.mode = "Ingress" \/ t.last.type = t.mode THEN "update" ELSE "send"]
    /\ UNCHANGED <<apiVars, ctrlVars, cfgCh, updater, current, bounds>>

\* exposeServiceReconciler.reconcile up to the host it sends or does not send.
ReconcileService ==
    /\ At("service", "host")
    /\ LET t == watcher["service"]
           offer == ExternalHost(t.last, t.mode)
       IN  watcher' = [watcher EXCEPT
             !["service"].last.type = ServiceType(t.mode),
             !["service"].offer = offer,
             !["service"].pc =
               IF t.mode = "Ingress" \/ offer = NoHost THEN "update" ELSE "send"]
    /\ UNCHANGED <<apiVars, ctrlVars, cfgCh, updater, current, bounds>>

\* The host of the first rule is x; it is sent in mode Ingress only.
SetRuleHost(x, pc) ==
    watcher' = [watcher EXCEPT !["ingress"].last.host = x, !["ingress"].offer = x,
                               !["ingress"].pc = pc]

AfterHost == IF watcher["ingress"].mode = "Ingress" THEN "send" ELSE "update"

\* exposeIngressReconciler.reconcile: is IngressHost set?
ReconcileIngress ==
    /\ At("ingress", "host")
    /\ LET t == watcher["ingress"] IN
         IF config.ingressHost # NoHost THEN Goto("ingress", "assign")
         ELSE SetRuleHost(IF t.last.ip # NoIp THEN <<"nip.io", t.last.ip>>
                                              ELSE t.last.host, AfterHost)
    /\ UNCHANGED <<apiVars, ctrlVars, cfgCh, updater, current, bounds>>

\* IngressHost is read once more for the assignment.
AssignIngressHost ==
    /\ At("ingress", "assign")
    /\ SetRuleHost(config.ingressHost, AfterHost)
    /\ UNCHANGED <<apiVars, ctrlVars, cfgCh, updater, current, bounds>>

\* hostUpdateCh has no buffer: the watcher waits for the updater.
SendHost(w) ==
    /\ At(w, "send")
    /\ updater.pc = "idle"
    /\ updater' = IF watcher[w].offer = NoHost THEN updater
                  ELSE [pc |-> "check", host |-> watcher[w].offer]
    /\ Goto(w, "update")
    /\ UNCHANGED <<apiVars, ctrlVars, cfgCh, current, bounds>>

\* client.Update, refused if the version is old, its error only logged.
UpdateResource(w) ==
    /\ At(w, "update")
    /\ IF watcher[w].fresh /\ watcher[w].last # rsc[w]
       THEN Store(w, watcher[w].last, Turned(w))
       ELSE watcher' = Turned(w) /\ UNCHANGED apiVars
    /\ failed' = failed \ {w}
    /\ UNCHANGED <<ctrlVars, cfgCh, updater, current, assigned, faults>>

UpdateResourceErr(w) ==
    /\ At(w, "update")
    /\ faults < MaxFaults
    /\ faults' = faults + 1
    /\ failed' = failed \cup {w}
    /\ watcher' = Turned(w)
    /\ UNCHANGED <<apiVars, ctrlVars, cfgCh, updater, current, assigned>>

(***************************************************************************)
(* updateExternalURL.                                                      *)
(***************************************************************************)

\* Is ExternalHostName configured?
UpdateExternalURL ==
    /\ updater.pc = "check"
    /\ IF config.external # NoHost
       THEN updater' = [updater EXCEPT !.pc = "assign"] /\ UNCHANGED current
       ELSE updater' = UpdaterIdle /\ current' = updater.host
    /\ UNCHANGED <<apiVars, ctrlVars, cfgCh, watcher, bounds>>

\* It is read once more for the assignment.
AssignExternalHost ==
    /\ updater.pc = "assign"
    /\ current' = config.external
    /\ updater' = UpdaterIdle
    /\ UNCHANGED <<apiVars, ctrlVars, cfgCh, watcher, bounds>>

(***************************************************************************)
(* The specification.                                                      *)
(***************************************************************************)
Crash ==
    /\ faults < MaxFaults
    /\ faults' = faults + 1
    /\ failed' = {}
    /\ cfgSeen' = 0
    /\ ctrl' = CtrlIdle
    /\ config' = Unset
    /\ main' = "add"
    /\ initCh' = FALSE
    /\ chans' = {}
    /\ events' = [w \in Watchers |-> <<>>]
    /\ cfgCh' = {}
    /\ watcher' = [w \in Watchers |-> Off]
    /\ updater' = UpdaterIdle
    /\ current' = NoHost
    /\ UNCHANGED <<log, rsc, assigned>>

Init ==
    /\ \E s \in Settings : log = <<s>>
    /\ rsc = [w \in Watchers |-> Deployed]
    /\ events = [w \in Watchers |-> <<>>]
    /\ cfgSeen = 0
    /\ ctrl = CtrlIdle
    /\ config = Unset
    /\ main = "add"
    /\ initCh = FALSE
    /\ chans = {}
    /\ cfgCh = {}
    /\ watcher = [w \in Watchers |-> Off]
    /\ updater = UpdaterIdle
    /\ current = NoHost
    /\ assigned = 0
    /\ failed = {}
    /\ faults = 0

CtrlStep ==
    \/ \E n \in 1..Len(log) : ConfigEvent(n)
    \/ \E f \in Fields : GetVar(f)
    \/ GetVarsDone
    \/ \E w \in Watchers : Notify(w)
    \/ NotifyDone

MainStep == AddHandler \/ InitReceived

WatcherStep(w) ==
    \/ ReadChans(w) \/ RegisterChan(w)
    \/ RscUpdate(w) \/ CfgUpdate(w)
    \/ ReadMode(w)
    \/ w = "service" /\ ReconcileService
    \/ w = "ingress" /\ (ReconcileIngress \/ AssignIngressHost)
    \/ SendHost(w)
    \/ UpdateResource(w) \/ UpdateResourceErr(w)

UpdaterStep == UpdateExternalURL \/ AssignExternalHost

Next ==
    \/ \E s \in Settings : EditConfig(s)
    \/ \E w \in Watchers, ip \in Ips : AssignIp(w, ip)
    \/ CtrlStep \/ MainStep \/ UpdaterStep
    \/ \E w \in Watchers : WatcherStep(w)
    \/ Crash

Spec == Init /\ [][Next]_vars

(***************************************************************************)
(* Properties.                                                             *)
(***************************************************************************)

\* The values the variables take.
TypeOK ==
    /\ log \in Seq(Setting)
    /\ rsc \in [Watchers -> Resource]
    /\ events \in [Watchers -> Seq(Resource)]
    /\ cfgSeen \in 0..Len(log)
    /\ ctrl \in [pc : {"idle", "write", "notify"}, write : SUBSET Fields,
                 notify : SUBSET Watchers]
    /\ config \in Setting
    /\ main \in {"add", "wait", "up"}
    /\ initCh \in BOOLEAN
    /\ chans \subseteq Watchers
    /\ cfgCh \subseteq Watchers
    /\ watcher \in [Watchers -> Watcher]
    /\ updater \in [pc : {"idle", "check", "assign"}, host : Host]
    /\ current \in Host
    /\ assigned \in 0..MaxAssigned
    /\ failed \subseteq Watchers
    /\ faults \in 0..MaxFaults

Latest == Last(log)
Mode == EffectiveMode(Latest.mode)

\* Service and Ingress are as the present settings want them.
ResourcesFollow ==
    Mode \in ExposeModes =>
        /\ rsc["service"].type = ServiceType(Mode)
        /\ \/ /\ Latest.ingressHost # NoHost
              /\ rsc["ingress"].host = Latest.ingressHost
           \/ /\ Latest.ingressHost = NoHost
              /\ \/ rsc["ingress"].ip = NoIp
                 \/ rsc["ingress"].host = <<"nip.io", rsc["ingress"].ip>>

\* The host the present mode exposes the webhook server under, or none yet.
Exposed ==
    IF Mode = "Ingress" THEN rsc["ingress"].host ELSE ExternalHost(rsc["service"], Mode)

\* CurrentExternalHostName is that host, unless another one is configured.
HostFollows ==
    Mode \in ExposeModes /\ Exposed # NoHost =>
        current = IF Latest.external # NoHost THEN Latest.external ELSE Exposed

\* No goroutine has anything left to do, be it that main waits for ever.
Quiet ==
    /\ cfgSeen = Len(log) /\ ctrl.pc = "idle"
    /\ main # "add" /\ ~initCh
    /\ \A w \in Watchers :
         /\ watcher[w].pc \in {"off", "select"}
         /\ watcher[w].pc = "select" => events[w] = <<>>
    /\ cfgCh = {}
    /\ updater.pc = "idle"

\* However the settings are edited, whichever of a watcher's updates conflict and
\* whichever notifications merge: when all is done Service and Ingress are as the
\* last settings want them, unless the last update failed.
SettledResources == Quiet /\ failed = {} => ResourcesFollow

ModeKept == \A i \in DOMAIN log : EffectiveMode(log[i].mode) = Mode

\* Then webhooks are registered with the host name the last settings ask for, if
\* exposeMode has not been changed on the way.
SettledHost == Quiet /\ failed = {} /\ ModeKept => HostFollows
==============================================================================
