---------------------------- MODULE ExposeProofs -----------------------------
(***************************************************************************)
(* Theorems of Expose, for any settings, names and addresses and any       *)
(* number of edits, addresses handed out, failing updates and crashes.     *)
(***************************************************************************)
EXTENDS Expose, SequenceTheorems, TLAPS

(***************************************************************************)
(* Type correctness.                                                       *)
(***************************************************************************)
LEMMA OffType == Off \in Watcher /\ Deployed \in Resource /\ Unset \in Setting
BY IpAssumption DEF Off, Deployed, Watcher, Resource, Host, OptionalHost, ExposeModes, Unset,
                    Setting, Modes

\* The last element of a sequence, and what Append and Tail do to it.
LEMMA LastDoes ==
    ASSUME NEW S, NEW s \in Seq(S)
    PROVE  /\ s # <<>> => Len(s) \in Nat /\ 1 <= Len(s) /\ Last(s) = s[Len(s)] /\ Last(s) \in S
           /\ \A x \in S : /\ Append(s, x) \in Seq(S) /\ Append(s, x) # <<>>
                           /\ Last(Append(s, x)) = x
                           /\ Len(Append(s, x)) = Len(s) + 1
                           /\ \A i \in 1..Len(s) : Append(s, x)[i] = s[i]
           /\ s # <<>> => /\ Tail(s) \in Seq(S) /\ Head(s) \in S
                          /\ Tail(s) # <<>> => Last(Tail(s)) = Last(s)
                          /\ Len(s) = 1 <=> Tail(s) = <<>>
                          /\ Len(s) = 1 => Head(s) = Last(s)
<1>1. Len(s) \in Nat /\ (s # <<>> => 1 <= Len(s))
  OBVIOUS
<1>2. s # <<>> => s[Len(s)] \in S
  BY <1>1
<1>3. ASSUME NEW x \in S
      PROVE  /\ Append(s, x) \in Seq(S) /\ Append(s, x) # <<>>
             /\ Len(Append(s, x)) = Len(s) + 1
             /\ Append(s, x)[Len(s) + 1] = x
             /\ \A i \in 1..Len(s) : Append(s, x)[i] = s[i]
  BY <1>1
<1>4. ASSUME s # <<>>
      PROVE  /\ Tail(s) \in Seq(S) /\ Head(s) \in S /\ Head(s) = s[1]
             /\ Len(Tail(s)) = Len(s) - 1
             /\ \A i \in 1..(Len(s) - 1) : Tail(s)[i] = s[i + 1]
  BY <1>1, <1>4, HeadTailProperties
<1>5. ASSUME s # <<>>, Tail(s) # <<>>
      PROVE  Last(Tail(s)) = Last(s)
  <2>1. 1 <= Len(Tail(s))
    BY <1>4, <1>5
  <2>2. Len(s) - 1 \in 1..(Len(s) - 1) /\ (Len(s) - 1) + 1 = Len(s)
    BY <1>1, <1>4, <1>5, <2>1
  <2> QED  BY <1>4, <1>5, <2>2 DEF Last
<1>6. s # <<>> => (Len(s) = 1 <=> Tail(s) = <<>>)
  <2>1. ASSUME s # <<>>
        PROVE  Len(Tail(s)) = 0 <=> Tail(s) = <<>>
    BY <1>4, <2>1, EmptySeq
  <2> QED  BY <1>1, <1>4, <2>1
<1> QED  BY <1>1, <1>2, <1>3, <1>4, <1>5, <1>6 DEF Last

\* The config controller has nothing to do before it is given the settings.
TypeInv == TypeOK /\ (cfgSeen = 0 => ctrl.pc = "idle")

LEMMA TypeInit == Init => TypeInv
<1> SUFFICES ASSUME Init
             PROVE  TypeInv
  OBVIOUS
<1>1. log \in Seq(Setting) /\ Len(log) = 1
  BY SettingsAssumption DEF Init
<1>2. NoHost \in Host /\ \A S : <<>> \in Seq(S)
  BY DEF Host, OptionalHost
<1>3. /\ rsc \in [Watchers -> Resource] /\ events \in [Watchers -> Seq(Resource)]
      /\ watcher \in [Watchers -> Watcher] /\ config \in Setting
  BY <1>2, OffType DEF Init
<1>4. cfgSeen \in 0..Len(log) /\ assigned \in 0..MaxAssigned /\ faults \in 0..MaxFaults
  BY <1>1, BoundAssumption DEF Init
<1>5. /\ updater \in [pc : {"idle", "check", "assign"}, host : Host]
      /\ ctrl \in [pc : {"idle", "write", "notify"}, write : SUBSET Fields,
                   notify : SUBSET Watchers]
  BY <1>2 DEF Init, CtrlIdle, UpdaterIdle
<1> QED  BY <1>1, <1>2, <1>3, <1>4, <1>5 DEF Init, TypeInv, TypeOK, CtrlIdle

LEMMA EnvType ==
    ASSUME TypeInv
    PROVE  /\ \A s \in Settings : EditConfig(s) => TypeInv'
           /\ \A w \in Watchers, ip \in Ips : AssignIp(w, ip) => TypeInv'
           /\ Crash => TypeInv'
<1> USE DEF ctrlVars, bounds, apiVars, TypeInv
<1>1. ASSUME NEW s \in Settings, EditConfig(s)
      PROVE  TypeInv'
  <2>1. s \in Setting /\ log \in Seq(Setting)
    BY SettingsAssumption DEF TypeOK
  <2>2. log' \in Seq(Setting) /\ Len(log') = Len(log) + 1 /\ Len(log) \in Nat
    BY <1>1, <2>1, LastDoes DEF EditConfig
  <2> QED  BY <1>1, <2>2 DEF EditConfig, TypeOK
<1>2. ASSUME NEW w \in Watchers, NEW ip \in Ips, AssignIp(w, ip)
      PROVE  TypeInv'
  <2> DEFINE x == [rsc[w] EXCEPT !.ip = ip]
  <2>1. rsc[w] \in Resource /\ events[w] \in Seq(Resource)
    BY DEF TypeOK
  <2>2. x \in Resource
    BY <2>1 DEF Resource
  <2>3. /\ rsc' = [rsc EXCEPT ![w] = x]
        /\ events' = [events EXCEPT ![w] = Append(@, x)]
        /\ watcher' = [watcher EXCEPT ![w].fresh = FALSE]
    BY <1>2 DEF AssignIp, Store
  <2> HIDE DEF x
  <2>4. rsc' \in [Watchers -> Resource] /\ events' \in [Watchers -> Seq(Resource)]
    BY <2>1, <2>2, <2>3, LastDoes DEF TypeOK
  <2>5. watcher' \in [Watchers -> Watcher]
    <3>1. watcher[w] \in Watcher
      BY DEF TypeOK
    <3>2. [watcher[w] EXCEPT !.fresh = FALSE] \in Watcher
      BY <3>1 DEF Watcher
    <3> QED  BY <2>3, <3>2 DEF TypeOK
  <2>6. assigned' \in 0..MaxAssigned
    BY <1>2, BoundAssumption DEF AssignIp, TypeOK
  <2> QED  BY <1>2, <2>4, <2>5, <2>6 DEF AssignIp, Store, TypeOK
<1>3. ASSUME Crash
      PROVE  TypeInv'
  <2>1. faults' \in 0..MaxFaults
    BY <1>3, BoundAssumption DEF Crash, TypeOK
  <2>2. Len(log) \in Nat /\ <<>> \in Seq(Resource) /\ NoHost \in Host
    BY DEF TypeOK, Host, OptionalHost
  <2>3. /\ events' \in [Watchers -> Seq(Resource)] /\ watcher' \in [Watchers -> Watcher]
        /\ updater' \in [pc : {"idle", "check", "assign"}, host : Host]
    BY <1>3, <2>2, OffType DEF Crash, UpdaterIdle
  <2>4. cfgSeen' \in 0..Len(log') /\ config' \in Setting /\ current' \in Host
    BY <1>3, <2>2, OffType DEF Crash
  <2> QED  BY <1>3, <2>1, <2>3, <2>4 DEF Crash, TypeOK, CtrlIdle
<1> QED  BY <1>1, <1>2, <1>3

LEMMA CtrlType ==
    ASSUME TypeInv, CtrlStep \/ MainStep
    PROVE  TypeInv'
<1> USE DEF ctrlVars, bounds, apiVars, CtrlIdle, TypeInv
<1>1. CASE AddHandler
  BY <1>1 DEF AddHandler, TypeOK
<1>2. CASE InitReceived
  <2>1. [Off EXCEPT !.pc = "register"] \in Watcher
    BY OffType DEF Watcher
  <2> QED  BY <1>2, <2>1 DEF InitReceived, TypeOK
<1>3. ASSUME NEW n \in 1..Len(log), ConfigEvent(n)
      PROVE  TypeInv'
  <2>1. n \in 0..Len(log) /\ n # 0
    BY DEF TypeOK
  <2>2. ctrl' \in [pc : {"idle", "write", "notify"}, write : SUBSET Fields,
                   notify : SUBSET Watchers]
    BY <1>3 DEF ConfigEvent, TypeOK
  <2> QED  BY <1>3, <2>1, <2>2 DEF ConfigEvent, TypeOK
<1>4. ASSUME NEW f \in Fields, GetVar(f)
      PROVE  TypeInv'
  <2>1. cfgSeen \in 1..Len(log) /\ log[cfgSeen] \in Setting
    BY <1>4 DEF GetVar, TypeOK
  <2>2. PICK s \in Setting : config' = [config EXCEPT ![f] = s[f]]
    BY <1>4, <2>1 DEF GetVar
  <2>3. config' \in Setting
    BY <2>2 DEF TypeOK, Setting, Fields
  <2> QED  BY <1>4, <2>3 DEF GetVar, TypeOK
<1>5. CASE GetVarsDone
  BY <1>5 DEF GetVarsDone, TypeOK
<1>6. ASSUME NEW w \in Watchers, Notify(w)
      PROVE  TypeInv'
  BY <1>6 DEF Notify, TypeOK
<1>7. CASE NotifyDone
  BY <1>7 DEF NotifyDone, TypeOK
<1> QED  BY <1>1, <1>2, <1>3, <1>4, <1>5, <1>6, <1>7 DEF CtrlStep, MainStep
(***************************************************************************)
(* What a watcher's steps do.                                              *)
(***************************************************************************)
ModeNow == EffectiveMode(config.mode)

\* A step of w changes no other watcher; Keeps: nor what w knows of its resource.
Moves(w, pc) ==
    /\ watcher' \in [Watchers -> Watcher] /\ watcher'[w].pc = pc
    /\ \A v \in Watchers \ {w} : watcher'[v] = watcher[v]

Keeps(w) ==
    /\ watcher'[w].seen = watcher[w].seen /\ watcher'[w].last = watcher[w].last
    /\ watcher'[w].fresh = watcher[w].fresh

LEMMA MovesTo ==
    ASSUME TypeOK, NEW w \in Watchers, NEW t \in Watcher, watcher' = [watcher EXCEPT ![w] = t]
    PROVE  Moves(w, t.pc) /\ watcher'[w] = t
BY DEF TypeOK, Moves

LEMMA GotoDoes ==
    ASSUME TypeOK, NEW w \in Watchers,
           NEW pc \in {"off", "register", "append", "select", "mode", "host", "assign",
                       "send", "update"},
           Goto(w, pc)
    PROVE  /\ Moves(w, pc) /\ Keeps(w)
           /\ watcher'[w].mode = watcher[w].mode /\ watcher'[w].offer = watcher[w].offer
           /\ watcher'[w].slice = watcher[w].slice
<1> DEFINE t == watcher[w]
           r == [t EXCEPT !.pc = pc]
<1>1. t \in Watcher
  BY DEF TypeOK
<1>2. r \in Watcher /\ r.pc = pc /\ r.seen = t.seen /\ r.last = t.last /\ r.fresh = t.fresh
      /\ r.mode = t.mode /\ r.offer = t.offer /\ r.slice = t.slice
  BY <1>1 DEF Watcher
<1>3. watcher' = [watcher EXCEPT ![w] = r]
  BY DEF Goto, TypeOK
<1> HIDE DEF r
<1> QED  BY <1>2, <1>3, MovesTo DEF Keeps

LEMMA TurnedDoes ==
    ASSUME TypeOK, NEW w \in Watchers, watcher' = Turned(w)
    PROVE  Moves(w, "select") /\ Keeps(w)
<1> DEFINE t == watcher[w]
           r == [t EXCEPT !.pc = "select", !.slice = {}, !.mode = "Ingress", !.offer = NoHost]
<1>1. t \in Watcher /\ NoHost \in Host
  BY DEF TypeOK, Host, OptionalHost
<1>2. r \in Watcher /\ r.pc = "select" /\ r.seen = t.seen /\ r.last = t.last /\ r.fresh = t.fresh
  BY <1>1 DEF Watcher, ExposeModes
<1>3. watcher' = [watcher EXCEPT ![w] = r]
  BY DEF Turned, TypeOK
<1> HIDE DEF r
<1> QED  BY <1>2, <1>3, MovesTo DEF Keeps

LEMMA ReadChansDoes ==
    ASSUME TypeOK, NEW w \in Watchers, ReadChans(w)
    PROVE  Moves(w, "append") /\ Keeps(w) /\ watcher'[w].slice = chans
<1> DEFINE t == watcher[w]
           r == [t EXCEPT !.slice = chans, !.pc = "append"]
<1>1. t \in Watcher /\ chans \in SUBSET Watchers
  BY DEF TypeOK
<1>2. r \in Watcher /\ r.pc = "append" /\ r.slice = chans
      /\ r.seen = t.seen /\ r.last = t.last /\ r.fresh = t.fresh
  BY <1>1 DEF Watcher
<1>3. watcher' = [watcher EXCEPT ![w] = r]
  BY DEF ReadChans, TypeOK
<1> HIDE DEF r
<1> QED  BY <1>2, <1>3, MovesTo DEF Keeps

LEMMA RscUpdateDoes ==
    ASSUME TypeOK, NEW w \in Watchers, RscUpdate(w)
    PROVE  /\ Moves(w, "mode") /\ watcher'[w].seen /\ watcher'[w].last = Head(events[w])
           /\ watcher'[w].fresh = (Len(events[w]) = 1)
           /\ events[w] \in Seq(Resource) /\ events[w] # <<>>
           /\ events' \in [Watchers -> Seq(Resource)] /\ events'[w] = Tail(events[w])
           /\ \A v \in Watchers \ {w} : events'[v] = events[v]
<1> DEFINE t == watcher[w]
           r == [t EXCEPT !.seen = TRUE, !.last = Head(events[w]),
                          !.fresh = (Len(events[w]) = 1), !.pc = "mode"]
<1>1. t \in Watcher /\ events[w] \in Seq(Resource) /\ events[w] # <<>>
      /\ events \in [Watchers -> Seq(Resource)]
  BY DEF TypeOK, RscUpdate
<1>2. Head(events[w]) \in Resource /\ Tail(events[w]) \in Seq(Resource)
  BY <1>1, LastDoes
<1>3. r \in Watcher /\ r.pc = "mode" /\ r.seen /\ r.last = Head(events[w])
      /\ r.fresh = (Len(events[w]) = 1)
  BY <1>1, <1>2 DEF Watcher
<1>4. watcher' = [watcher EXCEPT ![w] = r]
  BY DEF RscUpdate, TypeOK
<1>5. events' = [events EXCEPT ![w] = Tail(events[w])]
  BY DEF RscUpdate
<1> HIDE DEF r
<1> QED  BY <1>1, <1>2, <1>3, <1>4, <1>5, MovesTo

LEMMA ReadModeDoes ==
    ASSUME TypeOK, NEW w \in Watchers, ReadMode(w)
    PROVE  /\ Keeps(w)
           /\ \/ ModeNow \in ExposeModes /\ Moves(w, "host") /\ watcher'[w].mode = ModeNow
              \/ ModeNow \notin ExposeModes /\ Moves(w, "select")
<1> DEFINE t == watcher[w]
           r == [t EXCEPT !.mode = ModeNow, !.pc = "host"]
<1>1. t \in Watcher
  BY DEF TypeOK
<1>2. CASE ModeNow \in ExposeModes
  <2>1. r \in Watcher /\ r.pc = "host" /\ r.mode = ModeNow
        /\ r.seen = t.seen /\ r.last = t.last /\ r.fresh = t.fresh
    BY <1>1, <1>2 DEF Watcher
  <2>2. watcher' = [watcher EXCEPT ![w] = r]
    BY <1>2 DEF ReadMode, TypeOK, ModeNow
  <2> HIDE DEF r
  <2> QED  BY <1>2, <2>1, <2>2, MovesTo DEF Keeps
<1>3. CASE ModeNow \notin ExposeModes
  <2>1. Goto(w, "select")
    BY <1>3 DEF ReadMode, ModeNow
  <2> QED  BY <1>3, <2>1, GotoDoes
<1> QED  BY <1>2, <1>3

LEMMA ReconcileServiceDoes ==
    ASSUME TypeOK, ReconcileService
    PROVE  LET t == watcher["service"]
               r == watcher'["service"] IN
           /\ At("service", "host") /\ Moves("service", r.pc)
           /\ r.pc \in {"send", "update"}
           /\ r.pc = "send" <=> t.mode # "Ingress" /\ r.offer # NoHost
           /\ r.mode = t.mode /\ r.seen = t.seen /\ r.fresh = t.fresh
           /\ r.last.type = ServiceType(t.mode) /\ r.last.ip = t.last.ip
           /\ r.offer = ExternalHost(r.last, t.mode)
<1> DEFINE t == watcher["service"]
           offer == ExternalHost(t.last, t.mode)
           pc == IF t.mode = "Ingress" \/ offer = NoHost THEN "update" ELSE "send"
           type == ServiceType(t.mode)
           r == [t EXCEPT !.last.type = type, !.offer = offer, !.pc = pc]
<1>1. t \in Watcher /\ t.last \in Resource /\ t.mode \in ExposeModes
  BY DEF TypeOK, Watcher, Watchers
<1>2. type \in {"LoadBalancer", "ClusterIP"}
  BY <1>1 DEF ServiceType, ExposeModes
<1>3. offer \in Host
  BY <1>1 DEF ExternalHost, Resource, Host, OptionalHost
<1>4. watcher' = [watcher EXCEPT !["service"] = r]
  BY DEF ReconcileService, TypeOK, Watchers
<1>5. offer = ExternalHost([t.last EXCEPT !.type = type], t.mode)
  BY <1>1 DEF ExternalHost, Resource
<1> HIDE DEF offer, type
<1>6. pc \in {"send", "update"} /\ (pc = "send" <=> t.mode # "Ingress" /\ offer # NoHost)
  OBVIOUS
<1> HIDE DEF pc
<1>7. [t.last EXCEPT !.type = type] \in Resource
  BY <1>1, <1>2 DEF Resource
<1>8. /\ r \in Watcher /\ r.pc = pc /\ r.mode = t.mode /\ r.seen = t.seen /\ r.fresh = t.fresh
      /\ r.offer = offer /\ r.last = [t.last EXCEPT !.type = type]
  BY <1>1, <1>3, <1>6, <1>7 DEF Watcher
<1>9. r.last.type = type /\ r.last.ip = t.last.ip
  BY <1>1, <1>8 DEF Resource
<1> HIDE DEF r
<1>10. At("service", "host") /\ "service" \in Watchers
  BY DEF ReconcileService, Watchers
<1> QED  BY <1>4, <1>5, <1>6, <1>8, <1>9, <1>10, MovesTo DEF type

LEMMA SetRuleHostDoes ==
    ASSUME TypeOK, NEW x \in Host, SetRuleHost(x, AfterHost)
    PROVE  LET t == watcher["ingress"]
               r == watcher'["ingress"] IN
           /\ Moves("ingress", r.pc) /\ r.pc \in {"send", "update"}
           /\ r.pc = "send" <=> t.mode = "Ingress"
           /\ r.mode = t.mode /\ r.seen = t.seen /\ r.fresh = t.fresh
           /\ r.last.host = x /\ r.last.ip = t.last.ip /\ r.offer = x
<1> DEFINE t == watcher["ingress"]
           r == [t EXCEPT !.last.host = x, !.offer = x, !.pc = AfterHost]
<1>1. t \in Watcher /\ t.last \in Resource
  BY DEF TypeOK, Watcher, Watchers
<1>2. AfterHost \in {"send", "update"} /\ (AfterHost = "send" <=> t.mode = "Ingress")
  BY DEF AfterHost
<1>3. watcher' = [watcher EXCEPT !["ingress"] = r]
  BY DEF SetRuleHost, TypeOK, Watchers
<1>4. [t.last EXCEPT !.host = x] \in Resource
  BY <1>1 DEF Resource
<1>5. /\ r \in Watcher /\ r.pc = AfterHost /\ r.mode = t.mode /\ r.seen = t.seen
      /\ r.fresh = t.fresh /\ r.offer = x /\ r.last = [t.last EXCEPT !.host = x]
  BY <1>1, <1>2, <1>4 DEF Watcher
<1>6. r.last.host = x /\ r.last.ip = t.last.ip
  BY <1>1, <1>5 DEF Resource
<1> HIDE DEF r
<1>7. "ingress" \in Watchers
  BY DEF Watchers
<1> QED  BY <1>2, <1>3, <1>5, <1>6, <1>7, MovesTo

\* A new version of w's resource.
Stores(w, x) ==
    /\ rsc' \in [Watchers -> Resource] /\ events' \in [Watchers -> Seq(Resource)]
    /\ rsc'[w] = x /\ events'[w] = Append(events[w], x)
    /\ \A v \in Watchers \ {w} : rsc'[v] = rsc[v] /\ events'[v] = events[v]
    /\ log' = log

LEMMA StoreDoes ==
    ASSUME TypeOK, NEW w \in Watchers, NEW x \in Resource, NEW now \in [Watchers -> Watcher],
           Store(w, x, now)
    PROVE  /\ Stores(w, x)
           /\ watcher' \in [Watchers -> Watcher] /\ ~watcher'[w].fresh
           /\ watcher'[w].pc = now[w].pc /\ watcher'[w].last = now[w].last
           /\ watcher'[w].seen = now[w].seen /\ watcher'[w].mode = now[w].mode
           /\ watcher'[w].offer = now[w].offer /\ watcher'[w].slice = now[w].slice
           /\ \A v \in Watchers \ {w} : watcher'[v] = now[v]
<1> DEFINE r == [now[w] EXCEPT !.fresh = FALSE]
<1>1. now[w] \in Watcher /\ events[w] \in Seq(Resource)
  BY DEF TypeOK
<1>2. /\ r \in Watcher /\ ~r.fresh /\ r.pc = now[w].pc /\ r.last = now[w].last
      /\ r.seen = now[w].seen /\ r.mode = now[w].mode /\ r.offer = now[w].offer
      /\ r.slice = now[w].slice
  BY <1>1 DEF Watcher
<1>3. watcher' = [now EXCEPT ![w] = r]
  BY DEF Store
<1> HIDE DEF r
<1>4. Append(events[w], x) \in Seq(Resource)
  BY <1>1, LastDoes
<1>5. Stores(w, x)
  BY <1>4 DEF Store, Stores, TypeOK
<1> QED  BY <1>2, <1>3, <1>5

LEMMA UpdateResourceDoes ==
    ASSUME TypeOK, NEW w \in Watchers, UpdateResource(w)
    PROVE  /\ At(w, "update") /\ Moves(w, "select") /\ failed' = failed \ {w}
           /\ \/ /\ watcher[w].fresh /\ Stores(w, watcher[w].last) /\ ~watcher'[w].fresh
                 /\ watcher'[w].seen = watcher[w].seen /\ watcher'[w].last = watcher[w].last
              \/ /\ watcher[w].fresh => watcher[w].last = rsc[w]
                 /\ Keeps(w) /\ UNCHANGED apiVars
<1>1. watcher[w] \in Watcher /\ watcher[w].last \in Resource
  BY DEF TypeOK, Watcher
<1>2. At(w, "update") /\ failed' = failed \ {w}
  BY DEF UpdateResource
<1>3. CASE watcher[w].fresh /\ watcher[w].last # rsc[w]
  <2> DEFINE r == [watcher[w] EXCEPT !.pc = "select", !.slice = {}, !.mode = "Ingress",
                                     !.offer = NoHost]
  <2>1. Turned(w) = [watcher EXCEPT ![w] = r]
    BY DEF Turned, TypeOK
  <2>2. NoHost \in Host
    BY DEF Host, OptionalHost
  <2>3. /\ r \in Watcher /\ r.pc = "select" /\ r.seen = watcher[w].seen
        /\ r.last = watcher[w].last
    BY <1>1, <2>2 DEF Watcher, ExposeModes
  <2> HIDE DEF r
  <2>4. /\ Turned(w) \in [Watchers -> Watcher] /\ Turned(w)[w] = r
        /\ \A v \in Watchers \ {w} : Turned(w)[v] = watcher[v]
    BY <2>1, <2>3 DEF TypeOK
  <2>5. Store(w, watcher[w].last, Turned(w))
    BY <1>3 DEF UpdateResource
  <2>6. PICK now \in [Watchers -> Watcher] :
           /\ Store(w, watcher[w].last, now) /\ now[w] = r
           /\ \A v \in Watchers \ {w} : now[v] = watcher[v]
    BY <2>4, <2>5
  <2> QED  BY <1>1, <1>2, <1>3, <2>3, <2>6, StoreDoes DEF Moves
<1>4. CASE ~(watcher[w].fresh /\ watcher[w].last # rsc[w])
  <2>1. watcher' = Turned(w) /\ UNCHANGED apiVars
    BY <1>4 DEF UpdateResource
  <2> QED  BY <1>2, <1>4, <2>1, TurnedDoes
<1> QED  BY <1>3, <1>4

LEMMA WatcherType ==
    ASSUME TypeInv, NEW w \in Watchers, WatcherStep(w)
    PROVE  TypeInv'
<1> USE DEF apiVars, ctrlVars, bounds, TypeInv
<1>1. CASE ReadChans(w)
  BY <1>1, ReadChansDoes DEF ReadChans, TypeOK, Moves
<1>2. CASE RegisterChan(w)
  <2>1. Moves(w, "select") /\ chans' \subseteq Watchers
    BY <1>2, TurnedDoes DEF RegisterChan, TypeOK, Watcher
  <2>2. events' \in [Watchers -> Seq(Resource)]
    BY <1>2 DEF RegisterChan, TypeOK
  <2> QED  BY <1>2, <2>1, <2>2 DEF RegisterChan, TypeOK, Moves
<1>3. CASE RscUpdate(w)
  BY <1>3, RscUpdateDoes DEF RscUpdate, TypeOK, Moves
<1>4. CASE CfgUpdate(w)
  <2>1. watcher' \in [Watchers -> Watcher] /\ cfgCh' \subseteq Watchers
    BY <1>4, GotoDoes DEF CfgUpdate, TypeOK, Moves
  <2> QED  BY <1>4, <2>1 DEF CfgUpdate, TypeOK
<1>5. CASE ReadMode(w)
  BY <1>5, ReadModeDoes DEF ReadMode, TypeOK, Moves
<1>6. CASE ReconcileService
  BY <1>6, ReconcileServiceDoes DEF ReconcileService, TypeOK, Moves
<1>7. ASSUME NEW x \in Host, SetRuleHost(x, AfterHost),
             UNCHANGED <<apiVars, ctrlVars, cfgCh, updater, current, bounds>>
      PROVE  TypeInv'
  BY <1>7, SetRuleHostDoes DEF TypeOK, Moves
<1>8. CASE ReconcileIngress
  <2>1. /\ watcher["ingress"] \in Watcher /\ watcher["ingress"].last \in Resource
        /\ "ingress" \in Watchers
    BY DEF TypeOK, Watcher, Watchers
  <2>2. CASE config.ingressHost # NoHost
    <3>1. Moves("ingress", "assign")
      BY <1>8, <2>1, <2>2, GotoDoes DEF ReconcileIngress
    <3> QED  BY <1>8, <3>1 DEF ReconcileIngress, TypeOK, Moves
  <2>3. CASE config.ingressHost = NoHost
    <3> DEFINE last == watcher["ingress"].last
               x == IF last.ip # NoIp THEN <<"nip.io", last.ip>> ELSE last.host
    <3>1. x \in Host
      BY <2>1 DEF Resource, Host
    <3>2. SetRuleHost(x, AfterHost)
      BY <1>8, <2>3 DEF ReconcileIngress
    <3> HIDE DEF x
    <3> QED  BY <1>7, <1>8, <3>1, <3>2 DEF ReconcileIngress
  <2> QED  BY <2>2, <2>3
<1>9. CASE AssignIngressHost
  <2>1. config.ingressHost \in Host
    BY DEF TypeOK, Setting, Host
  <2> QED  BY <1>7, <1>9, <2>1 DEF AssignIngressHost
<1>10. CASE SendHost(w)
  <2>1. Moves(w, "update")
    BY <1>10, GotoDoes DEF SendHost
  <2>2. watcher[w].offer \in Host
    BY DEF TypeOK, Watcher
  <2> QED  BY <1>10, <2>1, <2>2 DEF SendHost, TypeOK, Moves
<1>11. CASE UpdateResource(w)
  BY <1>11, UpdateResourceDoes DEF UpdateResource, Store, TypeOK, Moves, Stores
<1>12. CASE UpdateResourceErr(w)
  <2>1. Moves(w, "select")
    BY <1>12, TurnedDoes DEF UpdateResourceErr
  <2>2. faults' \in 0..MaxFaults
    BY <1>12, BoundAssumption DEF UpdateResourceErr, TypeOK
  <2> QED  BY <1>12, <2>1, <2>2 DEF UpdateResourceErr, TypeOK, Moves
<1> QED  BY <1>1, <1>2, <1>3, <1>4, <1>5, <1>6, <1>8, <1>9, <1>10, <1>11, <1>12 DEF WatcherStep

LEMMA TypeStep == TypeInv /\ [Next]_vars => TypeInv'
<1> SUFFICES ASSUME TypeInv, [Next]_vars
             PROVE  TypeInv'
  OBVIOUS
<1> USE DEF apiVars, ctrlVars, bounds, TypeInv
<1>1. CASE UpdateExternalURL
  BY <1>1 DEF UpdateExternalURL, TypeOK, UpdaterIdle, Host, OptionalHost
<1>2. CASE AssignExternalHost
  <2>1. config.external \in Host /\ NoHost \in Host
    BY DEF TypeOK, Setting, Host, OptionalHost
  <2> QED  BY <1>2, <2>1 DEF AssignExternalHost, TypeOK, UpdaterIdle
<1>3. CASE UNCHANGED vars
  BY <1>3 DEF vars, TypeOK
<1> QED  BY <1>1, <1>2, <1>3, EnvType, CtrlType, WatcherType DEF Next, UpdaterStep

\* The variables keep their types; a host that is sent is configured, an address or
\* the placeholder of the manifests.
THEOREM TypeCorrect == Spec => []TypeOK
<1>1. TypeInv => TypeOK
  BY DEF TypeInv
<1> QED  BY <1>1, TypeInit, TypeStep, PTL DEF Spec

(***************************************************************************)
(* Start-up, the variables and the slice of channels.                      *)
(***************************************************************************)
\* main adds its handler before the first event, and no append is lost.
InOrder == "slowAdd" \notin Env /\ "lostAppend" \notin Env

Registered(w) == watcher[w].pc \notin {"off", "register", "append"}

\* The watchers start when the variables have been written for the first time.
Startup ==
    /\ log # <<>>
    /\ main = "add" => cfgSeen = 0
    /\ main = "wait" /\ cfgSeen > 0 /\ ctrl.pc # "write" => initCh
    /\ initCh => main = "wait" /\ cfgSeen > 0
    /\ main = "up" => cfgSeen > 0 /\ \A w \in Watchers : ~At(w, "off")
    /\ main # "up" => \A w \in Watchers : At(w, "off")

\* What is not left to write is as the settings given last.
ConfigFollows ==
    /\ ctrl.pc # "write" => ctrl.write = {}
    /\ ctrl.pc # "notify" => ctrl.notify = {}
    /\ cfgSeen > 0 => \A f \in Fields \ ctrl.write : config[f] = log[cfgSeen][f]
    /\ main = "up" \/ initCh => \E i \in 1..Len(log) : config.mode = log[i].mode

\* A watcher at its select is in the slice.
Registration ==
    /\ \A w \in Watchers : Registered(w) => w \in chans
    /\ \A w \in Watchers : At(w, "append") => chans \subseteq watcher[w].slice
    /\ \A v, w \in Watchers : At(v, "append") /\ At(w, "append") => v = w

\* What a watcher's step leaves alone: the process around it and the other watcher.
Apart(v) ==
    /\ watcher'[v] = watcher[v] /\ rsc'[v] = rsc[v] /\ events'[v] = events[v]
    /\ v \in cfgCh' <=> v \in cfgCh
    /\ v \in failed' <=> v \in failed

Around(w) ==
    /\ UNCHANGED <<log, cfgSeen, ctrl, config, main, initCh>>
    /\ \A v \in Watchers \ {w} : Apart(v)
    /\ watcher[w].pc # "off" /\ watcher'[w].pc # "off"

LEMMA WatcherFrame ==
    ASSUME TypeOK, NEW w \in Watchers, WatcherStep(w)
    PROVE  /\ Around(w)
           /\ \/ ReadChans(w) \/ RegisterChan(w)
              \/ Registered(w) /\ Registered(w)' /\ chans' = chans
<1> USE DEF apiVars, ctrlVars, bounds, Moves, At, Registered, Around, Apart
<1>1. CASE ReadChans(w)
  BY <1>1, ReadChansDoes DEF ReadChans
<1>2. CASE RegisterChan(w)
  <2>1. Moves(w, "select")
    BY <1>2, TurnedDoes DEF RegisterChan
  <2>2. \A v \in Watchers \ {w} : events'[v] = events[v]
    BY <1>2 DEF RegisterChan, TypeOK
  <2> QED  BY <1>2, <2>1, <2>2 DEF RegisterChan
<1>3. CASE RscUpdate(w)
  BY <1>3, RscUpdateDoes DEF RscUpdate
<1>4. CASE CfgUpdate(w)
  BY <1>4, GotoDoes DEF CfgUpdate
<1>5. CASE ReadMode(w)
  BY <1>5, ReadModeDoes DEF ReadMode
<1>6. CASE w = "service" /\ ReconcileService
  BY <1>6, ReconcileServiceDoes DEF ReconcileService
<1>7. ASSUME NEW x \in Host, SetRuleHost(x, AfterHost), w = "ingress",
             ReconcileIngress \/ AssignIngressHost
      PROVE  Around(w) /\ Registered(w) /\ Registered(w)' /\ chans' = chans
  BY <1>7, SetRuleHostDoes DEF ReconcileIngress, AssignIngressHost
<1>8. CASE w = "ingress" /\ ReconcileIngress
  <2>1. CASE config.ingressHost # NoHost
    BY <1>8, <2>1, GotoDoes DEF ReconcileIngress
  <2>2. CASE config.ingressHost = NoHost
    <3>1. watcher["ingress"] \in Watcher /\ watcher["ingress"].last \in Resource
      BY <1>8 DEF TypeOK, Watcher
    <3>2. PICK x \in Host : SetRuleHost(x, AfterHost)
      BY <1>8, <2>2, <3>1 DEF ReconcileIngress, Resource, Host
    <3> QED  BY <1>7, <1>8, <3>2
  <2> QED  BY <2>1, <2>2
<1>9. CASE w = "ingress" /\ AssignIngressHost
  <2>1. config.ingressHost \in Host /\ SetRuleHost(config.ingressHost, AfterHost)
    BY <1>9 DEF TypeOK, Setting, Host, AssignIngressHost
  <2> QED  BY <1>7, <1>9, <2>1 DEF AssignIngressHost
<1>10. CASE SendHost(w)
  BY <1>10, GotoDoes DEF SendHost
<1>11. CASE UpdateResource(w)
  BY <1>11, UpdateResourceDoes DEF UpdateResource, Store, Stores
<1>12. CASE UpdateResourceErr(w)
  BY <1>12, TurnedDoes DEF UpdateResourceErr
<1> QED  BY <1>1, <1>2, <1>3, <1>4, <1>5, <1>6, <1>8, <1>9, <1>10, <1>11, <1>12 DEF WatcherStep

\* The steps of the environment leave the process alone, but for its watchers'
\* knowledge of versions.
LEMMA AssignIpDoes ==
    ASSUME TypeOK, NEW w \in Watchers, NEW ip \in Ips, AssignIp(w, ip)
    PROVE  /\ Stores(w, [rsc[w] EXCEPT !.ip = ip])
           /\ watcher' \in [Watchers -> Watcher] /\ ~watcher'[w].fresh
           /\ watcher'[w].pc = watcher[w].pc /\ watcher'[w].last = watcher[w].last
           /\ watcher'[w].seen = watcher[w].seen /\ watcher'[w].mode = watcher[w].mode
           /\ watcher'[w].offer = watcher[w].offer /\ watcher'[w].slice = watcher[w].slice
           /\ \A v \in Watchers \ {w} : watcher'[v] = watcher[v]
           /\ UNCHANGED <<ctrlVars, cfgCh, updater, current, failed, faults>>
<1>1. [rsc[w] EXCEPT !.ip = ip] \in Resource
  BY DEF TypeOK, Resource
<1>2. watcher \in [Watchers -> Watcher]
  BY DEF TypeOK
<1>3. Store(w, [rsc[w] EXCEPT !.ip = ip], watcher)
  BY DEF AssignIp
<1> QED  BY <1>1, <1>2, <1>3, StoreDoes DEF AssignIp

LEMMA StartupStep ==
    ASSUME InOrder, TypeInv, Startup, [Next]_vars
    PROVE  Startup'
<1> USE DEF Startup, At, apiVars, ctrlVars, bounds, TypeInv
<1>1. ASSUME NEW s \in Settings, EditConfig(s)
      PROVE  Startup'
  <2>1. log' # <<>>
    BY <1>1, SettingsAssumption, LastDoes DEF EditConfig, TypeOK
  <2> QED  BY <1>1, <2>1 DEF EditConfig
<1>2. ASSUME NEW w \in Watchers, NEW ip \in Ips, AssignIp(w, ip)
      PROVE  Startup'
  <2>1. UNCHANGED <<log, main, cfgSeen, ctrl, initCh>>
    BY <1>2, AssignIpDoes DEF Stores
  <2>2. \A v \in Watchers : watcher'[v].pc = watcher[v].pc
    BY <1>2, AssignIpDoes
  <2> QED  BY <2>1, <2>2
<1>3. CASE Crash
  BY <1>3 DEF Crash, Off
<1>4. CASE AddHandler
  BY <1>4 DEF AddHandler
<1>5. CASE InitReceived
  BY <1>5 DEF InitReceived, Off
<1>6. ASSUME NEW n \in 1..Len(log), ConfigEvent(n)
      PROVE  Startup'
  <2>1. n > 0 /\ main # "add"
    BY <1>6 DEF ConfigEvent, InOrder, TypeOK
  <2> QED  BY <1>6, <2>1 DEF ConfigEvent, CtrlIdle, TypeOK
<1>7. ASSUME NEW f \in Fields, GetVar(f)
      PROVE  Startup'
  BY <1>7 DEF GetVar, TypeOK
<1>8. CASE GetVarsDone
  <2>1. cfgSeen > 0
    BY <1>8 DEF GetVarsDone, TypeOK
  <2> QED  BY <1>8, <2>1 DEF GetVarsDone, TypeOK
<1>9. ASSUME NEW w \in Watchers, Notify(w)
      PROVE  Startup'
  BY <1>9 DEF Notify, TypeOK
<1>10. CASE NotifyDone
  BY <1>10 DEF NotifyDone, CtrlIdle
<1>11. ASSUME NEW w \in Watchers, WatcherStep(w)
       PROVE  Startup'
  BY <1>11, WatcherFrame DEF Around, Apart
<1>12. CASE UpdaterStep
  BY <1>12 DEF UpdaterStep, UpdateExternalURL, AssignExternalHost
<1>13. CASE UNCHANGED vars
  BY <1>13 DEF vars
<1> QED  BY <1>1, <1>2, <1>3, <1>4, <1>5, <1>6, <1>7, <1>8, <1>9, <1>10, <1>11, <1>12, <1>13
         DEF Next, CtrlStep, MainStep

LEMMA ConfigStep ==
    ASSUME InOrder, TypeInv, Startup, ConfigFollows, [Next]_vars
    PROVE  ConfigFollows'
<1> USE DEF ConfigFollows, apiVars, ctrlVars, bounds, TypeInv
<1>1. ASSUME NEW s \in Settings, EditConfig(s)
      PROVE  ConfigFollows'
  <2>1. /\ Len(log') = Len(log) + 1 /\ Len(log) \in Nat
        /\ \A i \in 1..Len(log) : log'[i] = log[i]
    BY <1>1, SettingsAssumption, LastDoes DEF EditConfig, TypeOK
  <2>2. cfgSeen > 0 => cfgSeen \in 1..Len(log)
    BY DEF TypeOK
  <2>3. 1..Len(log) \subseteq 1..Len(log')
    BY <2>1
  <2> QED  BY <1>1, <2>1, <2>2, <2>3 DEF EditConfig
<1>2. ASSUME NEW w \in Watchers, NEW ip \in Ips, AssignIp(w, ip)
      PROVE  ConfigFollows'
  BY <1>2, AssignIpDoes DEF Stores
<1>3. CASE Crash
  BY <1>3 DEF Crash, CtrlIdle
<1>4. CASE AddHandler
  BY <1>4 DEF AddHandler
<1>5. CASE InitReceived
  BY <1>5 DEF InitReceived
<1>6. ASSUME NEW n \in 1..Len(log), ConfigEvent(n)
      PROVE  ConfigFollows'
  <2>1. main # "add" /\ n > 0 /\ cfgSeen' = n /\ config' = config /\ log' = log
    BY <1>6 DEF ConfigEvent, InOrder
  <2>2. /\ ctrl'.pc = "write" /\ ctrl'.notify = {}
        /\ ctrl'.write = {f \in Fields : config[f] # log[n][f]}
    BY <1>6, <2>1 DEF ConfigEvent, CtrlIdle
  <2> QED  BY <1>6, <2>1, <2>2 DEF ConfigEvent
<1>7. ASSUME NEW f \in Fields, GetVar(f)
      PROVE  ConfigFollows'
  <2>1. cfgSeen \in 1..Len(log) /\ log[cfgSeen] \in Setting
    BY <1>7 DEF GetVar, TypeOK
  <2>2. \A g \in Fields : config'[g] = IF g = f THEN log[cfgSeen][f] ELSE config[g]
    BY <1>7 DEF GetVar, TypeOK, Setting, Fields
  <2>3. config'["mode"] = IF f = "mode" THEN log[cfgSeen]["mode"] ELSE config["mode"]
    BY <2>2 DEF Fields
  <2>4. ctrl'.pc = ctrl.pc /\ ctrl'.write = ctrl.write \ {f} /\ ctrl.pc = "write"
    BY <1>7 DEF GetVar, TypeOK
  <2> QED  BY <1>7, <2>1, <2>2, <2>3, <2>4 DEF GetVar
<1>8. CASE GetVarsDone
  <2>1. cfgSeen \in 1..Len(log)
    BY <1>8 DEF GetVarsDone, TypeOK
  <2>2. config.mode = log[cfgSeen].mode
    BY <1>8, <2>1 DEF GetVarsDone, Fields
  <2> QED  BY <1>8, <2>1, <2>2 DEF GetVarsDone, TypeOK
<1>9. ASSUME NEW w \in Watchers, Notify(w)
      PROVE  ConfigFollows'
  BY <1>9 DEF Notify, TypeOK
<1>10. CASE NotifyDone
  BY <1>10 DEF NotifyDone, CtrlIdle
<1>11. ASSUME NEW w \in Watchers, WatcherStep(w)
       PROVE  ConfigFollows'
  BY <1>11, WatcherFrame DEF Around, Apart
<1>12. CASE UpdaterStep
  BY <1>12 DEF UpdaterStep, UpdateExternalURL, AssignExternalHost
<1>13. CASE UNCHANGED vars
  BY <1>13 DEF vars
<1> QED  BY <1>1, <1>2, <1>3, <1>4, <1>5, <1>6, <1>7, <1>8, <1>9, <1>10, <1>11, <1>12, <1>13
         DEF Next, CtrlStep, MainStep

LEMMA RegistrationStep ==
    ASSUME InOrder, TypeInv, Registration, [Next]_vars
    PROVE  Registration'
<1> USE DEF Registration, Registered, At, apiVars, ctrlVars, bounds, TypeInv
<1>1. ASSUME chans' = chans,
             \A v \in Watchers : /\ watcher'[v].pc = watcher[v].pc
                                 /\ watcher'[v].slice = watcher[v].slice
      PROVE  Registration'
  BY <1>1
<1>2. ASSUME NEW w \in Watchers, NEW ip \in Ips, AssignIp(w, ip)
      PROVE  Registration'
  <2>1. chans' = chans /\ \A v \in Watchers : /\ watcher'[v].pc = watcher[v].pc
                                              /\ watcher'[v].slice = watcher[v].slice
    BY <1>2, AssignIpDoes
  <2> QED  BY <1>1, <2>1
<1>3. CASE Crash
  BY <1>3 DEF Crash, Off
<1>4. CASE InitReceived
  BY <1>4 DEF InitReceived, Off
<1>5. ASSUME NEW w \in Watchers, ReadChans(w)
      PROVE  Registration'
  BY <1>5, ReadChansDoes DEF ReadChans, InOrder, Moves
<1>6. ASSUME NEW w \in Watchers, RegisterChan(w)
      PROVE  Registration'
  <2>1. Moves(w, "select") /\ chans' = watcher[w].slice \cup {w} /\ At(w, "append")
    BY <1>6, TurnedDoes DEF RegisterChan
  <2>2. \A v \in Watchers : watcher'[v].pc # "append"
    BY <2>1 DEF Moves
  <2> QED  BY <2>1, <2>2 DEF Moves
<1>7. ASSUME NEW w \in Watchers, WatcherStep(w), ~ReadChans(w), ~RegisterChan(w)
      PROVE  Registration'
  <2>1. Registered(w) /\ Registered(w)' /\ chans' = chans
    BY <1>7, WatcherFrame
  <2>2. \A v \in Watchers \ {w} : watcher'[v] = watcher[v]
    BY <1>7, WatcherFrame DEF Around, Apart
  <2> QED  BY <2>1, <2>2
<1>8. CASE UNCHANGED <<chans, watcher>>
  BY <1>1, <1>8
<1>9. (\E s \in Settings : EditConfig(s)) \/ AddHandler \/ CtrlStep \/ UpdaterStep
        => UNCHANGED <<chans, watcher>>
  BY DEF EditConfig, AddHandler, CtrlStep, ConfigEvent, GetVar, GetVarsDone, Notify,
         NotifyDone, UpdaterStep, UpdateExternalURL, AssignExternalHost
<1> QED  BY <1>2, <1>3, <1>4, <1>5, <1>6, <1>7, <1>8, <1>9 DEF Next, MainStep, vars

(***************************************************************************)
(* The versions a watcher has been given.                                  *)
(***************************************************************************)
\* The version a watcher holds is the stored one, or that is on its way.
VersionFollows(w) ==
    /\ events[w] # <<>> => Last(events[w]) = rsc[w]
    /\ watcher[w].fresh => /\ Registered(w) /\ watcher[w].seen /\ events[w] = <<>>
                           /\ watcher[w].last.ip = rsc[w].ip
    /\ Registered(w) => watcher[w].fresh \/ events[w] # <<>>

VersionsFollow == \A w \in Watchers : VersionFollows(w)

LEMMA OtherVersions ==
    ASSUME NEW v \in Watchers, VersionFollows(v), watcher'[v] = watcher[v], rsc'[v] = rsc[v],
           events'[v] = events[v]
    PROVE  VersionFollows(v)'
BY DEF VersionFollows, Registered

\* A version that is stored is on its way to its watcher.
LEMMA StoredVersion ==
    ASSUME TypeOK, NEW w \in Watchers, NEW x \in Resource, Stores(w, x), ~watcher'[w].fresh
    PROVE  events'[w] # <<>> /\ VersionFollows(w)'
<1>1. events[w] \in Seq(Resource) /\ events'[w] = Append(events[w], x) /\ rsc'[w] = x
  BY DEF TypeOK, Stores
<1>2. events'[w] # <<>> /\ Last(events'[w]) = x
  BY <1>1, LastDoes
<1> QED  BY <1>1, <1>2 DEF VersionFollows

LEMMA OwnVersion ==
    ASSUME TypeInv, NEW w \in Watchers, WatcherStep(w), VersionFollows(w)
    PROVE  VersionFollows(w)'
<1> USE DEF TypeInv, At, apiVars, Moves, Keeps
<1>1. ASSUME UNCHANGED <<rsc, events>>, Registered(w), Registered(w)',
             watcher'[w].fresh = watcher[w].fresh, watcher'[w].seen = watcher[w].seen,
             watcher'[w].last.ip = watcher[w].last.ip
      PROVE  VersionFollows(w)'
  BY <1>1 DEF VersionFollows
<1>2. CASE ReadChans(w)
  BY <1>2, ReadChansDoes DEF ReadChans, VersionFollows, Registered
<1>3. CASE RegisterChan(w)
  <2>1. ~watcher[w].fresh /\ ~watcher'[w].fresh
    BY <1>3, TurnedDoes DEF RegisterChan, VersionFollows, Registered
  <2>2. events'[w] = <<rsc[w]>> /\ rsc' = rsc
    BY <1>3 DEF RegisterChan, TypeOK
  <2>3. events'[w] # <<>> /\ Last(events'[w]) = rsc[w]
    BY <2>2 DEF Last
  <2> QED  BY <2>1, <2>2, <2>3 DEF VersionFollows
<1>4. CASE RscUpdate(w)
  <2>1. /\ Moves(w, "mode") /\ watcher'[w].seen /\ watcher'[w].last = Head(events[w])
        /\ watcher'[w].fresh = (Len(events[w]) = 1)
        /\ events[w] \in Seq(Resource) /\ events[w] # <<>> /\ events'[w] = Tail(events[w])
        /\ rsc' = rsc
    BY <1>4, RscUpdateDoes DEF RscUpdate
  <2>2. /\ Tail(events[w]) # <<>> => Last(Tail(events[w])) = Last(events[w])
        /\ Len(events[w]) = 1 <=> Tail(events[w]) = <<>>
        /\ Len(events[w]) = 1 => Head(events[w]) = Last(events[w])
    BY <2>1, LastDoes
  <2>3. Registered(w)'
    BY <2>1 DEF Registered
  <2> QED  BY <2>1, <2>2, <2>3 DEF VersionFollows
<1>5. CASE CfgUpdate(w)
  BY <1>1, <1>5, GotoDoes DEF CfgUpdate, Registered
<1>6. CASE ReadMode(w)
  BY <1>1, <1>6, ReadModeDoes DEF ReadMode, Registered
<1>7. CASE w = "service" /\ ReconcileService
  BY <1>1, <1>7, ReconcileServiceDoes DEF ReconcileService, Registered
<1>8. ASSUME NEW x \in Host, SetRuleHost(x, AfterHost), w = "ingress", Registered(w),
             UNCHANGED <<rsc, events>>
      PROVE  VersionFollows(w)'
  BY <1>1, <1>8, SetRuleHostDoes DEF Registered
<1>9. CASE w = "ingress" /\ ReconcileIngress
  <2>1. CASE config.ingressHost # NoHost
    BY <1>1, <1>9, <2>1, GotoDoes DEF ReconcileIngress, Registered
  <2>2. CASE config.ingressHost = NoHost
    <3>1. watcher["ingress"] \in Watcher /\ watcher["ingress"].last \in Resource
      BY <1>9 DEF TypeOK, Watcher
    <3>2. PICK x \in Host : SetRuleHost(x, AfterHost)
      BY <1>9, <2>2, <3>1 DEF ReconcileIngress, Resource, Host
    <3> QED  BY <1>8, <1>9, <3>2 DEF ReconcileIngress, Registered
  <2> QED  BY <2>1, <2>2
<1>10. CASE w = "ingress" /\ AssignIngressHost
  <2>1. config.ingressHost \in Host /\ SetRuleHost(config.ingressHost, AfterHost)
    BY <1>10 DEF TypeOK, Setting, Host, AssignIngressHost
  <2> QED  BY <1>8, <1>10, <2>1 DEF AssignIngressHost, Registered
<1>11. CASE SendHost(w)
  BY <1>1, <1>11, GotoDoes DEF SendHost, Registered
<1>12. CASE UpdateResource(w)
  <2>1. At(w, "update") /\ Moves(w, "select")
    BY <1>12, UpdateResourceDoes
  <2>2. CASE Stores(w, watcher[w].last) /\ ~watcher'[w].fresh
    <3>1. watcher[w].last \in Resource
      BY DEF TypeOK, Watcher
    <3> QED  BY <2>2, <3>1, StoredVersion
  <2>3. CASE Keeps(w) /\ UNCHANGED apiVars
    BY <1>1, <2>1, <2>3 DEF Registered
  <2> QED  BY <1>12, <2>2, <2>3, UpdateResourceDoes
<1>13. CASE UpdateResourceErr(w)
  BY <1>1, <1>13, TurnedDoes DEF UpdateResourceErr, Registered
<1> QED  BY <1>2, <1>3, <1>4, <1>5, <1>6, <1>7, <1>9, <1>10, <1>11, <1>12, <1>13
         DEF WatcherStep

LEMMA VersionsStep ==
    ASSUME TypeInv, VersionsFollow, [Next]_vars
    PROVE  VersionsFollow'
<1> USE DEF VersionsFollow, apiVars, ctrlVars, bounds, TypeInv
<1>1. ASSUME NEW w \in Watchers, NEW ip \in Ips, AssignIp(w, ip)
      PROVE  VersionsFollow'
  <2> DEFINE x == [rsc[w] EXCEPT !.ip = ip]
  <2>1. x \in Resource
    BY DEF TypeOK, Resource
  <2>2. Stores(w, x) /\ ~watcher'[w].fresh
    BY <1>1, AssignIpDoes
  <2>3. \A v \in Watchers \ {w} : /\ watcher'[v] = watcher[v] /\ rsc'[v] = rsc[v]
                                  /\ events'[v] = events[v]
    BY <1>1, <2>2, AssignIpDoes DEF Stores
  <2> HIDE DEF x
  <2> QED  BY <2>1, <2>2, <2>3, StoredVersion, OtherVersions
<1>2. CASE Crash
  BY <1>2 DEF Crash, Off, VersionFollows, Registered
<1>3. CASE InitReceived
  <2>1. \A w \in Watchers : ~watcher'[w].fresh /\ ~Registered(w)'
    BY <1>3 DEF InitReceived, Off, Registered
  <2>2. UNCHANGED <<rsc, events>>
    BY <1>3 DEF InitReceived
  <2> QED  BY <2>1, <2>2 DEF VersionFollows
<1>4. ASSUME NEW w \in Watchers, WatcherStep(w)
      PROVE  VersionsFollow'
  BY <1>4, WatcherFrame, OwnVersion, OtherVersions DEF Around, Apart
<1>5. CASE UNCHANGED <<rsc, events, watcher>>
  BY <1>5, OtherVersions
<1>6. (\E s \in Settings : EditConfig(s)) \/ AddHandler \/ CtrlStep \/ UpdaterStep
        => UNCHANGED <<rsc, events, watcher>>
  BY DEF EditConfig, AddHandler, CtrlStep, ConfigEvent, GetVar, GetVarsDone, Notify,
         NotifyDone, UpdaterStep, UpdateExternalURL, AssignExternalHost
<1> QED  BY <1>1, <1>2, <1>3, <1>4, <1>5, <1>6 DEF Next, MainStep, vars

(***************************************************************************)
(* Service and Ingress.                                                    *)
(***************************************************************************)
\* w is going to reconcile once more, after the variables have been written.
Due(w) ==
    \/ events[w] # <<>> \/ w \in cfgCh
    \/ ctrl.pc = "write" \/ w \in ctrl.notify

\* x is what the variables want w's resource to be.
Wanted(w, x) ==
    IF w = "service" THEN x.type = ServiceType(ModeNow)
    ELSE IF config.ingressHost # NoHost THEN x.host = config.ingressHost
    ELSE x.ip = NoIp \/ x.host = <<"nip.io", x.ip>>

\* How far w has come with making it that.
ResourceKept(w) ==
    /\ At(w, "select") /\ w \notin failed => Wanted(w, rsc[w])
    /\ watcher[w].pc \in {"host", "assign", "send", "update"} => watcher[w].mode = ModeNow
    /\ At(w, "assign") => w = "ingress" /\ config.ingressHost # NoHost
    /\ watcher[w].pc \in {"send", "update"} => Wanted(w, watcher[w].last)

ResourceOk(w) == ModeNow \in ExposeModes => Due(w) \/ ResourceKept(w)

ResourcesKept == \A w \in Watchers : ResourceOk(w)

\* Steps that neither concern w nor write the variables.
LEMMA OtherResources ==
    ASSUME NEW v \in Watchers, ResourceOk(v), watcher'[v] = watcher[v], rsc'[v] = rsc[v],
           events'[v] = events[v], v \in cfgCh => v \in cfgCh', UNCHANGED config,
           v \in failed => v \in failed',
           (ctrl.pc = "write" \/ v \in ctrl.notify)
             => (ctrl'.pc = "write" \/ v \in ctrl'.notify \/ v \in cfgCh')
    PROVE  ResourceOk(v)'
<1>1. ModeNow' = ModeNow
  BY DEF ModeNow
<1>2. Due(v) => Due(v)'
  BY DEF Due
<1>3. \A x : Wanted(v, x)' <=> Wanted(v, x)
  BY <1>1 DEF Wanted
<1>4. ResourceKept(v) => ResourceKept(v)'
  BY <1>1 DEF ResourceKept, Wanted, At
<1> QED  BY <1>1, <1>2, <1>4 DEF ResourceOk

LEMMA OwnResource ==
    ASSUME TypeInv, NEW w \in Watchers, WatcherStep(w), VersionFollows(w), ResourceOk(w)
    PROVE  ResourceOk(w)'
<1> USE DEF TypeInv, At, apiVars, ctrlVars, bounds, Moves, Keeps
<1>1. UNCHANGED <<config, ctrl>> /\ ModeNow' = ModeNow
  BY WatcherFrame DEF Around, ModeNow
<1>2. ASSUME watcher'[w].pc \in {"register", "append", "mode"}
      PROVE  ResourceOk(w)'
  BY <1>2 DEF ResourceOk, ResourceKept
<1>3. ASSUME events'[w] # <<>>
      PROVE  ResourceOk(w)'
  BY <1>3 DEF ResourceOk, Due
<1>4. CASE ReadChans(w)
  BY <1>2, <1>4, ReadChansDoes
<1>5. CASE RegisterChan(w)
  <2>1. events'[w] = <<rsc[w]>>
    BY <1>5 DEF RegisterChan, TypeOK
  <2> QED  BY <1>3, <2>1
<1>6. CASE RscUpdate(w)
  BY <1>2, <1>6, RscUpdateDoes
<1>7. CASE CfgUpdate(w)
  <2>1. CASE watcher[w].seen
    <3>1. watcher'[w].pc = "mode"
      BY <1>7, <2>1, GotoDoes DEF CfgUpdate
    <3> QED  BY <1>2, <3>1
  <2>2. CASE ~watcher[w].seen
    <3>1. events[w] # <<>> /\ events' = events
      BY <1>7, <2>2 DEF CfgUpdate, VersionFollows, Registered
    <3> QED  BY <1>3, <3>1
  <2> QED  BY <2>1, <2>2
<1>8. CASE ReadMode(w)
  <2>1. ModeNow \notin ExposeModes \/ (Moves(w, "host") /\ watcher'[w].mode = ModeNow)
    BY <1>8, ReadModeDoes
  <2> QED  BY <1>1, <2>1 DEF ResourceOk, ResourceKept
<1>9. ASSUME UNCHANGED <<events, cfgCh>>
      PROVE  Due(w)' <=> Due(w)
  BY <1>1, <1>9 DEF Due
<1>10. CASE w = "service" /\ ReconcileService
  <2>1. Due(w)' <=> Due(w)
    BY <1>9, <1>10 DEF ReconcileService
  <2>2. /\ At(w, "host") /\ watcher'[w].pc \in {"send", "update"}
        /\ watcher'[w].mode = watcher[w].mode
        /\ watcher'[w].last.type = ServiceType(watcher[w].mode)
    BY <1>10, ReconcileServiceDoes
  <2>3. ResourceKept(w) => ResourceKept(w)'
    BY <1>1, <1>10, <2>2 DEF ResourceKept, Wanted
  <2> QED  BY <1>1, <2>1, <2>3 DEF ResourceOk
<1>11. ASSUME NEW x \in Host, SetRuleHost(x, AfterHost), w = "ingress",
              UNCHANGED <<events, cfgCh>>, watcher[w].pc \in {"host", "assign"},
              ResourceKept(w) => \/ config.ingressHost # NoHost /\ x = config.ingressHost
                                 \/ /\ config.ingressHost = NoHost
                                    /\ \/ watcher[w].last.ip = NoIp
                                       \/ x = <<"nip.io", watcher[w].last.ip>>
       PROVE  ResourceOk(w)'
  <2>1. /\ watcher'[w].pc \in {"send", "update"} /\ watcher'[w].mode = watcher[w].mode
        /\ watcher'[w].last.host = x /\ watcher'[w].last.ip = watcher[w].last.ip
    BY <1>11, SetRuleHostDoes
  <2>2. ResourceKept(w) => ResourceKept(w)'
    BY <1>1, <1>11, <2>1 DEF ResourceKept, Wanted
  <2> QED  BY <1>1, <1>9, <1>11, <2>2 DEF ResourceOk
<1>12. CASE w = "ingress" /\ ReconcileIngress
  <2>1. UNCHANGED <<events, cfgCh>> /\ At(w, "host")
    BY <1>12 DEF ReconcileIngress
  <2>2. CASE config.ingressHost # NoHost
    <3>1. Moves(w, "assign") /\ watcher'[w].mode = watcher[w].mode
      BY <1>12, <2>2, GotoDoes DEF ReconcileIngress
    <3>2. ResourceKept(w) => ResourceKept(w)'
      BY <1>1, <1>12, <2>1, <2>2, <3>1 DEF ResourceKept
    <3> QED  BY <1>1, <1>9, <2>1, <3>2 DEF ResourceOk
  <2>3. CASE config.ingressHost = NoHost
    <3> DEFINE last == watcher["ingress"].last
               x == IF last.ip # NoIp THEN <<"nip.io", last.ip>> ELSE last.host
    <3>1. watcher["ingress"] \in Watcher /\ last \in Resource
      BY <1>12 DEF TypeOK, Watcher
    <3>2. x \in Host /\ (last.ip = NoIp \/ x = <<"nip.io", last.ip>>)
      BY <3>1 DEF Resource, Host
    <3>3. SetRuleHost(x, AfterHost)
      BY <1>12, <2>3 DEF ReconcileIngress
    <3> HIDE DEF x
    <3> QED  BY <1>11, <1>12, <2>1, <2>3, <3>2, <3>3
  <2> QED  BY <2>2, <2>3
<1>13. CASE w = "ingress" /\ AssignIngressHost
  <2>1. config.ingressHost \in Host /\ SetRuleHost(config.ingressHost, AfterHost)
    BY <1>13 DEF TypeOK, Setting, Host, AssignIngressHost
  <2>2. UNCHANGED <<events, cfgCh>> /\ At(w, "assign")
    BY <1>13 DEF AssignIngressHost
  <2>3. ResourceKept(w) => config.ingressHost # NoHost
    BY <2>2 DEF ResourceKept
  <2> QED  BY <1>11, <1>13, <2>1, <2>2, <2>3
<1>14. CASE SendHost(w)
  <2>1. Moves(w, "update") /\ Keeps(w) /\ watcher'[w].mode = watcher[w].mode /\ At(w, "send")
    BY <1>14, GotoDoes DEF SendHost
  <2>2. ResourceKept(w) => ResourceKept(w)'
    BY <1>1, <2>1 DEF ResourceKept, Wanted
  <2>3. UNCHANGED <<events, cfgCh>>
    BY <1>14 DEF SendHost
  <2> QED  BY <1>1, <1>9, <2>2, <2>3 DEF ResourceOk
<1>15. CASE UpdateResource(w)
  <2>1. At(w, "update") /\ Moves(w, "select") /\ cfgCh' = cfgCh
    BY <1>15, UpdateResourceDoes DEF UpdateResource
  <2>2. CASE watcher[w].fresh /\ Stores(w, watcher[w].last) /\ ~watcher'[w].fresh
    <3>1. watcher[w].last \in Resource
      BY DEF TypeOK, Watcher
    <3> QED  BY <1>3, <2>2, <3>1, StoredVersion
  <2>3. CASE (watcher[w].fresh => watcher[w].last = rsc[w]) /\ Keeps(w) /\ UNCHANGED apiVars
    <3>1. CASE watcher[w].fresh
      <4>1. ResourceKept(w) => ResourceKept(w)'
        BY <1>1, <2>1, <2>3, <3>1 DEF ResourceKept, Wanted
      <4> QED  BY <1>1, <1>9, <2>1, <2>3, <4>1 DEF ResourceOk
    <3>2. CASE ~watcher[w].fresh
      BY <1>3, <2>1, <2>3, <3>2 DEF VersionFollows, Registered
    <3> QED  BY <3>1, <3>2
  <2> QED  BY <1>15, <2>2, <2>3, UpdateResourceDoes
<1>16. CASE UpdateResourceErr(w)
  <2>1. Moves(w, "select") /\ w \in failed' /\ UNCHANGED <<events, cfgCh>>
    BY <1>16, TurnedDoes DEF UpdateResourceErr
  <2>2. ResourceKept(w)'
    BY <2>1 DEF ResourceKept
  <2> QED  BY <2>2 DEF ResourceOk
<1> QED  BY <1>4, <1>5, <1>6, <1>7, <1>8, <1>10, <1>12, <1>13, <1>14, <1>15, <1>16
         DEF WatcherStep

\* While the variables are written, every watcher has a turn to come.
LEMMA WritingIsDue ==
    ASSUME ctrl'.pc = "write"
    PROVE  ResourcesKept'
BY DEF ResourcesKept, ResourceOk, Due

LEMMA ResourcesStep ==
    ASSUME InOrder, TypeInv, Registration, VersionsFollow, ResourcesKept, [Next]_vars
    PROVE  ResourcesKept'
<1> USE DEF ResourcesKept, apiVars, ctrlVars, bounds, TypeInv
<1>1. ASSUME NEW w \in Watchers, NEW ip \in Ips, AssignIp(w, ip)
      PROVE  ResourcesKept'
  <2> DEFINE x == [rsc[w] EXCEPT !.ip = ip]
  <2>1. x \in Resource
    BY DEF TypeOK, Resource
  <2>2. Stores(w, x) /\ ~watcher'[w].fresh
    BY <1>1, AssignIpDoes
  <2>3. \A v \in Watchers \ {w} : /\ watcher'[v] = watcher[v] /\ rsc'[v] = rsc[v]
                                  /\ events'[v] = events[v]
    BY <1>1, <2>2, AssignIpDoes DEF Stores
  <2>4. UNCHANGED <<ctrl, config, cfgCh, failed>>
    BY <1>1, AssignIpDoes
  <2> HIDE DEF x
  <2>5. events'[w] # <<>>
    BY <2>1, <2>2, StoredVersion
  <2>6. ResourceOk(w)'
    BY <2>5 DEF ResourceOk, Due
  <2>7. \A v \in Watchers \ {w} : ResourceOk(v)'
    BY <2>3, <2>4, OtherResources
  <2> QED  BY <2>6, <2>7
<1>2. ASSUME \A w \in Watchers : watcher'[w].pc \in {"off", "register"}
      PROVE  ResourcesKept'
  BY <1>2 DEF ResourceOk, ResourceKept, At
<1>3. CASE Crash
  BY <1>2, <1>3 DEF Crash, Off
<1>4. CASE InitReceived
  BY <1>2, <1>4 DEF InitReceived, Off
<1>5. ASSUME NEW n \in 1..Len(log), ConfigEvent(n)
      PROVE  ResourcesKept'
  <2>1. ctrl'.pc = "write"
    BY <1>5 DEF ConfigEvent, InOrder, CtrlIdle
  <2> QED  BY <2>1, WritingIsDue
<1>6. ASSUME NEW f \in Fields, GetVar(f)
      PROVE  ResourcesKept'
  <2>1. ctrl'.pc = "write"
    BY <1>6 DEF GetVar, TypeOK
  <2> QED  BY <2>1, WritingIsDue
<1>7. CASE GetVarsDone
  <2>1. ctrl'.notify = chans /\ watcher' = watcher
    BY <1>7 DEF GetVarsDone, TypeOK
  <2>2. ASSUME NEW w \in Watchers
        PROVE  ResourceOk(w)'
    <3>1. CASE Registered(w)
      BY <2>1, <3>1 DEF Registration, ResourceOk, Due
    <3>2. CASE ~Registered(w)
      BY <2>1, <3>2 DEF Registered, ResourceOk, ResourceKept, At
    <3> QED  BY <3>1, <3>2
  <2> QED  BY <2>2
<1>8. ASSUME NEW w \in Watchers, Notify(w)
      PROVE  ResourcesKept'
  <2>1. /\ UNCHANGED <<watcher, rsc, events, config, failed>> /\ cfgCh' = cfgCh \cup {w}
        /\ ctrl'.pc = ctrl.pc /\ ctrl'.notify = ctrl.notify \ {w}
    BY <1>8 DEF Notify, TypeOK
  <2> QED  BY <2>1, OtherResources
<1>9. CASE NotifyDone
  <2>1. /\ UNCHANGED <<watcher, rsc, events, config, failed, cfgCh>>
        /\ ctrl.pc # "write" /\ ctrl.notify = {}
    BY <1>9 DEF NotifyDone
  <2> QED  BY <2>1, OtherResources
<1>10. ASSUME NEW w \in Watchers, WatcherStep(w)
       PROVE  ResourcesKept'
  <2>1. ResourceOk(w)'
    BY <1>10, OwnResource DEF VersionsFollow
  <2>2. ASSUME NEW v \in Watchers \ {w}
        PROVE  ResourceOk(v)'
    <3>1. Apart(v) /\ UNCHANGED <<config, ctrl>>
      BY <1>10, WatcherFrame DEF Around
    <3> QED  BY <3>1, OtherResources DEF Apart
  <2> QED  BY <2>1, <2>2
<1>11. CASE UNCHANGED <<watcher, rsc, events, config, failed, cfgCh, ctrl>>
  BY <1>11, OtherResources
<1>12. (\E s \in Settings : EditConfig(s)) \/ AddHandler \/ UpdaterStep
         => UNCHANGED <<watcher, rsc, events, config, failed, cfgCh, ctrl>>
  BY DEF EditConfig, AddHandler, UpdaterStep, UpdateExternalURL, AssignExternalHost
<1> QED  BY <1>1, <1>3, <1>4, <1>5, <1>6, <1>7, <1>8, <1>9, <1>10, <1>11, <1>12
         DEF Next, CtrlStep, MainStep, vars

(***************************************************************************)
(* When all is done.                                                       *)
(***************************************************************************)
SettingInv == TypeInv /\ Startup /\ ConfigFollows /\ Registration

ResourceInv == SettingInv /\ VersionsFollow /\ ResourcesKept

LEMMA ResourceInit == Init => ResourceInv
<1> SUFFICES ASSUME Init
             PROVE  ResourceInv
  OBVIOUS
<1>1. TypeInv
  BY TypeInit
<1>2. log # <<>>
  BY DEF Init
<1>3. Startup /\ ConfigFollows
  BY <1>2 DEF Init, Startup, ConfigFollows, CtrlIdle, Off, At
<1>4. Registration /\ VersionsFollow /\ ResourcesKept
  BY DEF Init, Registration, VersionsFollow, VersionFollows, ResourcesKept, ResourceOk,
         ResourceKept, Registered, Off, At
<1> QED  BY <1>1, <1>3, <1>4 DEF ResourceInv, SettingInv

LEMMA ResourceInvStep == InOrder /\ ResourceInv /\ [Next]_vars => ResourceInv'
BY TypeStep, StartupStep, ConfigStep, RegistrationStep, VersionsStep, ResourcesStep
   DEF ResourceInv, SettingInv

\* Then the variables are the present settings, and no watcher is due.
LEMMA QuietMeans ==
    ASSUME SettingInv, Quiet
    PROVE  /\ main = "up" /\ config = Latest /\ Mode = ModeNow
           /\ \A w \in Watchers : At(w, "select") /\ ~Due(w)
<1>1. /\ cfgSeen = Len(log) /\ ctrl.pc = "idle" /\ main # "add" /\ ~initCh /\ cfgCh = {}
      /\ \A w \in Watchers : /\ watcher[w].pc \in {"off", "select"}
                             /\ watcher[w].pc = "select" => events[w] = <<>>
  BY DEF Quiet
<1>2. log # <<>> /\ log \in Seq(Setting) /\ Len(log) \in Nat /\ 1 <= Len(log)
      /\ Last(log) = log[Len(log)] /\ Last(log) \in Setting
  BY LastDoes DEF SettingInv, TypeInv, TypeOK, Startup
<1>3. main \in {"add", "wait", "up"} /\ config \in Setting
  BY DEF SettingInv, TypeInv, TypeOK
<1>4. main = "up"
  BY <1>1, <1>2, <1>3 DEF SettingInv, Startup
<1>5. \A f \in Fields : config[f] = Last(log)[f]
  BY <1>1, <1>2 DEF SettingInv, ConfigFollows
<1>6. config = Last(log)
  BY <1>2, <1>3, <1>5 DEF Setting, Fields
<1>7. \A w \in Watchers : At(w, "select")
  BY <1>1, <1>4 DEF SettingInv, Startup, At
<1>8. ctrl.notify = {}
  BY <1>1 DEF SettingInv, ConfigFollows
<1> QED  BY <1>1, <1>4, <1>6, <1>7, <1>8 DEF Due, At, Latest, Mode, ModeNow

\* Once nothing is left to do, Service and Ingress are as the last settings want
\* them: however often these are edited, versions conflict and processes die, as
\* long as main is in time for the first event and no registration is lost.
THEOREM ResourcesSettle ==
    ASSUME InOrder
    PROVE  Spec => []SettledResources
<1>1. ResourceInv => SettledResources
  <2> SUFFICES ASSUME ResourceInv, Quiet, failed = {}, Mode \in ExposeModes
               PROVE  ResourcesFollow
    BY DEF SettledResources, ResourcesFollow
  <2>1. /\ config = Latest /\ Mode = ModeNow
        /\ \A w \in Watchers : At(w, "select") /\ ~Due(w)
    BY QuietMeans DEF ResourceInv
  <2>2. \A w \in Watchers : Wanted(w, rsc[w])
    BY <2>1 DEF ResourceInv, ResourcesKept, ResourceOk, ResourceKept
  <2> QED  BY <2>1, <2>2 DEF ResourcesFollow, Wanted, Watchers
<1>2. ResourceInv /\ [Next]_vars => ResourceInv'
  BY InOrder, ResourceInvStep
<1> QED  BY <1>1, <1>2, ResourceInit, PTL DEF Spec

(***************************************************************************)
(* The host name.                                                          *)
(***************************************************************************)
TurnPcs == {"host", "assign", "send", "update"}

\* The watcher that sends host names in the present mode.
Sender == IF ModeNow = "Ingress" THEN "ingress" ELSE "service"

ExposedBy(x) == IF ModeNow = "Ingress" THEN x.host ELSE ExternalHost(x, ModeNow)

\* While the mode is kept, turns work with it.
TurnsAgree ==
    ModeKept => \A w \in Watchers : /\ watcher[w].pc \in TurnPcs => watcher[w].mode = ModeNow
                                    /\ At(w, "send") => w = Sender

\* The host h has been sent, and is current or about to be.
Announced(h) ==
    h # NoHost =>
        \/ /\ updater.pc = "idle"
           /\ current = IF config.external # NoHost THEN config.external ELSE h
        \/ updater.pc = "check" /\ updater.host = h
        \/ updater.pc = "assign" /\ config.external # NoHost

\* How far its sender has come with it.
HostKept(w) ==
    /\ watcher[w].pc \in {"send", "update"} => watcher[w].offer = ExposedBy(watcher[w].last)
    /\ At(w, "update") => Announced(watcher[w].offer)
    /\ At(w, "select") /\ w \notin failed => Announced(ExposedBy(rsc[w]))

HostOk ==
    ModeKept /\ ModeNow \in ExposeModes
      => \A w \in Watchers : w = Sender => Due(w) \/ HostKept(w)

\* The mode of the variables is that of all settings, if there is one, before and
\* after each step.
LEMMA ModeStays ==
    ASSUME SettingInv, SettingInv', [Next]_vars, main = "up", main' = "up", ModeKept'
    PROVE  ModeKept /\ ModeNow' = ModeNow /\ Sender' = Sender
<1>1. /\ log \in Seq(Setting) /\ log # <<>> /\ Len(log) \in Nat /\ 1 <= Len(log)
      /\ Last(log) = log[Len(log)]
  BY LastDoes DEF SettingInv, TypeInv, TypeOK, Startup
<1>2. /\ log' \in Seq(Setting) /\ Len(log') \in Nat /\ Len(log) <= Len(log')
      /\ \A i \in 1..Len(log) : log'[i] = log[i]
  <2>1. CASE log' = log
    BY <1>1, <2>1
  <2>2. ASSUME NEW s \in Settings, EditConfig(s)
        PROVE  /\ log' \in Seq(Setting) /\ Len(log') = Len(log) + 1
               /\ \A i \in 1..Len(log) : log'[i] = log[i]
    BY <1>1, <2>2, SettingsAssumption, LastDoes DEF EditConfig
  <2>3. log' = log \/ \E s \in Settings : EditConfig(s)
    <3>1. \A w \in Watchers : WatcherStep(w) => log' = log
      BY WatcherFrame DEF SettingInv, TypeInv, Around
    <3>2. \A w \in Watchers, ip \in Ips : AssignIp(w, ip) => log' = log
      BY DEF AssignIp, Store
    <3> QED  BY <3>1, <3>2 DEF Next, vars, CtrlStep, MainStep, UpdaterStep, Crash, AddHandler,
               InitReceived, ConfigEvent, GetVar, GetVarsDone, Notify, NotifyDone,
               UpdateExternalURL, AssignExternalHost, apiVars
  <2> QED  BY <1>1, <2>1, <2>2, <2>3
<1>3. DOMAIN log = 1..Len(log) /\ DOMAIN log' = 1..Len(log')
  BY <1>1, <1>2
<1>4. PICK m : \A i \in 1..Len(log') : EffectiveMode(log'[i].mode) = m
  BY <1>3 DEF ModeKept
<1>5. \A i \in 1..Len(log) : EffectiveMode(log[i].mode) = m
  BY <1>1, <1>2, <1>4
<1>6. ModeKept
  BY <1>1, <1>3, <1>5 DEF ModeKept, Mode, Latest
<1>7. PICK i \in 1..Len(log) : config.mode = log[i].mode
  BY DEF SettingInv, ConfigFollows
<1>8. PICK j \in 1..Len(log') : config'.mode = log'[j].mode
  BY DEF SettingInv, ConfigFollows
<1>9. ModeNow = m /\ ModeNow' = m
  BY <1>4, <1>5, <1>7, <1>8 DEF ModeNow
<1> QED  BY <1>6, <1>9 DEF Sender

LEMMA TurnsStep ==
    ASSUME SettingInv, SettingInv', TurnsAgree, [Next]_vars
    PROVE  TurnsAgree'
<1> USE DEF At, Moves, TurnPcs
<1>1. ASSUME \A w \in Watchers : watcher'[w].pc \in {"off", "register"}
      PROVE  TurnsAgree'
  BY <1>1 DEF TurnsAgree
<1>2. CASE main' # "up"
  BY <1>1, <1>2 DEF SettingInv, Startup
<1>3. CASE InitReceived
  BY <1>1, <1>3 DEF InitReceived, Off
<1>4. CASE main = "up" /\ main' = "up"
  <2> SUFFICES ASSUME ModeKept'
               PROVE  \A w \in Watchers :
                        /\ watcher'[w].pc \in TurnPcs => watcher'[w].mode = ModeNow
                        /\ watcher'[w].pc = "send" => w = Sender
    BY <1>4, ModeStays DEF TurnsAgree
  <2>1. /\ TypeInv /\ TypeOK
        /\ \A w \in Watchers : /\ watcher[w].pc \in TurnPcs => watcher[w].mode = ModeNow
                               /\ watcher[w].pc = "send" => w = Sender
    BY <1>4, ModeStays DEF TurnsAgree, SettingInv, TypeInv
  <2>2. ASSUME NEW w \in Watchers, NEW ip \in Ips, AssignIp(w, ip), NEW v \in Watchers
        PROVE  watcher'[v].pc = watcher[v].pc /\ watcher'[v].mode = watcher[v].mode
    BY <2>1, <2>2, AssignIpDoes
  <2>3. ASSUME NEW w \in Watchers, WatcherStep(w)
        PROVE  /\ watcher'[w].pc \in TurnPcs => watcher'[w].mode = ModeNow
               /\ watcher'[w].pc = "send" => w = Sender
               /\ \A v \in Watchers \ {w} : watcher'[v] = watcher[v]
    <3>1. \A v \in Watchers \ {w} : watcher'[v] = watcher[v]
      BY <2>1, <2>3, WatcherFrame DEF Around, Apart
    <3>2. CASE ReadChans(w)
      BY <2>1, <3>1, <3>2, ReadChansDoes
    <3>3. CASE RegisterChan(w)
      BY <2>1, <3>1, <3>3, TurnedDoes DEF RegisterChan
    <3>4. CASE RscUpdate(w)
      BY <2>1, <3>1, <3>4, RscUpdateDoes
    <3>5. CASE CfgUpdate(w)
      BY <2>1, <3>1, <3>5, GotoDoes DEF CfgUpdate
    <3>6. CASE ReadMode(w)
      BY <2>1, <3>1, <3>6, ReadModeDoes
    <3>7. CASE w = "service" /\ ReconcileService
      BY <2>1, <3>1, <3>7, ReconcileServiceDoes DEF Sender
    <3>8. ASSUME NEW x \in Host, SetRuleHost(x, AfterHost), w = "ingress",
                 watcher[w].pc \in TurnPcs
          PROVE  /\ watcher'[w].pc \in TurnPcs => watcher'[w].mode = ModeNow
                 /\ watcher'[w].pc = "send" => w = Sender
      BY <2>1, <3>8, SetRuleHostDoes DEF Sender
    <3>9. CASE w = "ingress" /\ ReconcileIngress
      <4>1. CASE config.ingressHost # NoHost
        BY <2>1, <3>1, <3>9, <4>1, GotoDoes DEF ReconcileIngress
      <4>2. CASE config.ingressHost = NoHost
        <5>1. watcher["ingress"] \in Watcher /\ watcher["ingress"].last \in Resource
          BY <2>1, <3>9 DEF TypeOK, Watcher
        <5>2. PICK x \in Host : SetRuleHost(x, AfterHost)
          BY <3>9, <4>2, <5>1 DEF ReconcileIngress, Resource, Host
        <5> QED  BY <3>1, <3>8, <3>9, <5>2 DEF ReconcileIngress
      <4> QED  BY <4>1, <4>2
    <3>10. CASE w = "ingress" /\ AssignIngressHost
      <4>1. config.ingressHost \in Host /\ SetRuleHost(config.ingressHost, AfterHost)
        BY <2>1, <3>10 DEF TypeOK, Setting, Host, AssignIngressHost
      <4> QED  BY <3>1, <3>8, <3>10, <4>1 DEF AssignIngressHost
    <3>11. CASE SendHost(w)
      BY <2>1, <3>1, <3>11, GotoDoes DEF SendHost
    <3>12. CASE UpdateResource(w)
      BY <2>1, <3>1, <3>12, UpdateResourceDoes
    <3>13. CASE UpdateResourceErr(w)
      BY <2>1, <3>1, <3>13, TurnedDoes DEF UpdateResourceErr
    <3> QED  BY <2>3, <3>2, <3>3, <3>4, <3>5, <3>6, <3>7, <3>9, <3>10, <3>11, <3>12, <3>13
             DEF WatcherStep
  <2>4. CASE UNCHANGED watcher
    BY <2>1, <2>4
  <2>5. (\E s \in Settings : EditConfig(s)) \/ AddHandler \/ CtrlStep \/ UpdaterStep
          => UNCHANGED watcher
    BY DEF EditConfig, AddHandler, CtrlStep, ConfigEvent, GetVar, GetVarsDone, Notify,
           NotifyDone, UpdaterStep, UpdateExternalURL, AssignExternalHost
  <2>6. ~Crash /\ ~InitReceived
    BY <1>4 DEF Crash, InitReceived
  <2>7. \/ UNCHANGED watcher
        \/ \E w \in Watchers, ip \in Ips : AssignIp(w, ip)
        \/ \E w \in Watchers : WatcherStep(w)
    BY <2>5, <2>6 DEF Next, MainStep, vars
  <2>8. CASE \E w \in Watchers, ip \in Ips : AssignIp(w, ip)
    BY <2>1, <2>2, <2>8
  <2>9. CASE \E w \in Watchers : WatcherStep(w)
    BY <2>1, <2>3, <2>9
  <2> QED  BY <2>4, <2>7, <2>8, <2>9
<1>5. main = "up" \/ main' # "up" \/ InitReceived
  <2>1. \A w \in Watchers : WatcherStep(w) => main' = main
    BY WatcherFrame DEF SettingInv, TypeInv, Around
  <2>2. \A w \in Watchers, ip \in Ips : AssignIp(w, ip) => main' = main
    BY DEF AssignIp, ctrlVars
  <2> QED  BY <2>1, <2>2 DEF Next, vars, CtrlStep, MainStep, UpdaterStep, Crash, AddHandler,
               ConfigEvent, GetVar, GetVarsDone, Notify, NotifyDone, EditConfig,
               UpdateExternalURL, AssignExternalHost, ctrlVars
<1> QED  BY <1>2, <1>3, <1>4, <1>5

LEMMA OwnHost ==
    ASSUME TypeInv, Startup, VersionsFollow, TurnsAgree, ModeKept, ModeNow \in ExposeModes,
           NEW w \in Watchers, w = Sender, WatcherStep(w), Due(w) \/ HostKept(w)
    PROVE  Due(w)' \/ HostKept(w)'
<1> USE DEF TypeInv, At, apiVars, ctrlVars, bounds, Moves, Keeps, TurnPcs
<1>1. UNCHANGED <<config, ctrl>> /\ ModeNow' = ModeNow
  BY WatcherFrame DEF Around, ModeNow
<1>2. \A x : ExposedBy(x)' = ExposedBy(x)
  BY <1>1 DEF ExposedBy
<1>3. /\ watcher[w].pc \in TurnPcs => watcher[w].mode = ModeNow
      /\ VersionFollows(w)
  BY DEF TurnsAgree, VersionsFollow
<1>4. ASSUME UNCHANGED <<updater, current>>, NEW h
      PROVE  Announced(h)' <=> Announced(h)
  BY <1>1, <1>4 DEF Announced
<1>5. ASSUME watcher'[w].pc \in {"register", "append", "mode", "host", "assign"}
      PROVE  HostKept(w)'
  BY <1>5 DEF HostKept
<1>6. ASSUME events'[w] # <<>>
      PROVE  Due(w)'
  BY <1>6 DEF Due
<1>7. ASSUME UNCHANGED <<events, cfgCh>>
      PROVE  Due(w)' <=> Due(w)
  BY <1>1, <1>7 DEF Due
<1>8. CASE ReadChans(w)
  BY <1>5, <1>8, ReadChansDoes
<1>9. CASE RegisterChan(w)
  <2>1. events'[w] = <<rsc[w]>>
    BY <1>9 DEF RegisterChan, TypeOK
  <2> QED  BY <1>6, <2>1
<1>10. CASE RscUpdate(w)
  BY <1>5, <1>10, RscUpdateDoes
<1>11. CASE CfgUpdate(w)
  <2>1. CASE watcher[w].seen
    <3>1. watcher'[w].pc = "mode"
      BY <1>11, <2>1, GotoDoes DEF CfgUpdate
    <3> QED  BY <1>5, <3>1
  <2>2. CASE ~watcher[w].seen
    <3>1. events[w] # <<>> /\ events' = events
      BY <1>3, <1>11, <2>2 DEF CfgUpdate, VersionFollows, Registered
    <3> QED  BY <1>6, <3>1
  <2> QED  BY <2>1, <2>2
<1>12. CASE ReadMode(w)
  BY <1>5, <1>12, ReadModeDoes
<1>13. CASE w = "service" /\ ReconcileService
  <2> DEFINE r == watcher'["service"]
  <2>1. /\ At(w, "host") /\ r.pc \in {"send", "update"}
        /\ r.pc = "send" <=> watcher[w].mode # "Ingress" /\ r.offer # NoHost
        /\ r.offer = ExternalHost(r.last, watcher[w].mode)
    BY <1>13, ReconcileServiceDoes
  <2>2. watcher[w].mode = ModeNow /\ ModeNow # "Ingress"
    BY <1>3, <1>13, <2>1 DEF Sender
  <2>3. r.offer = ExposedBy(r.last)
    BY <2>1, <2>2 DEF ExposedBy
  <2>4. r.pc = "update" => r.offer = NoHost
    BY <2>1, <2>2
  <2> QED  BY <1>2, <1>13, <2>1, <2>3, <2>4 DEF HostKept, Announced
<1>14. ASSUME NEW x \in Host, SetRuleHost(x, AfterHost), w = "ingress",
              watcher[w].pc \in TurnPcs
       PROVE  HostKept(w)'
  <2>1. watcher[w].mode = "Ingress" /\ ModeNow = "Ingress"
    BY <1>3, <1>14 DEF Sender
  <2>2. /\ watcher'[w].pc = "send" /\ watcher'[w].last.host = x /\ watcher'[w].offer = x
    BY <1>14, <2>1, SetRuleHostDoes
  <2>3. ExposedBy(watcher'[w].last) = x
    BY <2>1, <2>2 DEF ExposedBy
  <2> QED  BY <1>2, <2>2, <2>3 DEF HostKept
<1>15. CASE w = "ingress" /\ ReconcileIngress
  <2>1. CASE config.ingressHost # NoHost
    BY <1>5, <1>15, <2>1, GotoDoes DEF ReconcileIngress
  <2>2. CASE config.ingressHost = NoHost
    <3>1. watcher["ingress"] \in Watcher /\ watcher["ingress"].last \in Resource
      BY <1>15 DEF TypeOK, Watcher
    <3>2. PICK x \in Host : SetRuleHost(x, AfterHost)
      BY <1>15, <2>2, <3>1 DEF ReconcileIngress, Resource, Host
    <3> QED  BY <1>14, <1>15, <3>2 DEF ReconcileIngress
  <2> QED  BY <2>1, <2>2
<1>16. CASE w = "ingress" /\ AssignIngressHost
  <2>1. config.ingressHost \in Host /\ SetRuleHost(config.ingressHost, AfterHost)
    BY <1>16 DEF TypeOK, Setting, Host, AssignIngressHost
  <2> QED  BY <1>14, <1>16, <2>1 DEF AssignIngressHost
<1>17. CASE SendHost(w)
  <2>1. /\ Moves(w, "update") /\ Keeps(w) /\ watcher'[w].offer = watcher[w].offer
        /\ At(w, "send") /\ UNCHANGED <<events, cfgCh>>
    BY <1>17, GotoDoes DEF SendHost
  <2>2. watcher[w].offer # NoHost
          => updater' = [pc |-> "check", host |-> watcher[w].offer]
    BY <1>17 DEF SendHost
  <2>3. ASSUME NEW h, h = watcher[w].offer
        PROVE  Announced(h)'
    BY <2>2, <2>3 DEF Announced
  <2>4. HostKept(w) => HostKept(w)'
    BY <1>2, <2>1, <2>3 DEF HostKept
  <2> QED  BY <1>7, <2>1, <2>4
<1>18. CASE UpdateResource(w)
  <2>1. At(w, "update") /\ Moves(w, "select") /\ UNCHANGED <<cfgCh, updater, current>>
    BY <1>18, UpdateResourceDoes DEF UpdateResource
  <2>2. CASE watcher[w].fresh /\ Stores(w, watcher[w].last) /\ ~watcher'[w].fresh
    <3>1. watcher[w].last \in Resource
      BY DEF TypeOK, Watcher
    <3> QED  BY <1>6, <2>2, <3>1, StoredVersion
  <2>3. CASE (watcher[w].fresh => watcher[w].last = rsc[w]) /\ Keeps(w) /\ UNCHANGED apiVars
    <3>1. CASE watcher[w].fresh
      <4>1. HostKept(w) => Announced(ExposedBy(rsc[w]))
        BY <2>1, <2>3, <3>1 DEF HostKept
      <4>2. HostKept(w) => HostKept(w)'
        BY <1>2, <1>4, <2>1, <2>3, <4>1 DEF HostKept
      <4> QED  BY <1>7, <2>1, <2>3, <4>2
    <3>2. CASE ~watcher[w].fresh
      BY <1>3, <1>6, <2>1, <2>3, <3>2 DEF VersionFollows, Registered
    <3> QED  BY <3>1, <3>2
  <2> QED  BY <1>18, <2>2, <2>3, UpdateResourceDoes
<1>19. CASE UpdateResourceErr(w)
  <2>1. Moves(w, "select") /\ w \in failed'
    BY <1>19, TurnedDoes DEF UpdateResourceErr
  <2> QED  BY <2>1 DEF HostKept
<1> QED  BY <1>8, <1>9, <1>10, <1>11, <1>12, <1>13, <1>15, <1>16, <1>17, <1>18, <1>19
         DEF WatcherStep

\* Steps that neither concern w nor write the variables.
LEMMA OtherHosts ==
    ASSUME NEW w \in Watchers, Due(w) \/ HostKept(w),
           watcher'[w] = watcher[w], rsc'[w] = rsc[w], events'[w] = events[w],
           w \in cfgCh => w \in cfgCh', UNCHANGED config, w \in failed => w \in failed',
           (ctrl.pc = "write" \/ w \in ctrl.notify)
             => (ctrl'.pc = "write" \/ w \in ctrl'.notify \/ w \in cfgCh'),
           \A h : Announced(h) => Announced(h)'
    PROVE  Due(w)' \/ HostKept(w)'
<1>1. \A x : ExposedBy(x)' = ExposedBy(x)
  BY DEF ExposedBy, ModeNow
<1>2. Due(w) => Due(w)'
  BY DEF Due
<1>3. HostKept(w) => HostKept(w)'
  BY <1>1 DEF HostKept, At
<1> QED  BY <1>2, <1>3

LEMMA HostStep ==
    ASSUME InOrder, SettingInv, SettingInv', VersionsFollow, TurnsAgree, HostOk, [Next]_vars
    PROVE  HostOk'
<1> USE DEF apiVars, ctrlVars, bounds
<1>1. ASSUME \A w \in Watchers : watcher'[w].pc \in {"off", "register"}
      PROVE  HostOk'
  BY <1>1 DEF HostOk, HostKept, At
<1>2. CASE main' # "up"
  BY <1>1, <1>2 DEF SettingInv, Startup, At
<1>3. CASE InitReceived
  BY <1>1, <1>3 DEF InitReceived, Off
<1>4. CASE ctrl'.pc = "write"
  BY <1>4 DEF HostOk, Due
<1>5. CASE main = "up" /\ main' = "up" /\ ctrl'.pc # "write"
  <2> SUFFICES ASSUME ModeKept', ModeNow' \in ExposeModes, NEW w \in Watchers, w = Sender'
               PROVE  Due(w)' \/ HostKept(w)'
    BY DEF HostOk
  <2>1. ModeKept /\ ModeNow' = ModeNow /\ Sender' = Sender
    BY <1>5, ModeStays
  <2>2. TypeInv /\ TypeOK /\ Startup /\ Registration /\ w = Sender /\ (Due(w) \/ HostKept(w))
    BY <2>1 DEF HostOk, SettingInv, TypeInv
  <2>3. ASSUME UNCHANGED <<config, updater, current>>, NEW h
        PROVE  Announced(h)' <=> Announced(h)
    BY <2>3 DEF Announced
  <2>4. ASSUME NEW v \in Watchers, NEW ip \in Ips, AssignIp(v, ip)
        PROVE  Due(w)' \/ HostKept(w)'
    <3> DEFINE x == [rsc[v] EXCEPT !.ip = ip]
    <3>1. x \in Resource
      BY <2>2 DEF TypeOK, Resource
    <3>2. /\ Stores(v, x) /\ ~watcher'[v].fresh
          /\ UNCHANGED <<ctrl, config, cfgCh, failed, updater, current>>
      BY <2>2, <2>4, AssignIpDoes
    <3>3. v # w => watcher'[w] = watcher[w] /\ rsc'[w] = rsc[w] /\ events'[w] = events[w]
      BY <2>2, <2>4, <3>2, AssignIpDoes DEF Stores
    <3> HIDE DEF x
    <3>4. CASE v = w
      BY <2>2, <3>1, <3>2, <3>4, StoredVersion DEF Due
    <3>5. CASE v # w
      BY <2>2, <2>3, <3>2, <3>3, <3>5, OtherHosts
    <3> QED  BY <3>4, <3>5
  <2>5. CASE GetVarsDone
    <3>1. ctrl'.notify = chans /\ watcher' = watcher
      BY <2>2, <2>5 DEF GetVarsDone, TypeOK
    <3>2. CASE Registered(w)
      BY <2>2, <3>1, <3>2 DEF Registration, Due
    <3>3. CASE ~Registered(w)
      BY <3>1, <3>3 DEF Registered, HostKept, At
    <3> QED  BY <3>2, <3>3
  <2>6. ASSUME NEW v \in Watchers, Notify(v)
        PROVE  Due(w)' \/ HostKept(w)'
    <3>1. /\ UNCHANGED <<watcher, rsc, events, config, failed, updater, current>>
          /\ cfgCh' = cfgCh \cup {v}
          /\ ctrl'.pc = ctrl.pc /\ ctrl'.notify = ctrl.notify \ {v}
      BY <2>2, <2>6 DEF Notify, TypeOK
    <3> QED  BY <2>2, <2>3, <3>1, OtherHosts
  <2>7. CASE NotifyDone
    <3>1. /\ UNCHANGED <<watcher, rsc, events, config, failed, cfgCh, updater, current>>
          /\ ctrl.pc # "write" /\ ctrl.notify = {}
      BY <2>7 DEF NotifyDone
    <3> QED  BY <2>2, <2>3, <3>1, OtherHosts
  <2>8. CASE WatcherStep(w)
    BY <2>1, <2>2, <2>8, OwnHost
  <2>9. ASSUME NEW v \in Watchers \ {w}, WatcherStep(v)
        PROVE  Due(w)' \/ HostKept(w)'
    <3>1. Apart(w) /\ UNCHANGED <<config, ctrl>>
      BY <2>2, <2>9, WatcherFrame DEF Around
    <3>2. ~SendHost(v)
      BY <2>1, <2>2 DEF TurnsAgree, SendHost
    <3>3. UNCHANGED <<updater, current>>
      BY <2>9, <3>2 DEF WatcherStep, ReadChans, RegisterChan, RscUpdate, CfgUpdate, ReadMode,
         ReconcileService, ReconcileIngress, AssignIngressHost, UpdateResource, UpdateResourceErr
    <3> QED  BY <2>2, <2>3, <3>1, <3>3, OtherHosts DEF Apart
  <2>10. CASE UpdaterStep
    <3>1. UNCHANGED <<watcher, rsc, events, config, failed, cfgCh, ctrl>>
      BY <2>10 DEF UpdaterStep, UpdateExternalURL, AssignExternalHost
    <3>2. ASSUME NEW h, Announced(h)
          PROVE  Announced(h)'
      <4>1. CASE UpdateExternalURL
        BY <2>2, <3>2, <4>1 DEF UpdateExternalURL, Announced, UpdaterIdle, TypeOK
      <4>2. CASE AssignExternalHost
        BY <2>2, <3>2, <4>2 DEF AssignExternalHost, Announced, UpdaterIdle, TypeOK
      <4> QED  BY <2>10, <4>1, <4>2 DEF UpdaterStep
    <3> QED  BY <2>2, <3>1, <3>2, OtherHosts
  <2>11. CASE UNCHANGED <<watcher, rsc, events, config, failed, cfgCh, ctrl, updater, current>>
    BY <2>2, <2>3, <2>11, OtherHosts
  <2>12. (\E s \in Settings : EditConfig(s)) \/ AddHandler \/ UNCHANGED vars
           => UNCHANGED <<watcher, rsc, events, config, failed, cfgCh, ctrl, updater, current>>
    BY DEF EditConfig, AddHandler, vars
  <2>13. ~Crash /\ ~InitReceived
    BY <1>5 DEF Crash, InitReceived
  <2>14. (\A n \in 1..Len(log) : ~ConfigEvent(n)) /\ (\A f \in Fields : ~GetVar(f))
    BY <1>5, <2>2 DEF ConfigEvent, GetVar, CtrlIdle, TypeOK
  <2> QED  BY <2>4, <2>5, <2>6, <2>7, <2>8, <2>9, <2>10, <2>11, <2>12, <2>13, <2>14
           DEF Next, CtrlStep, MainStep
<1>6. main = "up" \/ main' # "up" \/ InitReceived
  <2>1. \A w \in Watchers : WatcherStep(w) => main' = main
    BY WatcherFrame DEF SettingInv, TypeInv, Around
  <2>2. \A w \in Watchers, ip \in Ips : AssignIp(w, ip) => main' = main
    BY DEF AssignIp
  <2> QED  BY <2>1, <2>2 DEF Next, vars, CtrlStep, MainStep, UpdaterStep, Crash, AddHandler,
               ConfigEvent, GetVar, GetVarsDone, Notify, NotifyDone, EditConfig,
               UpdateExternalURL, AssignExternalHost
<1> QED  BY <1>2, <1>3, <1>4, <1>5, <1>6

HostInv == ResourceInv /\ TurnsAgree /\ HostOk

LEMMA HostInit == Init => HostInv
<1> SUFFICES ASSUME Init
             PROVE  HostInv
  OBVIOUS
<1>1. \A w \in Watchers : watcher[w].pc = "off"
  BY DEF Init, Off
<1> QED  BY <1>1, ResourceInit DEF HostInv, TurnsAgree, HostOk, HostKept, TurnPcs, At

LEMMA HostInvStep == InOrder /\ HostInv /\ [Next]_vars => HostInv'
BY ResourceInvStep, TurnsStep, HostStep DEF HostInv, ResourceInv

\* Once nothing is left to do, webhooks are registered under the host name that the
\* last settings ask for: for any addresses handed out and taken away, conflicts,
\* merged notifications and crashes, if exposeMode has not been changed on the way.
THEOREM HostSettles ==
    ASSUME InOrder
    PROVE  Spec => []SettledHost
<1>1. HostInv => SettledHost
  <2> SUFFICES ASSUME HostInv, Quiet, failed = {}, ModeKept
               PROVE  HostFollows
    BY DEF SettledHost
  <2>1. /\ config = Latest /\ Mode = ModeNow
        /\ \A w \in Watchers : At(w, "select") /\ ~Due(w)
    BY QuietMeans DEF HostInv, ResourceInv
  <2>2. Sender \in Watchers
    BY DEF Sender, Watchers
  <2>3. Mode \in ExposeModes => Announced(ExposedBy(rsc[Sender]))
    BY <2>1, <2>2 DEF HostInv, HostOk, HostKept
  <2>4. Exposed = ExposedBy(rsc[Sender])
    BY <2>1 DEF Exposed, ExposedBy, Sender
  <2>5. updater.pc = "idle"
    BY DEF Quiet
  <2> QED  BY <2>1, <2>3, <2>4, <2>5 DEF HostFollows, Announced
<1>2. HostInv /\ [Next]_vars => HostInv'
  BY InOrder, HostInvStep
<1> QED  BY <1>1, <1>2, HostInit, PTL DEF Spec
=============================================================================
